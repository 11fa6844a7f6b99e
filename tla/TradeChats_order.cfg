\* One chat, two calls, two milliseconds.
SPECIFICATION FairChatsSpec
CONSTANTS
  Owner = owner
  Counterparties = {c1}
  WithPhone = {}
  ByEmail = {}
  ByWhatsApp = {}
  Calls = {k1, k2}
  MaxSaid = 2
  MaxStamp = 1
PROPERTIES
  ChatsGrowAtTheirEnd
CHECK_DEADLOCK FALSE
