\* One sender, two deliveries, one of them a repeated one.
SPECIFICATION InboundSpec
CONSTANTS
  Senders = {u1}
  Handlers = {h1, h2}
  MaxFailures = 0
  MaxDuplicates = 1
INVARIANTS
  DuplicatesConverge
CHECK_DEADLOCK FALSE
