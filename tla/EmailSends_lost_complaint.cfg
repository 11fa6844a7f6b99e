\* One recipient, one send: the provider's event arrives before the commit.
SPECIFICATION MCSpec
CONSTANTS
  Users = {1}
  Workers = {w1}
  MaxSends = 1
  MaxTime = 0
  MaxAborts = 0
  ChunkSize = 1
  EventTypes = {"delivered", "complained"}
  ActiveUsers = {}
  InitialAccounts <- PromotionalReader
INVARIANTS
  HandledComplaintSuppresses
CHECK_DEADLOCK FALSE
