\* Dispatch: two workers, two users, chunks of one recipient, a rollback per send,
\* two instants.  Webhook: one worker, one recipient, every event, one instant.
SPECIFICATION MCSpec
CONSTANTS
  Users = {1, 2}
  Workers = {w1, w2}
  MaxSends = 2
  MaxTime = 1
  MaxAborts = 1
  ChunkSize = 1
  EventTypes = {"delivered", "failed", "bounced", "complained"}
  ActiveUsers = {1}
  InitialAccounts <- Populations
INVARIANTS
  CopiesPerAttempt
  SkippedRowsReachNobody
  SendAgreesWithRows
  ReportedSentWasAccepted
  BounceOrComplaintSuppresses
PROPERTIES
  KeepsDeliveryPromise
  SuppressedAddressGetsNoLaterNewsletter
  DueSendsSettle
CHECK_DEADLOCK FALSE
