\* Trades: two requests of the owner at a time over one trade, two materials, two
\* interested users, a round that is cut off.  Jobs: two workers, two jobs, a
\* source that changes and changes back, a crash.
SPECIFICATION MCSpec
CONSTANTS
  cocoa = cocoa
  coffee = coffee
  ana = ana
  ben = ben
  Trades = {t1}
  Requests = {r1, r2}
  Materials = {cocoa, coffee}
  NoKey = NoKey
  Recipients = {ana, ben}
  Interests <- MCInterests
  Reachable <- MCReachable
  Projections <- MCProjections
  Edits <- MCEdits
  MaxVersions = 3
  MaxCuts = 1
  Languages = {es}
  Workers = {w1, w2}
  Texts = {a, b}
  MaxSaves = 2
  MaxPageVersions = 3
  MaxJobs = 2
  MaxCrashes = 1
INVARIANTS
  OneLiveVersion
  DeliveriesTellTheTruth
  OffersAreAnnounced
  LabelsAreTrue
  TranslationsMoveForward
PROPERTIES
  KeepsAlertPromise
  MachineTextNeedsAnEditor
  DeliveriesSettle
  QueuedJobsEnd
CHECK_DEADLOCK FALSE
