\* Content: two administrators, five rows; with a translation worker, four.
\* Site: one administrator, two publish requests.
\* Sequences: two runs, one user, four step rows.
\* Tracker: two saves, three items, one update.
SPECIFICATION MCSpec
CONSTANTS
  Languages = {es}
  Texts = {a, b}
  Editors = {e1, e2}
  Workers = {w1}
  Titles = {t1}
  MaxRows = 5
  StoreRows = 4
  LoneEditor = e1
  SiteRows = 4
  Publishers = {p1, p2}
  MaxPublishes = 2
  Campaigns = {c1}
  Launchers = {l1, l2}
  Subscribers = {s1}
  MaxSteps = 2
  MaxStepIds = 4
  MaxMailEdits = 1
  Savers = {v1, v2}
  MaxItems = 3
  MaxUpdates = 1
SYMMETRY MCSymmetry
INVARIANTS
  ContentHasOneHistory
  UncountedRowsAreOnTheSite
  SavedStepsAreSentOnce
  ParentsAreNotMutual
CHECK_DEADLOCK FALSE
