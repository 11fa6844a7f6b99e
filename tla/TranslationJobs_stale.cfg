\* One worker, one language: a translation is published, then its source changes.
SPECIFICATION JobsSpec
CONSTANTS
  Languages = {es}
  Workers = {w1}
  Texts = {a, b}
  MaxSaves = 2
  MaxPageVersions = 2
  MaxJobs = 1
  MaxCrashes = 0
INVARIANTS
  ChangedSourceMakesTranslationsStale
CHECK_DEADLOCK FALSE
