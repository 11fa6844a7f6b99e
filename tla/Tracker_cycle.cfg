\* Three items are enough for a nested cycle, two saves to close it.
SPECIFICATION TrackerSpec
CONSTANTS
  Savers = {s1, s2}
  MaxItems = 3
  MaxUpdates = 1
INVARIANT
  NoItemIsItsOwnAncestor
