SPECIFICATION Spec
CONSTANTS
  m = m
  w = w
  r = r
  a = a
  b = b
  Refs = {a, b}
  Vals = {"v"}
  Deleted = Deleted
  NoFile = NoFile
  NoName = NoName
  Suffixes = {1, 2, 3, 4}
  Proc = {m, r}
  Calls <- CompactAndRead
  MaxTables = 1
  MaxGap = 0
  MaxCommits = 3
  MaxCrashes = 0
  MaxTemps = 1
  FreeTries = 3
  FreshNames = TRUE
  Faults = FALSE
  Batches <- SmallBatches
INVARIANTS NeverAborts
CHECK_DEADLOCK FALSE
