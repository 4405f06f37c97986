SPECIFICATION Spec
CONSTANTS
  m = m
  w = w
  r = r
  a = a
  b = b
  Refs = {a, b}
  Vals = {"v"}
  Deleted = Deleted
  NoFile = NoFile
  NoName = NoName
  Suffixes = {1, 2, 3, 4}
  Proc = {m, w}
  Calls <- TwoMutators
  MaxTables = 1
  MaxGap = 0
  MaxCommits = 3
  MaxCrashes = 0
  Faults = FALSE
  Slow = FALSE
  InDir = FALSE
  Batches <- OneBatch
INVARIANTS MutualExclusion
CHECK_DEADLOCK FALSE
