SPECIFICATION FairSpec
CONSTANTS
  m = m
  w = w
  r = r
  a = a
  b = b
  Refs = {a, b}
  Vals = {"v"}
  Deleted = Deleted
  NoFile = NoFile
  NoName = NoName
  Suffixes = {1, 2, 3, 4}
  Proc = {m, r}
  Calls <- OneMutator
  MaxTables = 1
  MaxGap = 0
  MaxCommits = 2
  MaxCrashes = 1
  Faults = FALSE
  Slow = TRUE
  InDir = FALSE
  Batches <- SmallBatches
INVARIANTS Durable NoGarbage NoLeakedLocks
PROPERTIES Implements CallsReturn
CHECK_DEADLOCK FALSE
