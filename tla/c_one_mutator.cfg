SPECIFICATION FairSpec
CONSTANTS
  m = m
  w = w
  r = r
  a = a
  b = b
  Refs = {a, b}
  Vals = {"v"}
  Deleted = Deleted
  NoFile = NoFile
  NoName = NoName
  Suffixes = {1, 2, 3, 4}
  Proc = {m, r}
  Calls <- OneMutator
  MaxTables = 1
  MaxGap = 0
  MaxCommits = 2
  MaxCrashes = 1
  MaxTemps = 1
  FreeTries = 1
  FreshNames = TRUE
  Faults = TRUE
  Batches <- SmallBatches
INVARIANTS TypeOK Durable ListOrdered NoStrayTables NoLeakedLocks
PROPERTIES Implements CallsReturn
CHECK_DEADLOCK FALSE
