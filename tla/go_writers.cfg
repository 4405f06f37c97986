SPECIFICATION Spec
CONSTANTS
  m = m
  w = w
  r = r
  a = a
  b = b
  Refs = {a, b}
  Vals = {"v"}
  Deleted = Deleted
  NoFile = NoFile
  NoName = NoName
  Suffixes = {1, 2, 3, 4}
  Proc = {m, w}
  Calls <- Writers
  MaxTables = 2
  MaxGap = 0
  MaxCommits = 2
  MaxCrashes = 1
  Faults = FALSE
  Slow = TRUE
  InDir = FALSE
  Batches <- SetOrDelete
INVARIANTS ListOrdered MutualExclusion
PROPERTIES Implements
CHECK_DEADLOCK FALSE
