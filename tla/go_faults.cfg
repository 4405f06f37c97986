SPECIFICATION Spec
CONSTANTS
  m = m
  w = w
  r = r
  a = a
  b = b
  Refs = {a, b}
  Vals = {"v"}
  Deleted = Deleted
  NoFile = NoFile
  NoName = NoName
  Suffixes = {1, 2, 3}
  Proc = {m, w}
  Calls <- CompactAndWrite
  MaxTables = 2
  MaxGap = 0
  MaxCommits = 1
  MaxCrashes = 0
  Faults = TRUE
  Slow = FALSE
  InDir = FALSE
  Batches <- SetOrDelete
INVARIANTS TypeOK ListOrdered TableLocksReleased
CHECK_DEADLOCK FALSE
