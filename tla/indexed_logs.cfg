SPECIFICATION Spec
CONSTANTS
  HashSize = 8
  LogSize = 10
  MaxIndex = 15
  BlockSize = 56
  RestartInterval = 2
  MaxRestarts = 3
  HeaderSize = 24
  Slash = 2
  Dot = 1
  Batches <- IndexBatches
  Unpadded = {TRUE}
  Wanted <- PathWanted
  Expiry = {2}
  MaxAdds = 1
INVARIANTS SeekExact
CHECK_DEADLOCK FALSE
