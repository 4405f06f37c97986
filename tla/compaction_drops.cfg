SPECIFICATION Spec
CONSTANTS
  HashSize = 8
  LogSize = 10
  MaxIndex = 15
  BlockSize = 56
  RestartInterval = 2
  MaxRestarts = 3
  HeaderSize = 24
  Slash = 2
  Dot = 1
  Batches <- TightBatches
  Unpadded = {TRUE, FALSE}
  Wanted <- PathWanted
  Expiry = {2}
  MaxAdds = 2
PROPERTIES Implements
CHECK_DEADLOCK FALSE
