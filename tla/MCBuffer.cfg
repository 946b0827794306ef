CONSTANTS
  b1 = b1
  b2 = b2
  Byte <- MCByte
  Junk = Junk
  INIT_BUFFER_SIZE = 2
  MaxChunk = 3
  IntMax = 6
  AllocMayFail = FALSE
  Nothing = Nothing
  Beyond = Beyond
SPECIFICATION Spec
INVARIANT TypeOK
INVARIANT IndicesInBlock
INVARIANT NeverOverrun
INVARIANT GrowthIsBounded
INVARIANT SearchFindsFirst
PROPERTY ImplementsByteQueue
