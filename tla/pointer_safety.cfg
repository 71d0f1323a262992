\* Two readers over three epochs; one object more than are ever allocated
\* at a time, so that addresses are used again early or late.
CONSTANTS
  r1 = r1  r2 = r2  o1 = o1  o2 = o2  o3 = o3
  Readers <- TwoReaders
  writer = writer
  Writers <- OneWriter
  Objects <- ThreeObjects
  NULL = NULL
  IntMax = 7
  nrNonOverlappingBucketCount = 1
  nrHashThreadBuckets = 1
  threadIdHasher <- AllCollide
  SerializedWriters = TRUE
  RegisterPoints <- RegisterOutside
  MaxEpoch = 3
  MaxRegisterCalls = 2
SPECIFICATION PointerSpec
INVARIANT PointerTypeOK
INVARIANT NoUseAfterDelete
