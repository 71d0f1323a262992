\* Two writers share the zone and do not exclude one another.
CONSTANTS
  r1 = r1  r2 = r2  r3 = r3  w1 = w1  w2 = w2
  Readers <- TwoReaders
  Writers <- TwoWriters
  IntMax = 7
  nrNonOverlappingBucketCount = 1
  nrHashThreadBuckets = 1
  threadIdHasher <- AllCollide
  SerializedWriters = FALSE
  RegisterPoints <- RegisterOutside
  MaxEpoch = 3
  MaxRegisterCalls = 0
SPECIFICATION Spec
PROPERTY GracePeriod
