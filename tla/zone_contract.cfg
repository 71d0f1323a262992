\* Two readers and two serialized writers over three epochs,
\* under fair scheduling.
CONSTANTS
  r1 = r1  r2 = r2  r3 = r3  w1 = w1  w2 = w2
  Readers <- TwoReaders
  Writers <- TwoWriters
  IntMax = 7
  nrNonOverlappingBucketCount = 1
  nrHashThreadBuckets = 1
  threadIdHasher <- AllCollide
  SerializedWriters = TRUE
  RegisterPoints <- RegisterOutside
  MaxEpoch = 3
  MaxRegisterCalls = 2
SPECIFICATION FairSpec
INVARIANT TypeOK
INVARIANT CountsAreHolders
INVARIANT ZoneInv
INVARIANT UniqueBuckets
INVARIANT NoContention
PROPERTY GracePeriod
PROPERTY ImplementsGracePeriod
PROPERTY SyncReturns
PROPERTY LockReturns
PROPERTY ImplementsFairGracePeriod
