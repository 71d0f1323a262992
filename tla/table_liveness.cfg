\* Two readers whose sections overlap the grace periods of the resizes, under
\* fair scheduling.
CONSTANTS
  r1 = r1  r2 = r2  n1 = n1  n2 = n2  n3 = n3  n4 = n4
  k0 = k0  k1 = k1  k2 = k2
  writer = writer
  NULL = NULL
  Readers <- TwoReaders
  Nodes <- TwoNodes
  Keys <- TwoKeys
  Key <- KeyOfNode
  Hash <- HashOfKey
  nrBuckets = 1
  expandFactor = 1
  shrinkFactor = 1
  minShrinkSize = 0
  MaxBuckets = 2
  MaxInserts = 2
SPECIFICATION FairSpec
INVARIANT NoUseAfterFree
PROPERTY CallsReturn
PROPERTY LookupsEnd
