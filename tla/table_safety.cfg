\* One reader; three keys, one of them carried by two nodes.  A table of two
\* buckets that grows to four and shrinks to one.
CONSTANTS
  r1 = r1  r2 = r2  n1 = n1  n2 = n2  n3 = n3  n4 = n4
  k0 = k0  k1 = k1  k2 = k2
  writer = writer
  NULL = NULL
  Readers <- OneReader
  Nodes <- FourNodes
  Keys <- ThreeKeys
  Key <- KeyOfNode
  Hash <- MixedHash
  nrBuckets = 2
  expandFactor = 1
  shrinkFactor = 1
  minShrinkSize = 0
  MaxBuckets = 4
  MaxInserts = 4
SPECIFICATION Spec
SYMMETRY TwinSymmetry
INVARIANT TypeOK
INVARIANT NoUseAfterFree
INVARIANT ChainsHoldMembers
PROPERTY ImplementsMap
