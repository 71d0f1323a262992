\* Insertions and detaches; no explicit resize is needed for the violation.
CONSTANTS
  r1 = r1  r2 = r2  n1 = n1  n2 = n2  n3 = n3  n4 = n4
  k0 = k0  k1 = k1  k2 = k2
  writer = writer
  NULL = NULL
  Readers <- OneReader
  Nodes <- TwoNodes
  Keys <- TwoKeys
  Key <- KeyOfNode
  Hash <- HashOfKey
  nrBuckets = 1
  expandFactor = 1
  shrinkFactor = 1
  minShrinkSize = 0
  MaxBuckets = 2
  MaxInserts = 3
SPECIFICATION Spec
PROPERTY ExpandsByElements
