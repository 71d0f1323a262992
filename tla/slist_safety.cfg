\* One reader; four nodes, two of each key.
CONSTANTS
  r1 = r1
  w = w
  n1 = n1
  n2 = n2
  n3 = n3
  n4 = n4
  k1 = k1
  k2 = k2
  Readers <- OneReader
  writer = w
  Nodes <- FourNodes
  Keys <- TwoKeys
  Key <- PairedKeys
  head = head
  NULL = NULL
SPECIFICATION Spec
INVARIANTS
  TypeOK
  NoUseAfterFree
PROPERTY ImplementsWalk
