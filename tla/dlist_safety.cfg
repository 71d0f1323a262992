\* One reader, three nodes.
CONSTANTS
  r1 = r1
  w = w
  n1 = n1
  n2 = n2
  n3 = n3
  Readers <- OneReader
  writer = w
  Nodes <- ThreeNodes
  head = head
  NULL = NULL
SPECIFICATION Spec
SYMMETRY NodeSymmetry
INVARIANTS
  TypeOK
  NoUseAfterFree
  ChainsMirror
  SafeIterationMeetsAll
PROPERTY ImplementsWalk
