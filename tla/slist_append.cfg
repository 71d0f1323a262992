\* One reader; three nodes, two of them with one key.
CONSTANTS
  r1 = r1
  w = w
  n1 = n1
  n2 = n2
  n3 = n3
  n4 = n4
  k1 = k1
  k2 = k2
  Readers <- OneReader
  writer = w
  Nodes <- ThreeNodes
  Keys <- TwoKeys
  Key <- TwinKeys
  head = head
  NULL = NULL
SPECIFICATION Spec
PROPERTY AppendsIfNotFound
