\* Ints of 8 bits, up to four hardware threads.
CONSTANTS
  W = 8
  Asked <- Edges
  MaxHardware = 4
SPECIFICATION Spec
INVARIANTS
  TypeOK
  RoundsUp
  CountersPartitioned
  TwinBuckets
