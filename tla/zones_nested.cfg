\* Three threads that nest two zones, under fair scheduling.
CONSTANTS
  t1 = t1  t2 = t2  t3 = t3
  Threads <- ThreeThreads
  Zones = {1, 2}
SPECIFICATION FairSpec
INVARIANT TypeOK
INVARIANT NoDeadlock
PROPERTY SyncReturns
