\* Two readers, one persistent item and two that come and go, under
\* fair scheduling.
CONSTANTS
  r1 = r1  r2 = r2
  Readers = {r1, r2}
  sizeTotal = 3
  sizePersist = 1
SPECIFICATION FairSpec
INVARIANT TypeOK
INVARIANT FoundAreValid
PROPERTY PersistentFound
PROPERTY RoundsGoOn
