---------------------------- MODULE RCUZoneProofs ----------------------------
(***************************************************************************)
(* Proofs about RCUZone, for every number of readers, writers, buckets and *)
(* epochs, and about RCUPointer, its client.                               *)
(***************************************************************************)
EXTENDS RCUPointer, FiniteSetTheorems, TLAPS

\* The parts that several actions are built from are always expanded.
USE DEF OwnBucketOr, CountStep, LocalStep, SyncRowFrom, PassBucket

-----------------------------------------------------------------------------
(* The registry and the types.                                              *)

\* Identifiers are drawn from a counter that never falls.
RegistryInv ==
  /\ nextBucketId \in 0 .. MaxRegisterCalls
  /\ tlsReaderBucketId \in [Readers -> -1 .. nrNonOverlappingBucketCount - 1]
  /\ \A r \in Readers : tlsReaderBucketId[r] < nextBucketId
  /\ UniqueBuckets

TypeInv == TypeOK /\ RegistryInv

LEMMA BucketInRange ==
  ASSUME RegistryInv, NEW r \in Readers
  PROVE  fetchThreadBucketId(r) \in Buckets
  BY RegistryAssumption, ZoneAssumption
  DEF RegistryInv, fetchThreadBucketId, Buckets, nrBucketsPerEpoch

LEMMA RowInRange ==
  ASSUME NEW e \in Nat
  PROVE  RowOf(e) \in Rows
  BY DEF RowOf, Rows, c_maxEpoches

LEMMA CountType ==
  ASSUME count \in [Rows -> [Buckets -> Int]],
         NEW e \in Rows, NEW b \in Buckets, NEW n \in Int, AddToCount(e, b, n)
  PROVE  /\ count' \in [Rows -> [Buckets -> Int]]
         /\ count'[e][b] = count[e][b] + n
         /\ \A f \in Rows, c \in Buckets :
              ~(f = e /\ c = b) => count'[f][c] = count[f][c]
  BY DEF AddToCount

LEMMA RegistryStep ==
  ASSUME RegistryInv, NEW r \in Readers, Register(r) \/ Exit(r)
  PROVE  RegistryInv'
  <1>1. CASE Register(r)
    <2>1. nextBucketId' = nextBucketId + 1
      BY <1>1, RegistryAssumption, ZoneAssumption
      DEF Register, rcuRegisterReaderThread, Increment, RegistryInv
    <2>2. CASE nextBucketId < nrNonOverlappingBucketCount
      BY <1>1, <2>1, <2>2, RegistryAssumption, ZoneAssumption
      DEF Register, rcuRegisterReaderThread, RegistryInv, UniqueBuckets
    <2>3. CASE ~(nextBucketId < nrNonOverlappingBucketCount)
      BY <1>1, <2>1, <2>3, RegistryAssumption, ZoneAssumption
      DEF Register, rcuRegisterReaderThread, RegistryInv, UniqueBuckets
    <2>4. QED BY <2>2, <2>3
  <1>2. CASE Exit(r)
    BY <1>2, RegistryAssumption, ZoneAssumption
    DEF Exit, ThreadExit, RegistryInv, UniqueBuckets
  <1>3. QED BY <1>1, <1>2

LEMMA RegistryTyped == RegistryInv => RegistryTypeOK
  BY RegistryAssumption, ZoneAssumption
  DEF RegistryInv, RegistryTypeOK, IntMin

\* The steps that leave the registry alone leave what is said of it alone.
LEMMA RegistryFrame ==
  ASSUME RegistryInv, UNCHANGED registryVars
  PROVE  RegistryInv'
  BY DEF RegistryInv, UniqueBuckets, registryVars

LEMMA InitTypeInv == Init => TypeInv
  <1> SUFFICES ASSUME Init PROVE TypeInv
    OBVIOUS
  <1> USE RegistryAssumption, ZoneAssumption
  <1>1. RegistryInv
    BY DEF Init, RegistryInit, RegistryInv, UniqueBuckets
  <1>2. 0 \in Buckets /\ 0 \in Rows /\ 0 \in 0 .. nrBucketsPerEpoch
    BY DEF Buckets, Rows, nrBucketsPerEpoch, c_maxEpoches
  <1>3. QED
    BY <1>1, <1>2, RegistryTyped DEF Init, TypeInv, TypeOK, ReaderPC, WriterPC

\* A reader's step keeps the types.
LEMMA ReaderTypeStep ==
  ASSUME TypeInv, NEW r \in Readers,
         ReadLock(r) \/ LockLoop(r) \/ ReadUnlock(r)
  PROVE  TypeInv'
  <1> USE DEF TypeInv
  <1>1. UNCHANGED registryVars
    BY DEF ReadLock, LockLoop, LoadEpoch, AddReader, Validated, EpochMoved,
           RevertReader, ReadUnlock, Reader
  <1>2. RegistryInv' /\ RegistryTypeOK'
    BY <1>1, RegistryFrame, RegistryTyped
    DEF RegistryInv, RegistryTypeOK, registryVars, TypeOK
  <1>3. fetchThreadBucketId(r) \in Buckets
    BY BucketInRange
  <1>4. RowOf(epochId[r]) \in Rows
    BY RowInRange DEF TypeOK
  <1>5. CASE ReadLock(r)
    BY <1>2, <1>3, <1>5 DEF ReadLock, Reader, TypeOK, ReaderPC, writerVars
  <1>6. CASE LoadEpoch(r)
    BY <1>2, <1>6 DEF LoadEpoch, Reader, TypeOK, ReaderPC, writerVars
  <1>7. CASE AddReader(r)
    <2>1. count' \in [Rows -> [Buckets -> Int]]
      BY <1>4, <1>7, CountType DEF AddReader, TypeOK
    <2>2. QED
      BY <1>2, <1>7, <2>1 DEF AddReader, Reader, TypeOK, ReaderPC, writerVars
  <1>8. CASE Validated(r) \/ EpochMoved(r)
    BY <1>2, <1>8 DEF Validated, EpochMoved, Reader, TypeOK, ReaderPC, writerVars
  <1>9. CASE RevertReader(r)
    <2>1. count' \in [Rows -> [Buckets -> Int]]
      BY <1>4, <1>9, CountType DEF RevertReader, TypeOK
    <2>2. QED
      BY <1>2, <1>9, <2>1 DEF RevertReader, Reader, TypeOK, ReaderPC, writerVars
  <1>10. CASE ReadUnlock(r)
    <2>1. count' \in [Rows -> [Buckets -> Int]]
      BY <1>3, <1>4, <1>10, CountType DEF ReadUnlock, TypeOK
    <2>2. QED
      BY <1>2, <1>10, <2>1 DEF ReadUnlock, Reader, TypeOK, ReaderPC, writerVars
  <1>11. QED
    BY <1>5, <1>6, <1>7, <1>8, <1>9, <1>10 DEF LockLoop

\* A writer's step keeps the types.
LEMMA WriterTypeStep ==
  ASSUME TypeInv, NEW w \in Writers, SyncStart(w) \/ SyncLoop(w)
  PROVE  TypeInv'
  <1> USE DEF TypeInv
  <1>1. UNCHANGED registryVars /\ UNCHANGED count /\ UNCHANGED readerVars
    BY DEF SyncStart, SyncLoop, SyncRow, SyncReturn, ScanBucket, LoadOldest,
           StoreOldest, Writer
  <1>2. RegistryInv' /\ RegistryTypeOK'
    BY <1>1, RegistryFrame, RegistryTyped
    DEF RegistryInv, RegistryTypeOK, registryVars, TypeOK
  <1>3. nrBucketsPerEpoch \in Nat
    BY RegistryAssumption, ZoneAssumption DEF nrBucketsPerEpoch
  <1> USE <1>1, <1>2, <1>3 DEF TypeOK, WriterPC, Writer, readerVars
  <1>4. CASE SyncStart(w)
    BY <1>4, ZoneAssumption DEF SyncStart
  <1>5. CASE SyncRow(w)
    BY <1>5, RowInRange DEF SyncRow
  <1>6. CASE SyncReturn(w)
    BY <1>6 DEF SyncReturn
  <1>7. CASE ScanBucket(w)
    BY <1>7 DEF ScanBucket
  <1>8. CASE LoadOldest(w)
    BY <1>8 DEF LoadOldest
  <1>9. CASE StoreOldest(w)
    BY <1>9 DEF StoreOldest
  <1>10. QED
    BY <1>4, <1>5, <1>6, <1>7, <1>8, <1>9 DEF SyncLoop

LEMMA TypeInvStep == TypeInv /\ [Next]_vars => TypeInv'
  <1> SUFFICES ASSUME TypeInv, [Next]_vars PROVE TypeInv'
    OBVIOUS
  <1>1. ASSUME NEW r \in Readers, Register(r) \/ Exit(r)
        PROVE  TypeInv'
    <2>1. RegistryInv'
      BY <1>1, RegistryStep DEF TypeInv
    <2>2. RegistryTypeOK'
      BY <2>1, RegistryAssumption, ZoneAssumption
      DEF RegistryInv, RegistryTypeOK, IntMin
    <2>3. QED
      BY <1>1, <2>1, <2>2
      DEF TypeInv, TypeOK, Register, Exit, readerVars, writerVars
  <1>2. CASE UNCHANGED vars
    BY <1>2, RegistryFrame
    DEF vars, registryVars, readerVars, writerVars, TypeInv, TypeOK, RegistryTypeOK
  <1>3. QED
    BY <1>1, <1>2, ReaderTypeStep, WriterTypeStep DEF Next

(***************************************************************************)
(* Every variable keeps its type: in particular no reader ever indexes a   *)
(* row outside its buckets, whenever it registers.                         *)
(***************************************************************************)
THEOREM TypeCorrect == Spec => []TypeOK
  <1>1. Spec => []TypeInv
    BY InitTypeInv, TypeInvStep, PTL DEF Spec
  <1>2. QED
    BY <1>1, PTL DEF TypeInv

-----------------------------------------------------------------------------
(* Identifiers and buckets.                                                 *)

(***************************************************************************)
(* rcuRegisterReaderThread never gives two live threads one bucket, as     *)
(* long as the shared counter does not overflow: MaxRegisterCalls is at    *)
(* most IntMax.                                                            *)
(***************************************************************************)
THEOREM BucketsAreUnique == Spec => []UniqueBuckets
  <1>1. Spec => []TypeInv
    BY InitTypeInv, TypeInvStep, PTL DEF Spec
  <1>2. QED
    BY <1>1, PTL DEF TypeInv, RegistryInv

LEMMA InitBucketKept == Init => BucketKept
  BY DEF Init, BucketKept

LEMMA BucketKeptStep ==
  ASSUME RegisterPoints = {"idle"}, TypeInv, BucketKept, [Next]_vars
  PROVE  BucketKept'
  <1> USE DEF BucketKept, TypeInv, TypeOK
  <1>1. ASSUME NEW r \in Readers, Register(r) \/ Exit(r)
        PROVE  BucketKept'
    <2>1. rpc[r] = "idle"
      BY <1>1 DEF Register, Exit
    <2>2. \A s \in Readers \ {r} : tlsReaderBucketId'[s] = tlsReaderBucketId[s]
      BY <1>1 DEF Register, Exit, rcuRegisterReaderThread, ThreadExit, RegistryTypeOK
    <2>3. UNCHANGED readerVars
      BY <1>1 DEF Register, Exit
    <2>4. QED
      BY <2>1, <2>2, <2>3 DEF readerVars, fetchThreadBucketId
  <1>2. ASSUME NEW r \in Readers, ReadLock(r)
        PROVE  BucketKept'
    BY <1>2 DEF ReadLock, Reader, registryVars, fetchThreadBucketId
  <1>3. ASSUME NEW r \in Readers, LockLoop(r) \/ ReadUnlock(r)
        PROVE  BucketKept'
    BY <1>3
    DEF LockLoop, LoadEpoch, AddReader, Validated, EpochMoved, RevertReader,
        ReadUnlock, Reader, registryVars, fetchThreadBucketId
  <1>4. ASSUME NEW w \in Writers, SyncStart(w) \/ SyncLoop(w)
        PROVE  BucketKept'
    BY <1>4
    DEF SyncStart, SyncLoop, SyncRow, SyncReturn, ScanBucket, LoadOldest,
        StoreOldest, Writer, registryVars, readerVars, fetchThreadBucketId
  <1>5. CASE UNCHANGED vars
    BY <1>5 DEF vars, registryVars, readerVars, fetchThreadBucketId
  <1>6. QED
    BY <1>1, <1>2, <1>3, <1>4, <1>5 DEF Next

LEMMA BucketsKept ==
  ASSUME RegisterPoints = {"idle"}
  PROVE  Spec => [](TypeInv /\ BucketKept)
  <1>1. TypeInv /\ BucketKept /\ [Next]_vars => BucketKept'
    BY BucketKeptStep
  <1>2. QED
    BY <1>1, InitTypeInv, InitBucketKept, TypeInvStep, PTL DEF Spec

(***************************************************************************)
(* A registered reader never shares a counter with another reader, if      *)
(* threads do not register inside a section.                               *)
(***************************************************************************)
THEOREM RegisteredReadersAlone ==
  ASSUME RegisterPoints = {"idle"}
  PROVE  Spec => []NoContention
  <1>1. TypeInv /\ BucketKept => NoContention
    <2> SUFFICES ASSUME TypeInv, BucketKept,
                        NEW r \in Readers, NEW s \in Readers, r # s,
                        tlsReaderBucketId[r] # -1, rpc[r] # "idle", rpc[s] # "idle"
                 PROVE  threadBucketId[r] # threadBucketId[s]
      BY DEF NoContention
    <2>1. threadBucketId[r] = tlsReaderBucketId[r]
      BY DEF BucketKept, fetchThreadBucketId
    <2>2. threadBucketId[s] = fetchThreadBucketId(s)
      BY DEF BucketKept
    <2>3. tlsReaderBucketId[r] < nrNonOverlappingBucketCount
      BY RegistryAssumption DEF TypeInv, RegistryInv
    <2>4. CASE tlsReaderBucketId[s] = -1
      <3>1. threadIdHasher[s] % nrHashThreadBuckets \in Nat
        BY ZoneAssumption
      <3>2. QED
        BY <2>1, <2>2, <2>3, <2>4, <3>1, RegistryAssumption
        DEF fetchThreadBucketId, TypeInv, RegistryInv
    <2>5. CASE tlsReaderBucketId[s] # -1
      BY <2>1, <2>2, <2>5 DEF fetchThreadBucketId, TypeInv, RegistryInv, UniqueBuckets
    <2>6. QED BY <2>4, <2>5
  <1>2. QED
    BY <1>1, BucketsKept, PTL

-----------------------------------------------------------------------------
(* The counts.                                                              *)

HoldersInv == TypeInv /\ BucketKept /\ CountsAreHolders

LEMMA HoldersFinite ==
  ASSUME NEW e, NEW b
  PROVE  IsFiniteSet(Holders(e, b)) /\ Cardinality(Holders(e, b)) \in Nat
  <1>1. Holders(e, b) \in SUBSET Readers
    BY DEF Holders
  <1>2. QED
    BY <1>1, FS_Subset, FS_CardinalityType, ZoneAssumption

\* A count follows the readers behind it when one of them joins it ...
LEMMA HolderJoins ==
  ASSUME HoldersInv, NEW r \in Readers, NEW e \in Rows, NEW b \in Buckets,
         AddToCount(e, b, 1), r \notin Holders(e, b),
         Holders(e, b)' = Holders(e, b) \cup {r},
         \A f \in Rows, c \in Buckets :
           ~(f = e /\ c = b) => Holders(f, c)' = Holders(f, c)
  PROVE  CountsAreHolders'
  <1>1. Cardinality(Holders(e, b)') = Cardinality(Holders(e, b)) + 1
    BY HoldersFinite, FS_AddElement
  <1>2. count'[e][b] = count[e][b] + 1
    BY CountType DEF HoldersInv, TypeInv, TypeOK
  <1>3. \A f \in Rows, c \in Buckets :
          ~(f = e /\ c = b) => count'[f][c] = count[f][c]
    BY CountType DEF HoldersInv, TypeInv, TypeOK
  <1>4. QED
    BY <1>1, <1>2, <1>3 DEF HoldersInv, CountsAreHolders

\* ... or leaves it.
LEMMA HolderLeaves ==
  ASSUME HoldersInv, NEW r \in Readers, NEW e \in Rows, NEW b \in Buckets,
         AddToCount(e, b, -1), r \in Holders(e, b),
         Holders(e, b)' = Holders(e, b) \ {r},
         \A f \in Rows, c \in Buckets :
           ~(f = e /\ c = b) => Holders(f, c)' = Holders(f, c)
  PROVE  CountsAreHolders'
  <1>1. Cardinality(Holders(e, b)') = Cardinality(Holders(e, b)) - 1
    BY HoldersFinite, FS_RemoveElement
  <1>2. count'[e][b] = count[e][b] + (-1)
    BY CountType DEF HoldersInv, TypeInv, TypeOK
  <1>3. \A f \in Rows, c \in Buckets :
          ~(f = e /\ c = b) => count'[f][c] = count[f][c]
    BY CountType DEF HoldersInv, TypeInv, TypeOK
  <1>4. Cardinality(Holders(e, b)) \in Nat
    BY HoldersFinite
  <1>5. QED
    BY <1>1, <1>2, <1>3, <1>4 DEF HoldersInv, CountsAreHolders

\* Steps that change neither a count nor who stands behind it.
LEMMA HoldersFrame ==
  ASSUME CountsAreHolders, UNCHANGED count,
         \A e \in Rows, b \in Buckets : Holders(e, b)' = Holders(e, b)
  PROVE  CountsAreHolders'
  BY DEF CountsAreHolders

LEMMA InitHolders == Init => CountsAreHolders
  <1> SUFFICES ASSUME Init, NEW e \in Rows, NEW b \in Buckets
               PROVE  count[e][b] = Cardinality(Holders(e, b))
    BY DEF CountsAreHolders
  <1>1. Holders(e, b) = {}
    BY DEF Init, Holders, Holds
  <1>2. QED
    BY <1>1, FS_EmptySet DEF Init

LEMMA HoldersStep ==
  ASSUME RegisterPoints = {"idle"}, HoldersInv, [Next]_vars
  PROVE  CountsAreHolders'
  <1>0. TypeOK /\ BucketKept /\ CountsAreHolders
    BY DEF HoldersInv, TypeInv
  <1>1. ASSUME NEW r \in Readers, AddReader(r)
        PROVE  CountsAreHolders'
    <2>1. PICK e \in Rows, b \in Buckets :
            e = RowOf(epochId[r]) /\ b = threadBucketId[r]
      BY <1>0, RowInRange DEF TypeOK
    <2>2. AddToCount(e, b, 1)
      BY <1>1, <2>1 DEF AddReader
    <2>3. r \notin Holders(e, b)
      BY <1>0, <1>1, <2>1 DEF AddReader, Reader, Holders, Holds, TypeOK
    <2>4. Holders(e, b)' = Holders(e, b) \cup {r}
      BY <1>0, <1>1, <2>1 DEF AddReader, Reader, Holders, Holds, TypeOK
    <2>5. \A f \in Rows, c \in Buckets :
            ~(f = e /\ c = b) => Holders(f, c)' = Holders(f, c)
      BY <1>0, <1>1, <2>1 DEF AddReader, Reader, Holders, Holds, TypeOK
    <2>6. QED
      BY <2>2, <2>3, <2>4, <2>5, HolderJoins
  <1>2. ASSUME NEW r \in Readers, RevertReader(r) \/ ReadUnlock(r)
        PROVE  CountsAreHolders'
    <2>1. PICK e \in Rows, b \in Buckets :
            e = RowOf(epochId[r]) /\ b = threadBucketId[r]
      BY <1>0, RowInRange DEF TypeOK
    <2>2. AddToCount(e, b, -1)
      BY <1>0, <1>2, <2>1 DEF RevertReader, ReadUnlock, Reader, BucketKept, TypeOK
    <2>3. r \in Holders(e, b)
      BY <1>0, <1>2, <2>1 DEF RevertReader, ReadUnlock, Reader, Holders, Holds, TypeOK
    <2>4. Holders(e, b)' = Holders(e, b) \ {r}
      BY <1>0, <1>2, <2>1 DEF RevertReader, ReadUnlock, Reader, Holders, Holds, TypeOK
    <2>5. \A f \in Rows, c \in Buckets :
            ~(f = e /\ c = b) => Holders(f, c)' = Holders(f, c)
      BY <1>0, <1>2, <2>1 DEF RevertReader, ReadUnlock, Reader, Holders, Holds, TypeOK
    <2>6. QED
      BY <2>2, <2>3, <2>4, <2>5, HolderLeaves
  <1>3. ASSUME NEW r \in Readers,
               ReadLock(r) \/ LoadEpoch(r) \/ Validated(r) \/ EpochMoved(r)
        PROVE  CountsAreHolders'
    <2>1. \A e \in Rows, c \in Buckets : Holders(e, c)' = Holders(e, c)
      BY <1>0, <1>3
      DEF ReadLock, LoadEpoch, Validated, EpochMoved, Reader, Holders, Holds, TypeOK
    <2>2. UNCHANGED count
      BY <1>3 DEF ReadLock, LoadEpoch, Validated, EpochMoved
    <2>3. QED
      BY <1>0, <2>1, <2>2, HoldersFrame
  <1>4. ASSUME UNCHANGED count, UNCHANGED readerVars
        PROVE  CountsAreHolders'
    BY <1>0, <1>4, HoldersFrame DEF readerVars, Holders, Holds
  <1>5. ASSUME NEW r \in Readers, Register(r) \/ Exit(r)
        PROVE  UNCHANGED count /\ UNCHANGED readerVars
    BY <1>5 DEF Register, Exit
  <1>6. ASSUME NEW w \in Writers, SyncStart(w) \/ SyncLoop(w)
        PROVE  UNCHANGED count /\ UNCHANGED readerVars
    BY <1>6
    DEF SyncStart, SyncLoop, SyncRow, SyncReturn, ScanBucket, LoadOldest,
        StoreOldest, Writer
  <1>7. CASE UNCHANGED vars
    BY <1>4, <1>7 DEF vars
  <1>8. QED
    BY <1>1, <1>2, <1>3, <1>4, <1>5, <1>6, <1>7 DEF Next, LockLoop

LEMMA HoldersInvariant ==
  ASSUME RegisterPoints = {"idle"}
  PROVE  Spec => []HoldersInv
  <1>1. HoldersInv /\ [Next]_vars => HoldersInv'
    BY TypeInvStep, BucketKeptStep, HoldersStep DEF HoldersInv
  <1>2. Init => HoldersInv
    BY InitTypeInv, InitBucketKept, InitHolders DEF HoldersInv
  <1>3. QED
    BY <1>1, <1>2, PTL DEF Spec

(***************************************************************************)
(* The reference counts are exact in every interleaving of locks, retries  *)
(* and unlocks, with any number of writers, if threads do not register     *)
(* inside a section.                                                       *)
(***************************************************************************)
THEOREM CountsAreExact ==
  ASSUME RegisterPoints = {"idle"}
  PROVE  Spec => []CountsAreHolders
  BY HoldersInvariant, PTL DEF HoldersInv

-----------------------------------------------------------------------------
(* The grace period.  From here on writers are serialized and threads do    *)
(* not register inside a section.                                           *)

Discipline == RegisterPoints = {"idle"} /\ SerializedWriters

EpochInv ==
  AtMostOneWriter /\ WriterEpochs /\ SectionEpochs /\ ScannedEmpty

LEMMA InitEpochInv == Init => EpochInv
  BY DEF Init, EpochInv, AtMostOneWriter, WriterEpochs, SectionEpochs,
         ScannedEmpty, InSection

\* A reader enters a section only in the latest epoch.
LEMMA ReaderEpochStep ==
  ASSUME TypeInv, EpochInv, NEW r \in Readers,
         ReadLock(r) \/ LockLoop(r) \/ ReadUnlock(r)
  PROVE  EpochInv'
  <1>1. UNCHANGED <<epochLatest, epochOldest, writerVars>>
    BY DEF ReadLock, LockLoop, LoadEpoch, AddReader, Validated, EpochMoved,
           RevertReader, ReadUnlock, Reader
  <1>2. AtMostOneWriter' /\ WriterEpochs'
    BY <1>1 DEF EpochInv, AtMostOneWriter, WriterEpochs, writerVars
  <1>3. epochOldest <= epochLatest
    BY DEF EpochInv, WriterEpochs, TypeInv, TypeOK
  <1>4. CASE Validated(r)
    <2>1. SectionEpochs'
      BY <1>1, <1>3, <1>4
      DEF Validated, Reader, EpochInv, SectionEpochs, InSection, TypeInv, TypeOK
    <2>2. ScannedEmpty'
      <3> SUFFICES ASSUME NEW w \in Writers, NEW s \in Readers,
                          InSection(s)', epochId'[s] = lastEpoch'[w]
                   PROVE  /\ wpc'[w] = "scan" => threadBucketId'[s] >= iBucket'[w]
                          /\ wpc'[w] # "store"
        BY DEF ScannedEmpty, InSection
      <3>1. CASE s = r
        BY <1>1, <1>4, <3>1
        DEF Validated, Reader, EpochInv, WriterEpochs, writerVars, TypeInv, TypeOK
      <3>2. CASE s # r
        BY <1>1, <1>4, <3>2
        DEF Validated, Reader, EpochInv, ScannedEmpty, InSection, writerVars,
            TypeInv, TypeOK
      <3>3. QED BY <3>1, <3>2
    <2>3. QED BY <1>2, <2>1, <2>2 DEF EpochInv
  <1>5. CASE \/ ReadLock(r) \/ LoadEpoch(r) \/ AddReader(r) \/ EpochMoved(r)
             \/ RevertReader(r) \/ ReadUnlock(r)
    <2>1. \A s \in Readers :
            InSection(s)' => /\ InSection(s)
                             /\ epochId'[s] = epochId[s]
                             /\ threadBucketId'[s] = threadBucketId[s]
      BY <1>5
      DEF ReadLock, LoadEpoch, AddReader, EpochMoved, RevertReader, ReadUnlock,
          Reader, InSection, TypeInv, TypeOK
    <2>2. SectionEpochs' /\ ScannedEmpty'
      BY <1>1, <2>1 DEF EpochInv, SectionEpochs, ScannedEmpty, InSection, writerVars
    <2>3. QED BY <1>2, <2>2 DEF EpochInv
  <1>6. QED
    BY <1>4, <1>5 DEF LockLoop

\* A writer passes a bucket only when no section of its epoch counts there.
LEMMA BucketEmpty ==
  ASSUME HoldersInv, NEW w \in Writers, ScanBucket(w),
         epochRowId[w] = RowOf(lastEpoch[w]),
         NEW r \in Readers, InSection(r), epochId[r] = lastEpoch[w]
  PROVE  threadBucketId[r] # iBucket[w]
  <1> SUFFICES ASSUME threadBucketId[r] = iBucket[w] PROVE FALSE
    OBVIOUS
  <1> DEFINE S == Holders(epochRowId[w], iBucket[w])
  <1>1. r \in S
    BY DEF Holders, Holds, InSection
  <1>2. epochRowId[w] \in Rows /\ iBucket[w] \in Buckets
    BY DEF HoldersInv, TypeInv, TypeOK
  <1>3. Cardinality(S) <= 0
    BY <1>2 DEF ScanBucket, HoldersInv, CountsAreHolders
  <1>4. IsFiniteSet(S) /\ Cardinality(S) \in Nat
    BY HoldersFinite
  <1>5. S = {}
    BY <1>3, <1>4, FS_EmptySet
  <1>6. QED BY <1>1, <1>5

LEMMA WriterEpochStep ==
  ASSUME Discipline, HoldersInv, EpochInv, NEW w \in Writers,
         SyncStart(w) \/ SyncLoop(w)
  PROVE  EpochInv'
  <1>1. UNCHANGED readerVars
    BY DEF SyncStart, SyncLoop, SyncRow, SyncReturn, ScanBucket, LoadOldest,
           StoreOldest, Writer
  <1>2. TypeOK
    BY DEF HoldersInv, TypeInv
  <1>3. \A v \in Writers : v # w => wpc[v] = "idle"
    BY DEF Discipline, EpochInv, AtMostOneWriter, SyncStart, SyncLoop, SyncRow,
           SyncReturn, ScanBucket, LoadOldest, StoreOldest, Writer
  <1>4. \A v \in Writers : v # w => wpc'[v] = "idle"
    BY <1>2, <1>3
    DEF SyncStart, SyncLoop, SyncRow, SyncReturn, ScanBucket, LoadOldest,
        StoreOldest, Writer, TypeOK
  <1>5. AtMostOneWriter'
    BY <1>4 DEF AtMostOneWriter
  <1> USE <1>1, <1>2, <1>3, <1>4
      DEF EpochInv, readerVars, Writer, WriterEpochs, SectionEpochs, InSection,
          TypeOK, WriterPC
  <1>6. CASE SyncStart(w)
    <2>1. WriterEpochs'
      BY <1>6 DEF SyncStart, Discipline
    <2>2. SectionEpochs'
      BY <1>6 DEF SyncStart
    <2>3. ScannedEmpty'
      BY <1>6 DEF SyncStart, ScannedEmpty
    <2>4. QED BY <1>5, <2>1, <2>2, <2>3
  <1>7. CASE SyncRow(w)
    <2>1. WriterEpochs'
      BY <1>7 DEF SyncRow
    <2>2. SectionEpochs'
      BY <1>7 DEF SyncRow
    <2>3. ScannedEmpty'
      BY <1>7 DEF SyncRow, ScannedEmpty, Buckets
    <2>4. QED BY <1>5, <2>1, <2>2, <2>3
  <1>8. CASE SyncReturn(w)
    <2>1. WriterEpochs'
      BY <1>8 DEF SyncReturn
    <2>2. SectionEpochs' /\ ScannedEmpty'
      BY <1>8 DEF SyncReturn, ScannedEmpty
    <2>3. QED BY <1>5, <2>1, <2>2
  <1>9. CASE ScanBucket(w)
    <2>1. WriterEpochs' /\ SectionEpochs'
      BY <1>9 DEF ScanBucket
    <2>2. \A r \in Readers : InSection(r) /\ epochId[r] = lastEpoch[w]
            => threadBucketId[r] # iBucket[w]
      BY <1>9, BucketEmpty DEF ScanBucket
    <2>3. ScannedEmpty'
      BY <1>9, <2>2 DEF ScanBucket, ScannedEmpty, Buckets
    <2>4. QED BY <1>5, <2>1, <2>3
  <1>10. CASE LoadOldest(w)
    <2>1. WriterEpochs' /\ SectionEpochs'
      BY <1>10 DEF LoadOldest
    <2>2. ScannedEmpty'
      BY <1>10, ZoneAssumption, RegistryAssumption
      DEF LoadOldest, ScannedEmpty, Buckets, nrBucketsPerEpoch
    <2>3. QED BY <1>5, <2>1, <2>2
  <1>11. CASE StoreOldest(w)
    <2>1. WriterEpochs'
      BY <1>11 DEF StoreOldest
    <2>2. epochOldest = lastEpoch[w] /\ epochOldest' = lastEpoch[w] + 1
      BY <1>11 DEF StoreOldest
    <2>3. \A r \in Readers : InSection(r) => epochId[r] # lastEpoch[w]
      BY <1>11 DEF StoreOldest, ScannedEmpty
    <2>4. SectionEpochs'
      BY <1>11, <2>2, <2>3 DEF StoreOldest
    <2>5. ScannedEmpty'
      BY <1>11, <2>3 DEF StoreOldest, ScannedEmpty
    <2>6. QED BY <1>5, <2>1, <2>4, <2>5
  <1>12. QED
    BY <1>6, <1>7, <1>8, <1>9, <1>10, <1>11 DEF SyncLoop

LEMMA EpochStep ==
  ASSUME Discipline, HoldersInv, EpochInv, [Next]_vars
  PROVE  EpochInv'
  <1>1. ASSUME UNCHANGED <<epochLatest, epochOldest, readerVars, writerVars>>
        PROVE  EpochInv'
    BY <1>1
    DEF EpochInv, AtMostOneWriter, WriterEpochs, SectionEpochs, ScannedEmpty,
        InSection, readerVars, writerVars
  <1>2. ASSUME NEW r \in Readers, Register(r) \/ Exit(r)
        PROVE  EpochInv'
    BY <1>1, <1>2 DEF Register, Exit
  <1>3. CASE UNCHANGED vars
    BY <1>1, <1>3 DEF vars
  <1>4. QED
    BY <1>2, <1>3, ReaderEpochStep, WriterEpochStep DEF Next, HoldersInv

IInv == HoldersInv /\ EpochInv

LEMMA IInvStep ==
  ASSUME Discipline
  PROVE  IInv /\ [Next]_vars => IInv'
  BY TypeInvStep, BucketKeptStep, HoldersStep, EpochStep
  DEF IInv, HoldersInv, Discipline

LEMMA InductiveInvariant ==
  ASSUME Discipline
  PROVE  Spec => []IInv
  <1>1. Init => IInv
    BY InitTypeInv, InitBucketKept, InitHolders, InitEpochInv DEF IInv, HoldersInv
  <1>2. QED
    BY <1>1, IInvStep, PTL DEF Spec

(***************************************************************************)
(* The invariant that carries rcuSynchronize, for any number of threads,   *)
(* buckets and calls.                                                      *)
(***************************************************************************)
THEOREM ZoneInvariant ==
  ASSUME Discipline
  PROVE  Spec => []ZoneInv
  <1>1. IInv => ZoneInv
    BY DEF IInv, HoldersInv, EpochInv, ZoneInv
  <1>2. QED
    BY <1>1, InductiveInvariant, PTL

-----------------------------------------------------------------------------
(* What the invariant says of the calls of rcuSynchronize.                  *)

\* Only a writer's own step changes where it is.
LEMMA WriterMoves ==
  ASSUME TypeOK, Next, NEW w \in Writers, wpc'[w] # wpc[w]
  PROVE  SyncStart(w) \/ SyncLoop(w)
  <1>1. ASSUME NEW r \in Readers,
               \/ Register(r) \/ Exit(r)
               \/ ReadLock(r) \/ LockLoop(r) \/ ReadUnlock(r)
        PROVE  UNCHANGED wpc
    BY <1>1
    DEF Register, Exit, ReadLock, LockLoop, LoadEpoch, AddReader, Validated,
        EpochMoved, RevertReader, ReadUnlock, Reader, writerVars
  <1>2. ASSUME NEW v \in Writers, SyncStart(v) \/ SyncLoop(v), v # w
        PROVE  wpc'[w] = wpc[w]
    BY <1>2
    DEF SyncStart, SyncLoop, SyncRow, SyncReturn, ScanBucket, LoadOldest,
        StoreOldest, Writer, TypeOK
  <1>3. QED
    BY <1>1, <1>2 DEF Next

(***************************************************************************)
(* rcuSynchronize returns only when every section that was under way at    *)
(* the call has ended: the returning writer has moved epochOldest past the *)
(* epoch it closed, and no section has an epoch below epochOldest.         *)
(***************************************************************************)
THEOREM SynchronizeWaits ==
  ASSUME Discipline
  PROVE  Spec => GracePeriod
  <1>1. IInv /\ [Next]_vars =>
          [\A w \in Writers :
             wpc[w] # "idle" /\ wpc'[w] = "idle" => OlderSections(w) = {}]_vars
    <2> SUFFICES ASSUME IInv, Next, NEW w \in Writers,
                        wpc[w] # "idle", wpc'[w] = "idle"
                 PROVE  OlderSections(w) = {}
      OBVIOUS
    <2>1. TypeOK
      BY DEF IInv, HoldersInv, TypeInv
    <2>2. SyncReturn(w)
      BY <2>1, WriterMoves DEF SyncStart, SyncRow, ScanBucket, LoadOldest, StoreOldest,
         SyncLoop, Writer, TypeOK
    <2>3. \A r \in Readers : InSection(r) => epochId[r] > lastEpoch[w]
      BY <2>1, <2>2 DEF SyncReturn, IInv, EpochInv, SectionEpochs, TypeOK
    <2>4. QED
      BY <2>1, <2>3 DEF OlderSections, TypeOK
  <1>2. QED
    BY <1>1, InductiveInvariant, PTL DEF Spec, GracePeriod

LEMMA InitRefines == Init => GP!Init
  BY DEF Init, GP!Init, InSection

LEMMA ReaderRefines ==
  ASSUME IInv, NEW r \in Readers, ReadLock(r) \/ LockLoop(r) \/ ReadUnlock(r)
  PROVE  [GP!Next]_GP!vars
  <1>1. TypeOK /\ WriterEpochs
    BY DEF IInv, HoldersInv, TypeInv, EpochInv
  <1>2. UNCHANGED <<wpc, lastEpoch>>
    BY DEF ReadLock, LockLoop, LoadEpoch, AddReader, Validated, EpochMoved,
           RevertReader, ReadUnlock, Reader, writerVars
  <1>3. CASE Validated(r)
    <2>1. \A s \in Readers : InSection(s)' <=> InSection(s) \/ s = r
      BY <1>1, <1>3 DEF Validated, Reader, InSection, TypeOK
    <2>2. ~InSection(r) /\ UNCHANGED epochId
      BY <1>3 DEF Validated, Reader, InSection
    <2>3. \A w \in Writers : wpc[w] # "idle" => OlderSections(w)' = OlderSections(w)
      BY <1>1, <1>2, <1>3, <2>1, <2>2 DEF Validated, OlderSections, WriterEpochs, TypeOK
    <2>4. GP!ReadLock(r)
      BY <1>2, <2>1, <2>2, <2>3 DEF GP!ReadLock
    <2>5. QED BY <2>4 DEF GP!Next
  <1>4. CASE ReadUnlock(r)
    <2>1. \A s \in Readers : InSection(s)' <=> InSection(s) /\ s # r
      BY <1>1, <1>4 DEF ReadUnlock, Reader, InSection, TypeOK
    <2>2. InSection(r) /\ UNCHANGED epochId
      BY <1>4 DEF ReadUnlock, Reader, InSection
    <2>3. \A w \in Writers : OlderSections(w)' = OlderSections(w) \ {r}
      BY <1>2, <2>1, <2>2 DEF OlderSections
    <2>4. GP!ReadUnlock(r)
      BY <1>2, <2>1, <2>2, <2>3 DEF GP!ReadUnlock
    <2>5. QED BY <2>4 DEF GP!Next
  <1>5. CASE \/ ReadLock(r) \/ LoadEpoch(r) \/ AddReader(r) \/ EpochMoved(r)
             \/ RevertReader(r)
    <2>1. \A s \in Readers :
            /\ InSection(s)' <=> InSection(s)
            /\ InSection(s) => epochId'[s] = epochId[s]
      BY <1>1, <1>5
      DEF ReadLock, LoadEpoch, AddReader, EpochMoved, RevertReader, Reader,
          InSection, TypeOK
    <2>2. \A w \in Writers : OlderSections(w)' = OlderSections(w)
      BY <1>2, <2>1 DEF OlderSections
    <2>3. QED
      BY <1>2, <2>1, <2>2 DEF GP!vars
  <1>6. QED
    BY <1>3, <1>4, <1>5 DEF LockLoop

LEMMA WriterRefines ==
  ASSUME IInv, NEW w \in Writers, SyncStart(w) \/ SyncLoop(w)
  PROVE  [GP!Next]_GP!vars
  <1>1. TypeOK /\ WriterEpochs /\ SectionEpochs
    BY DEF IInv, HoldersInv, TypeInv, EpochInv
  <1>2. \A r \in Readers :
          /\ InSection(r)' <=> InSection(r)
          /\ epochId'[r] = epochId[r]
    BY DEF SyncStart, SyncLoop, SyncRow, SyncReturn, ScanBucket, LoadOldest,
           StoreOldest, Writer, readerVars, InSection
  <1>3. \A v \in Writers : v # w => wpc'[v] = wpc[v] /\ lastEpoch'[v] = lastEpoch[v]
    BY <1>1
    DEF SyncStart, SyncLoop, SyncRow, SyncReturn, ScanBucket, LoadOldest,
        StoreOldest, Writer, TypeOK
  <1>4. \A v \in Writers : v # w => OlderSections(v)' = OlderSections(v)
    BY <1>2, <1>3 DEF OlderSections
  <1>5. CASE SyncStart(w)
    <2>1. wpc[w] = "idle" /\ wpc'[w] # "idle"
      BY <1>1, <1>5 DEF SyncStart, Writer, TypeOK
    <2>2. OlderSections(w)' = {r \in Readers : InSection(r)}
      BY <1>1, <1>2, <1>5 DEF SyncStart, OlderSections, SectionEpochs, TypeOK
    <2>3. GP!SyncStart(w)
      BY <1>2, <1>3, <1>4, <2>1, <2>2 DEF GP!SyncStart
    <2>4. QED BY <2>3 DEF GP!Next
  <1>6. CASE SyncReturn(w)
    <2>1. wpc[w] # "idle" /\ wpc'[w] = "idle"
      BY <1>1, <1>6 DEF SyncReturn, Writer, TypeOK
    <2>2. OlderSections(w) = {}
      BY <1>1, <1>6 DEF SyncReturn, OlderSections, SectionEpochs, TypeOK
    <2>3. GP!SyncEnd(w)
      BY <1>2, <1>3, <1>4, <2>1, <2>2 DEF GP!SyncEnd
    <2>4. QED BY <2>3 DEF GP!Next
  <1>7. CASE SyncRow(w) \/ ScanBucket(w) \/ LoadOldest(w) \/ StoreOldest(w)
    <2>1. wpc[w] # "idle" /\ wpc'[w] # "idle" /\ lastEpoch'[w] = lastEpoch[w]
      BY <1>1, <1>7
      DEF SyncRow, ScanBucket, LoadOldest, StoreOldest, Writer, TypeOK
    <2>2. OlderSections(w)' = OlderSections(w)
      BY <1>2, <2>1 DEF OlderSections
    <2>3. QED
      BY <1>2, <1>3, <1>4, <2>1, <2>2 DEF GP!vars
  <1>8. QED
    BY <1>5, <1>6, <1>7 DEF SyncLoop

LEMMA StepRefines == IInv /\ [Next]_vars => [GP!Next]_GP!vars
  <1> SUFFICES ASSUME IInv, [Next]_vars PROVE [GP!Next]_GP!vars
    OBVIOUS
  <1>1. ASSUME UNCHANGED <<rpc, epochId, wpc, lastEpoch>>
        PROVE  UNCHANGED GP!vars
    BY <1>1 DEF GP!vars, InSection, OlderSections
  <1>2. ASSUME NEW r \in Readers, Register(r) \/ Exit(r)
        PROVE  UNCHANGED <<rpc, epochId, wpc, lastEpoch>>
    BY <1>2 DEF Register, Exit, readerVars, writerVars
  <1>3. CASE UNCHANGED vars
    BY <1>1, <1>3 DEF vars, readerVars, writerVars
  <1>4. QED
    BY <1>1, <1>2, <1>3, ReaderRefines, WriterRefines DEF Next

(***************************************************************************)
(* The zone implements RCUGracePeriod: a reader enters when it validates   *)
(* its epoch, and a writer waits for exactly those inside at its           *)
(* fetch_add, whatever the epochs and the buckets.                         *)
(***************************************************************************)
THEOREM ZoneRefines ==
  ASSUME Discipline
  PROVE  Spec => ImplementsGracePeriod
  <1>1. QED
    BY InitRefines, StepRefines, InductiveInvariant, PTL
    DEF Spec, ImplementsGracePeriod, GP!Spec

-----------------------------------------------------------------------------
(***************************************************************************)
(* The benchmark's client on this zone: the inductive invariant.  pOld is  *)
(* the current object until the store, and the replaced one, not deleted   *)
(* yet, from then on.                                                      *)
(***************************************************************************)
OldInv ==
  /\ mpc = "loaded" => pOld = pCurrent
  /\ mpc \in {"stored", "sync", "delete"} => pOld \in allocated \ {pCurrent}
  /\ mpc = "sync" <=> wpc[writer] # "idle"

\* Objects are used in sections, and a replaced object only by readers that
\* the writer has not begun to wait for, or waits for.
HeldInv ==
  \A r \in Readers : held[r] # NULL =>
    /\ InSection(r)
    /\ \/ held[r] = pCurrent
       \/ mpc = "stored" /\ held[r] = pOld
       \/ mpc = "sync" /\ held[r] = pOld /\ r \in OlderSections(writer)

PointerTypes == PointerTypeOK /\ writer \in Writers

PointerInv == IInv /\ PointerTypes /\ OldInv /\ HeldInv

LEMMA InitPointerInv == writer \in Writers /\ PointerInit => PointerInv
  <1> SUFFICES ASSUME writer \in Writers, PointerInit PROVE PointerInv
    OBVIOUS
  <1>1. IInv
    BY InitTypeInv, InitBucketKept, InitHolders, InitEpochInv
    DEF PointerInit, IInv, HoldersInv
  <1>2. TypeOK
    BY <1>1 DEF IInv, HoldersInv, TypeInv
  <1>3. wpc[writer] = "idle"
    BY DEF PointerInit, Init
  <1>4. QED
    BY <1>1, <1>2, <1>3, PointerAssumption
    DEF PointerInit, PointerInv, PointerTypes, PointerTypeOK, OldInv, HeldInv

\* Every step of the client is one of the zone or leaves it alone.
LEMMA PointerKeepsZone ==
  ASSUME Discipline, PointerInv, [PointerNext]_<<vars, pointerVars>>
  PROVE  IInv' /\ TypeOK'
  <1>1. [Next]_vars
    <2>1. ASSUME NEW r \in Readers, BeforeUse(r) \/ LoadCurrent(r) \/ AfterUse(r)
          PROVE  [Next]_vars
      BY <2>1 DEF BeforeUse, LoadCurrent, AfterUse, Next
    <2>2. CASE SyncOld \/ Synchronizing
      BY <2>2 DEF SyncOld, Synchronizing, Next, PointerInv, PointerTypes
    <2>3. CASE LoadOld \/ StoreNew \/ DeleteOld
      BY <2>3 DEF LoadOld, StoreNew, DeleteOld
    <2>4. QED
      BY <2>1, <2>2, <2>3 DEF PointerNext
  <1>2. IInv'
    BY <1>1, IInvStep DEF PointerInv
  <1>3. QED
    BY <1>2 DEF IInv, HoldersInv, TypeInv

\* What the client's invariant reads of the zone.
zoneView == <<rpc, epochId, wpc, lastEpoch>>

LEMMA ViewKept ==
  ASSUME UNCHANGED zoneView
  PROVE  /\ \A r \in Readers : InSection(r)' <=> InSection(r)
         /\ OlderSections(writer)' = OlderSections(writer)
         /\ wpc'[writer] = wpc[writer]
  BY DEF zoneView, InSection, OlderSections

LEMMA PointerReaderStep ==
  ASSUME Discipline, PointerInv, TypeOK', NEW r \in Readers,
         BeforeUse(r) \/ LoadCurrent(r) \/ AfterUse(r)
  PROVE  PointerTypes' /\ OldInv' /\ HeldInv'
  <1> USE DEF PointerInv
  <1>0. TypeOK
    BY DEF PointerTypes, PointerTypeOK
  <1>1. UNCHANGED <<wpc, lastEpoch>>
    BY DEF BeforeUse, LoadCurrent, AfterUse, vars, Register, Exit, ReadLock, LockLoop,
           LoadEpoch, AddReader, Validated, EpochMoved, RevertReader, ReadUnlock,
           Reader, writerVars
  <1>2. \A s \in Readers : s # r =>
          (InSection(s)' <=> InSection(s)) /\ epochId'[s] = epochId[s]
    BY <1>0
    DEF BeforeUse, LoadCurrent, AfterUse, vars, Register, Exit, ReadLock, LockLoop,
        LoadEpoch, AddReader, Validated, EpochMoved, RevertReader, ReadUnlock,
        Reader, readerVars, InSection, TypeOK
  <1>3. \A s \in Readers : s # r =>
          (s \in OlderSections(writer) => s \in OlderSections(writer)')
    BY <1>1, <1>2 DEF OlderSections
  <1>4. UNCHANGED <<pCurrent, allocated, mpc, pOld>>
    BY DEF BeforeUse, LoadCurrent, AfterUse, pointerVars
  <1>5. OldInv'
    BY <1>1, <1>4 DEF OldInv
  <1>6. PointerTypes' /\ \A s \in Readers : s # r => held'[s] = held[s]
    BY <1>4, PointerAssumption
    DEF BeforeUse, LoadCurrent, AfterUse, pointerVars, PointerTypes, PointerTypeOK
  <1>7. held'[r] # NULL => InSection(r)' /\ (held'[r] = pCurrent \/ UNCHANGED <<vars, held>>)
    <2>1. CASE BeforeUse(r)
      <3>1. ~InSection(r)
        BY <2>1 DEF Discipline, BeforeUse, Register, Exit, ReadLock, LockLoop, LoadEpoch,
                    AddReader, Validated, EpochMoved, RevertReader, Reader, InSection
      <3>2. held'[r] = NULL
        BY <2>1, <3>1 DEF BeforeUse, pointerVars, HeldInv
      <3>3. QED
        BY <3>2
    <2>2. CASE LoadCurrent(r)
      BY <2>2 DEF LoadCurrent, vars, readerVars, InSection, PointerTypes, PointerTypeOK
    <2>3. CASE AfterUse(r)
      BY <2>3 DEF AfterUse, PointerTypes, PointerTypeOK
    <2>4. QED
      BY <2>1, <2>2, <2>3
  <1>8. HeldInv'
    <2>1. SUFFICES ASSUME NEW s \in Readers, held'[s] # NULL
                   PROVE  /\ InSection(s)'
                          /\ \/ held'[s] = pCurrent'
                             \/ mpc' = "stored" /\ held'[s] = pOld'
                             \/ /\ mpc' = "sync" /\ held'[s] = pOld'
                                /\ s \in OlderSections(writer)'
      BY DEF HeldInv
    <2>2. CASE s = r
      <3>1. CASE held'[r] = pCurrent
        BY <1>4, <1>7, <2>1, <2>2, <3>1
      <3>2. CASE UNCHANGED <<vars, held>>
        BY <1>1, <1>4, <2>1, <2>2, <3>2, ViewKept DEF HeldInv, vars, readerVars, zoneView
      <3>3. QED
        BY <1>7, <2>1, <2>2, <3>1, <3>2
    <2>3. CASE s # r
      BY <1>2, <1>3, <1>4, <1>6, <2>1, <2>3 DEF HeldInv
    <2>4. QED
      BY <2>2, <2>3
  <1>9. QED
    BY <1>5, <1>6, <1>8

LEMMA PointerWriterStep ==
  ASSUME Discipline, PointerInv, TypeOK',
         LoadOld \/ StoreNew \/ SyncOld \/ Synchronizing \/ DeleteOld
  PROVE  PointerTypes' /\ OldInv' /\ HeldInv'
  <1> USE PointerAssumption DEF PointerInv, PointerTypes, PointerTypeOK, OldInv, Modify
  <1>1. CASE LoadOld \/ StoreNew \/ DeleteOld
    <2>1. UNCHANGED zoneView
      BY <1>1 DEF LoadOld, StoreNew, DeleteOld, vars, readerVars, writerVars, zoneView
    <2>2. PointerTypes' /\ OldInv'
      BY <1>1, <2>1, ViewKept DEF LoadOld, StoreNew, DeleteOld
    <2>3. HeldInv'
      BY <1>1, <2>1, ViewKept DEF LoadOld, StoreNew, DeleteOld, HeldInv
    <2>4. QED
      BY <2>2, <2>3
  <1>2. ASSUME SyncOld \/ Synchronizing
        PROVE  /\ \A r \in Readers : InSection(r)' <=> InSection(r)
               /\ UNCHANGED <<epochId, pCurrent, allocated, pOld, held>>
    BY <1>2 DEF SyncOld, Synchronizing, SyncStart, SyncLoop, SyncRow, SyncReturn,
                ScanBucket, LoadOldest, StoreOldest, Writer, readerVars, InSection
  <1>3. CASE SyncOld
    <2>1. wpc'[writer] # "idle"
      BY <1>3 DEF SyncOld, SyncStart, Writer, TypeOK
    <2>2. \A r \in Readers : InSection(r) => r \in OlderSections(writer)'
      BY <1>2, <1>3
      DEF SyncOld, SyncStart, OlderSections, IInv, EpochInv, SectionEpochs, TypeOK
    <2>3. PointerTypes' /\ OldInv'
      BY <1>2, <1>3, <2>1 DEF SyncOld
    <2>4. HeldInv'
      BY <1>2, <1>3, <2>2 DEF SyncOld, HeldInv
    <2>5. QED
      BY <2>3, <2>4
  <1>4. CASE Synchronizing
    <2>1. PointerTypes' /\ OldInv'
      BY <1>2, <1>4 DEF Synchronizing
    <2>2. CASE SyncReturn(writer)
      <3>1. wpc'[writer] = "idle" /\ mpc' = "delete"
        BY <1>4, <2>2 DEF Synchronizing, SyncReturn, Writer, TypeOK
      <3>2. OlderSections(writer) = {}
        BY <2>2 DEF SyncReturn, OlderSections, IInv, EpochInv, SectionEpochs, TypeOK
      <3>3. HeldInv'
        BY <1>2, <1>4, <3>1, <3>2 DEF Synchronizing, HeldInv
      <3>4. QED
        BY <2>1, <3>3
    <2>3. CASE ~SyncReturn(writer)
      <3>1. wpc'[writer] # "idle" /\ lastEpoch' = lastEpoch /\ mpc' = "sync"
        BY <1>4, <2>3
        DEF Synchronizing, SyncLoop, SyncRow, ScanBucket, LoadOldest, StoreOldest,
            Writer, TypeOK
      <3>2. OlderSections(writer)' = OlderSections(writer)
        BY <1>2, <1>4, <3>1 DEF OlderSections
      <3>3. HeldInv'
        BY <1>2, <1>4, <3>1, <3>2 DEF Synchronizing, HeldInv
      <3>4. QED
        BY <2>1, <3>3
    <2>4. QED
      BY <2>2, <2>3
  <1>5. QED
    BY <1>1, <1>3, <1>4

LEMMA PointerInvStep ==
  ASSUME Discipline
  PROVE  PointerInv /\ [PointerNext]_<<vars, pointerVars>> => PointerInv'
  <1> SUFFICES ASSUME PointerInv, [PointerNext]_<<vars, pointerVars>>
               PROVE  PointerInv'
    OBVIOUS
  <1>1. IInv' /\ TypeOK'
    BY PointerKeepsZone
  <1>2. CASE UNCHANGED <<vars, pointerVars>>
    <2>1. UNCHANGED zoneView
      BY <1>2 DEF vars, readerVars, writerVars, zoneView
    <2>2. PointerTypes' /\ OldInv'
      BY <1>1, <1>2, <2>1, ViewKept
      DEF PointerInv, PointerTypes, PointerTypeOK, OldInv, pointerVars
    <2>3. HeldInv'
      BY <1>2, <2>1, ViewKept DEF PointerInv, HeldInv, pointerVars
    <2>4. QED
      BY <1>1, <2>2, <2>3 DEF PointerInv
  <1>3. QED
    BY <1>1, <1>2, PointerReaderStep, PointerWriterStep DEF PointerNext, PointerInv

(***************************************************************************)
(* Types, and pCurrent points to an object that is allocated: the writer   *)
(* of fRCU deletes none but the one it has replaced.                       *)
(***************************************************************************)
THEOREM PointerTypeCorrect ==
  ASSUME Discipline, writer \in Writers
  PROVE  PointerSpec => []PointerTypeOK
  <1>1. PointerInv => PointerTypeOK
    BY DEF PointerInv, PointerTypes
  <1>2. PointerInit => PointerInv
    BY InitPointerInv
  <1>3. QED
    BY <1>1, <1>2, PointerInvStep, PTL DEF PointerSpec

(***************************************************************************)
(* No reader works on an object that the writer of the benchmark has       *)
(* deleted (delete pOld in fRCU), for every number of readers, buckets and *)
(* calls, down to each load and increment of rcuReadLock and each count    *)
(* that rcuSynchronize scans.                                              *)
(***************************************************************************)
THEOREM PointerSafe ==
  ASSUME Discipline, writer \in Writers
  PROVE  PointerSpec => []NoUseAfterDelete
  <1>1. PointerInv => NoUseAfterDelete
    BY PointerAssumption
    DEF PointerInv, PointerTypes, PointerTypeOK, OldInv, HeldInv, NoUseAfterDelete
  <1>2. PointerInit => PointerInv
    BY InitPointerInv
  <1>3. QED
    BY <1>1, <1>2, PointerInvStep, PTL DEF PointerSpec
=============================================================================
