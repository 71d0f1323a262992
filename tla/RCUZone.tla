------------------------------- MODULE RCUZone -------------------------------
(***************************************************************************)
(* An RCU zone (RCU.cpp, RCUTypes.h): a ring of two rows of reader         *)
(* counters, the latest epoch, which readers read and writers advance, and *)
(* the oldest epoch that may still have readers, which writers advance as  *)
(* they find its row empty.                                                *)
(*                                                                         *)
(* Every access to a shared atomic is an action of its own; work on        *)
(* thread-local data is folded into the action next to it.  Steps take     *)
(* effect in one total order: each increment a thread must publish before  *)
(* it reads the other side's variable is a read-modify-write, which is a   *)
(* full barrier on the x86 processors the project is built for.            *)
(***************************************************************************)
EXTENDS RCURegistry, FiniteSets

CONSTANTS
  Writers,              \* threads that call rcuSynchronize
  nrHashThreadBuckets,  \* buckets per row shared by unregistered threads
  threadIdHasher,       \* std::hash of the thread id, per reader
  SerializedWriters,    \* do the callers exclude one another's rcuSynchronize?
  RegisterPoints,       \* where user code registers: "idle", "cs" or both
  MaxEpoch,             \* bound: rcuSynchronize is called at most this often
  MaxRegisterCalls      \* bound: calls of rcuRegisterReaderThread that count

ASSUME ZoneAssumption ==
  /\ IsFiniteSet(Readers)
  /\ nrHashThreadBuckets \in Nat \ {0}
  /\ threadIdHasher \in [Readers -> Nat]
  /\ SerializedWriters \in BOOLEAN
  /\ RegisterPoints \subseteq {"idle", "cs"}
  /\ MaxEpoch \in Nat
  /\ MaxRegisterCalls \in 0 .. IntMax

VARIABLES
  epochLatest,   \* std::atomic<int64_t>
  epochOldest,   \* plain int64_t, used by rcuSynchronize only
  count,         \* count[row][bucket], the readers' reference counts
  rpc,           \* where each reader is in rcuReadLock / its section
  threadBucketId,\* reader local: the bucket of the rcuReadLock under way
  epochId,       \* reader local: the epoch read, then held
  wpc,           \* where each writer is in rcuSynchronize
  lastEpoch,     \* writer local: the epoch whose readers it waits for
  epochRowId,    \* writer local: the row being scanned
  iBucket,       \* writer local: the next bucket to scan
  oldestRead     \* writer local: epochOldest as ++ read it

readerVars == <<rpc, threadBucketId, epochId>>
writerVars == <<wpc, lastEpoch, epochRowId, iBucket, oldestRead>>
vars == <<registryVars, epochLatest, epochOldest, count, readerVars, writerVars>>

\* Mutant: a single row for all epochs.
MutantOneRow == 1

c_maxEpoches == 2
Rows == 0 .. c_maxEpoches - 1

nrBucketsPerEpoch == nrHashThreadBuckets + nrNonOverlappingBucketCount
Buckets == 0 .. nrBucketsPerEpoch - 1

\* epoch & c_epochMask
RowOf(epoch) == epoch % c_maxEpoches

\* A registered thread's own bucket, or a shared one.
OwnBucketOr(r, shared) ==
  IF tlsReaderBucketId[r] # -1 THEN tlsReaderBucketId[r] ELSE shared

\* Mutant: the mask is the bucket count instead of one less.
MutantMaskTooWide(r) ==
  OwnBucketOr(r, nrNonOverlappingBucketCount + (threadIdHasher[r] % (nrHashThreadBuckets + 1)))

\* Mutant: the shared buckets are not placed after the private ones.
MutantNoOffset(r) == OwnBucketOr(r, threadIdHasher[r] % nrHashThreadBuckets)

\* hash & (nrHashThreadBuckets - 1), the bucket count being a power of two.
fetchThreadBucketId(r) ==
  OwnBucketOr(r, nrNonOverlappingBucketCount + (threadIdHasher[r] % nrHashThreadBuckets))

ReaderPC == {"idle", "load", "add", "validate", "revert", "cs"}
WriterPC == {"idle", "test", "scan", "store"}

TypeOK ==
  /\ RegistryTypeOK
  /\ epochLatest \in 0 .. MaxEpoch
  /\ epochOldest \in Nat
  /\ count \in [Rows -> [Buckets -> Int]]
  /\ rpc \in [Readers -> ReaderPC]
  /\ threadBucketId \in [Readers -> Buckets]
  /\ epochId \in [Readers -> Nat]
  /\ wpc \in [Writers -> WriterPC]
  /\ lastEpoch \in [Writers -> Nat]
  /\ epochRowId \in [Writers -> Rows]
  /\ iBucket \in [Writers -> 0 .. nrBucketsPerEpoch]
  /\ oldestRead \in [Writers -> Nat]

\* rcuInitZoneWithBucketCounts; locals hold an arbitrary fixed value.
Init ==
  /\ RegistryInit
  /\ epochLatest = 0
  /\ epochOldest = 0
  /\ count = [e \in Rows |-> [b \in Buckets |-> 0]]
  /\ rpc = [r \in Readers |-> "idle"]
  /\ threadBucketId = [r \in Readers |-> 0]
  /\ epochId = [r \in Readers |-> 0]
  /\ wpc = [w \in Writers |-> "idle"]
  /\ lastEpoch = [w \in Writers |-> 0]
  /\ epochRowId = [w \in Writers |-> 0]
  /\ iBucket = [w \in Writers |-> 0]
  /\ oldestRead = [w \in Writers |-> 0]

-----------------------------------------------------------------------------
(* The registry, as the threads of this zone use it.                        *)

Register(r) ==
  /\ rpc[r] \in RegisterPoints
  /\ nextBucketId < MaxRegisterCalls
  /\ rcuRegisterReaderThread(r)
  /\ UNCHANGED <<epochLatest, epochOldest, count, readerVars, writerVars>>

Exit(r) ==
  /\ rpc[r] = "idle"
  /\ ThreadExit(r)
  /\ UNCHANGED <<epochLatest, epochOldest, count, readerVars, writerVars>>

-----------------------------------------------------------------------------
(* rcuReadLock and rcuReadUnlock.                                           *)

Reader(r, from, to) ==
  /\ rpc[r] = from
  /\ rpc' = [rpc EXCEPT ![r] = to]
  /\ UNCHANGED <<registryVars, epochLatest, epochOldest, writerVars>>

AddToCount(row, bucket, n) ==
  count' = [count EXCEPT ![row][bucket] = @ + n]

CountStep(r, from, to, row, bucket, n) ==
  /\ Reader(r, from, to)
  /\ AddToCount(row, bucket, n)
  /\ UNCHANGED <<threadBucketId, epochId>>

LocalStep(r, from, to) ==
  Reader(r, from, to) /\ UNCHANGED <<count, threadBucketId, epochId>>

\* The bucket is fetched once, before the retry loop.
ReadLock(r) ==
  /\ Reader(r, "idle", "load")
  /\ threadBucketId' = [threadBucketId EXCEPT ![r] = fetchThreadBucketId(r)]
  /\ UNCHANGED <<count, epochId>>

LoadEpoch(r) ==
  /\ Reader(r, "load", "add")
  /\ epochId' = [epochId EXCEPT ![r] = epochLatest]
  /\ UNCHANGED <<count, threadBucketId>>

AddReader(r) ==
  CountStep(r, "add", "validate", RowOf(epochId[r]), threadBucketId[r], 1)

\* Mutant: the epoch is not loaded again after the increment.
MutantNotValidated(r) == LocalStep(r, "validate", "cs")

Validated(r) == epochLatest = epochId[r] /\ LocalStep(r, "validate", "cs")

EpochMoved(r) == epochLatest # epochId[r] /\ LocalStep(r, "validate", "revert")

\* Mutant: the retry forgets the increment in the old row.
MutantNoRevert(r) == LocalStep(r, "revert", "load")

\* Mutant: the retry does not load the epoch again.
MutantSameEpoch(r) ==
  CountStep(r, "revert", "add", RowOf(epochId[r]), threadBucketId[r], -1)

RevertReader(r) ==
  CountStep(r, "revert", "load", RowOf(epochId[r]), threadBucketId[r], -1)

\* Mutant: the unlock decrements the latest row, not that of its argument.
MutantUnlockLatest(r) ==
  CountStep(r, "cs", "idle", RowOf(epochLatest), fetchThreadBucketId(r), -1)

\* The bucket is fetched again: it is the lock's bucket only if the thread
\* has not registered in between.
ReadUnlock(r) ==
  CountStep(r, "cs", "idle", RowOf(epochId[r]), fetchThreadBucketId(r), -1)

-----------------------------------------------------------------------------
(* rcuSynchronize.                                                          *)

Writer(w, from, to) ==
  /\ wpc[w] = from
  /\ wpc' = [wpc EXCEPT ![w] = to]
  /\ UNCHANGED <<registryVars, count, readerVars>>

SyncStart(w) ==
  /\ epochLatest < MaxEpoch
  /\ SerializedWriters => \A v \in Writers : wpc[v] = "idle"
  /\ Writer(w, "idle", "test")
  /\ lastEpoch' = [lastEpoch EXCEPT ![w] = epochLatest]
  /\ epochLatest' = epochLatest + 1
  /\ UNCHANGED <<epochOldest, epochRowId, iBucket, oldestRead>>

SyncRowFrom(w, bucket) ==
  /\ epochOldest <= lastEpoch[w]
  /\ Writer(w, "test", "scan")
  /\ epochRowId' = [epochRowId EXCEPT ![w] = RowOf(epochOldest)]
  /\ iBucket' = [iBucket EXCEPT ![w] = bucket]
  /\ UNCHANGED <<epochLatest, epochOldest, lastEpoch, oldestRead>>

\* Mutant: the scan begins after the private buckets.
MutantSharedOnly(w) == SyncRowFrom(w, nrNonOverlappingBucketCount)

SyncRow(w) == SyncRowFrom(w, 0)

SyncReturn(w) ==
  /\ epochOldest > lastEpoch[w]
  /\ Writer(w, "test", "idle")
  /\ UNCHANGED <<epochLatest, epochOldest, lastEpoch, epochRowId, iBucket, oldestRead>>

PassBucket(w, limit) ==
  /\ iBucket[w] < nrBucketsPerEpoch
  /\ count[epochRowId[w]][iBucket[w]] <= limit
  /\ Writer(w, "scan", "scan")
  /\ iBucket' = [iBucket EXCEPT ![w] = @ + 1]
  /\ UNCHANGED <<epochLatest, epochOldest, lastEpoch, epochRowId, oldestRead>>

\* Mutant: one reader left in a bucket is taken for none.
MutantScanOne(w) == PassBucket(w, 1)

\* The writer spins while the count is positive: the action is disabled.
ScanBucket(w) == PassBucket(w, 0)

\* ++zone.epochOldest is a load and a store of a plain integer.
LoadOldest(w) ==
  /\ iBucket[w] = nrBucketsPerEpoch
  /\ Writer(w, "scan", "store")
  /\ oldestRead' = [oldestRead EXCEPT ![w] = epochOldest]
  /\ UNCHANGED <<epochLatest, epochOldest, lastEpoch, epochRowId, iBucket>>

StoreOldest(w) ==
  /\ Writer(w, "store", "test")
  /\ epochOldest' = oldestRead[w] + 1
  /\ UNCHANGED <<epochLatest, lastEpoch, epochRowId, iBucket, oldestRead>>

-----------------------------------------------------------------------------

LockLoop(r) ==
  \/ LoadEpoch(r) \/ AddReader(r) \/ Validated(r) \/ EpochMoved(r)
  \/ RevertReader(r)

SyncLoop(w) ==
  \/ SyncRow(w) \/ SyncReturn(w) \/ ScanBucket(w) \/ LoadOldest(w)
  \/ StoreOldest(w)

Next ==
  \/ \E r \in Readers :
       \/ Register(r) \/ Exit(r)
       \/ ReadLock(r) \/ LockLoop(r) \/ ReadUnlock(r)
  \/ \E w \in Writers : SyncStart(w) \/ SyncLoop(w)

Spec == Init /\ [][Next]_vars

(***************************************************************************)
(* The scheduler runs every thread again and again, and a section that is  *)
(* entered is left.  Nobody has to register, exit, lock or synchronize.    *)
(***************************************************************************)
Fairness ==
  /\ \A r \in Readers : WF_vars(LockLoop(r)) /\ WF_vars(ReadUnlock(r))
  /\ \A w \in Writers : WF_vars(SyncLoop(w))

FairSpec == Spec /\ Fairness

-----------------------------------------------------------------------------
(* Properties.                                                              *)

InSection(r) == rpc[r] = "cs"

\* The sections that rcuSynchronize of w must see end before it returns.
OlderSections(w) == {r \in Readers : InSection(r) /\ epochId[r] <= lastEpoch[w]}

(***************************************************************************)
(* RCUApi.h lines 51-52: rcuSynchronize waits for the sections under way   *)
(* at the call.  When w returns, nobody is left in a section of an epoch   *)
(* up to the one the call closed.                                          *)
(***************************************************************************)
GracePeriod ==
  [][\A w \in Writers :
       wpc[w] # "idle" /\ wpc'[w] = "idle" => OlderSections(w) = {}]_vars

(***************************************************************************)
(* Every count is the number of readers that stand behind it: the ones     *)
(* that added themselves and have neither reverted nor unlocked.  No       *)
(* retry, hash collision or late increment of a stale epoch leaves a count *)
(* too high (writers would wait for ever) or too low (they would not wait).*)
(***************************************************************************)
Holds(r, row, bucket) ==
  /\ rpc[r] \in {"validate", "revert", "cs"}
  /\ RowOf(epochId[r]) = row
  /\ threadBucketId[r] = bucket

Holders(row, bucket) == {r \in Readers : Holds(r, row, bucket)}

CountsAreHolders ==
  \A e \in Rows, b \in Buckets : count[e][b] = Cardinality(Holders(e, b))

(***************************************************************************)
(* RCUApi.h lines 25-27: a registered thread never meets another reader in *)
(* a counter, whatever unregistered threads hash to and however many       *)
(* threads were registered and ended before.                               *)
(***************************************************************************)
NoContention ==
  \A r, s \in Readers :
    r # s /\ tlsReaderBucketId[r] # -1 /\ rpc[r] # "idle" /\ rpc[s] # "idle"
      => threadBucketId[r] # threadBucketId[s]

(***************************************************************************)
(* The zone implements the promise of RCUGracePeriod: a reader is inside   *)
(* from the load that validates its epoch, a writer from its fetch_add.    *)
(***************************************************************************)
GP == INSTANCE RCUGracePeriod WITH
        inside  <- {r \in Readers : InSection(r)},
        syncing <- {w \in Writers : wpc[w] # "idle"},
        waiting <- [w \in Writers |-> IF wpc[w] = "idle" THEN {} ELSE OlderSections(w)]

ImplementsGracePeriod == GP!Spec

ImplementsFairGracePeriod == GP!FairSpec

(***************************************************************************)
(* Every call of rcuSynchronize returns, although readers keep entering    *)
(* and leaving sections: new readers count themselves in the other row.    *)
(***************************************************************************)
SyncReturns == \A w \in Writers : wpc[w] # "idle" ~> wpc[w] = "idle"

(***************************************************************************)
(* Every rcuReadLock returns once writers leave the epoch alone for long   *)
(* enough (RCU.cpp 101-120; here calls of rcuSynchronize are bounded): a   *)
(* retry is caused by a new epoch only, never by an old increment, by the  *)
(* reader's own undo or by another reader.                                 *)
(***************************************************************************)
LockReturns == \A r \in Readers : rpc[r] = "load" ~> rpc[r] = "cs"

-----------------------------------------------------------------------------
(* Why the grace period holds: the inductive invariant behind GracePeriod   *)
(* and ImplementsGracePeriod, for serialized writers and threads that       *)
(* register outside their sections.                                         *)

\* rcuReadUnlock will find the bucket that rcuReadLock counted in.
BucketKept ==
  \A r \in Readers : rpc[r] # "idle" => threadBucketId[r] = fetchThreadBucketId(r)

AtMostOneWriter == \A v, w \in Writers : wpc[v] # "idle" /\ wpc[w] # "idle" => v = w

\* Between calls the two epochs agree; during a call they are one apart
\* until the closed epoch's row has been scanned.
WriterEpochs ==
  /\ (\A w \in Writers : wpc[w] = "idle") => epochOldest = epochLatest
  /\ \A w \in Writers : wpc[w] # "idle" =>
       /\ epochLatest = lastEpoch[w] + 1
       /\ epochOldest \in {lastEpoch[w], epochLatest}
       /\ wpc[w] \in {"scan", "store"} => epochOldest = lastEpoch[w]
       /\ wpc[w] = "scan" => epochRowId[w] = RowOf(lastEpoch[w])
       /\ wpc[w] = "store" => oldestRead[w] = lastEpoch[w]

\* A section's epoch has not been given up by any writer.
SectionEpochs ==
  \A r \in Readers : InSection(r) => epochId[r] \in epochOldest .. epochLatest

\* What the scan has passed stays empty of the closed epoch's sections.
ScannedEmpty ==
  \A w \in Writers, r \in Readers :
    InSection(r) /\ epochId[r] = lastEpoch[w] =>
      /\ wpc[w] = "scan" => threadBucketId[r] >= iBucket[w]
      /\ wpc[w] # "store"

(***************************************************************************)
(* The state rcuSynchronize relies on: while it spins on one bucket after  *)
(* another, no section of the closed epoch can appear behind it.           *)
(***************************************************************************)
ZoneInv ==
  /\ BucketKept
  /\ CountsAreHolders
  /\ AtMostOneWriter
  /\ WriterEpochs
  /\ SectionEpochs
  /\ ScannedEmpty
=============================================================================
