----------------------------- MODULE RCURegistry -----------------------------
(***************************************************************************)
(* The process-wide registry of reader threads (RCUReaderThreadRegistry,   *)
(* RCU.cpp lines 35-51).  A registered thread owns one of                  *)
(* nrNonOverlappingBucketCount counters in every zone; the others share    *)
(* counters chosen by hashing the thread id.                               *)
(*                                                                         *)
(* A model thread that ends and is started again stands for two threads:   *)
(* its thread_local id is -1 again, the identifier it was given is not     *)
(* handed back.                                                            *)
(***************************************************************************)
EXTENDS Integers

CONSTANTS
  Readers,                     \* threads that may register and read
  nrNonOverlappingBucketCount, \* identifiers the registry hands out
  IntMax                       \* the largest value of std::atomic<int>

ASSUME RegistryAssumption ==
  /\ IntMax \in Nat
  /\ nrNonOverlappingBucketCount \in 1 .. IntMax

VARIABLES
  nextBucketId,       \* the atomic counter shared by all threads
  tlsReaderBucketId   \* the thread_local identifier, -1 if not registered

registryVars == <<nextBucketId, tlsReaderBucketId>>

IntMin == -IntMax - 1

\* fetch_add(1) on a two's complement int.
Increment(n) == IF n = IntMax THEN IntMin ELSE n + 1

RegistryTypeOK ==
  /\ nextBucketId \in IntMin .. IntMax
  /\ tlsReaderBucketId \in [Readers -> IntMin .. IntMax]

RegistryInit ==
  /\ nextBucketId = 0
  /\ tlsReaderBucketId = [r \in Readers |-> -1]

\* Mutant: the limit is handed out as well.
MutantOneTooMany(r) ==
  /\ tlsReaderBucketId[r] = -1
  /\ nextBucketId' = Increment(nextBucketId)
  /\ tlsReaderBucketId' =
       IF nextBucketId <= nrNonOverlappingBucketCount
       THEN [tlsReaderBucketId EXCEPT ![r] = nextBucketId]
       ELSE tlsReaderBucketId

(***************************************************************************)
(* The identifier is drawn before it is compared with the limit, so failed *)
(* registrations also move the counter.  A registered thread returns early *)
(* and changes nothing.                                                    *)
(***************************************************************************)
rcuRegisterReaderThread(r) ==
  /\ tlsReaderBucketId[r] = -1
  /\ nextBucketId' = Increment(nextBucketId)
  /\ tlsReaderBucketId' =
       IF nextBucketId < nrNonOverlappingBucketCount
       THEN [tlsReaderBucketId EXCEPT ![r] = nextBucketId]
       ELSE tlsReaderBucketId

\* The thread ends; the next thread in its place starts unregistered.
ThreadExit(r) ==
  /\ tlsReaderBucketId[r] # -1
  /\ tlsReaderBucketId' = [tlsReaderBucketId EXCEPT ![r] = -1]
  /\ UNCHANGED nextBucketId

(***************************************************************************)
(* RCUApi.h lines 25-27: a registered thread has a bucket of its own.  The *)
(* identifiers of live registered threads differ and index one of the      *)
(* private buckets.                                                        *)
(***************************************************************************)
UniqueBuckets ==
  /\ \A r, s \in Readers :
       r # s /\ tlsReaderBucketId[r] # -1 => tlsReaderBucketId[r] # tlsReaderBucketId[s]
  /\ \A r \in Readers :
       tlsReaderBucketId[r] \in -1 .. nrNonOverlappingBucketCount - 1
=============================================================================
