------------------------ MODULE RCUNestedZonesProofs ------------------------
(***************************************************************************)
(* Proofs about RCUNestedZones, for all zones and finitely many threads.   *)
(***************************************************************************)
EXTENDS RCUNestedZones, RankLemmas

-----------------------------------------------------------------------------
(* The inductive invariant.                                                 *)

VarTypes ==
  /\ inside \in [Zones -> SUBSET Threads]
  /\ syncing \in [Zones -> SUBSET Threads]
  /\ waiting \in [Zones -> [Threads -> SUBSET Threads]]
  /\ pc \in [Threads -> {Running} \cup [at : {"lock", "sync"}, zone : Zones]]

\* Whoever is in the rcuSynchronize of a zone is there alone.
MutexInv ==
  \A z \in Zones :
    /\ \A t \in syncing[z] : pc[t] = [at |-> "sync", zone |-> z]
    /\ \A t \in Threads :
         pc[t].at = "sync" /\ pc[t].zone = z => syncing[z] = {t}

\* It waits for threads that are in their sections still.
WaitingInv ==
  \A t \in Threads : pc[t].at = "sync" =>
    waiting[pc[t].zone][t] \subseteq inside[pc[t].zone]

\* A thread that waits for a zone came there in the order of the zones.
OrderInv ==
  \A t \in Threads : pc[t].at # "run" => \A y \in Held(t) : y < pc[t].zone

IInv == VarTypes /\ MutexInv /\ WaitingInv /\ OrderInv

-----------------------------------------------------------------------------

LEMMA InitIInv == Init => IInv
  BY DEF Init, IInv, VarTypes, MutexInv, WaitingInv, OrderInv, Running

LEMMA ReadSteps ==
  ASSUME IInv, NEW t \in Threads, NEW z \in Zones,
         ReadLock(t, z) \/ ReadUnlock(t, z)
  PROVE  IInv'
  <1> USE DEF IInv, VarTypes, MutexInv, WaitingInv, OrderInv, Held, Running
  <1>1. CASE ReadLock(t, z)
    BY <1>1 DEF ReadLock
  <1>2. CASE ReadUnlock(t, z)
    BY <1>2 DEF ReadUnlock
  <1>3. QED
    BY <1>1, <1>2

LEMMA LockStep ==
  ASSUME IInv, NEW t \in Threads, NEW z \in Zones, LockWriters(t, z)
  PROVE  IInv'
  BY DEF IInv, VarTypes, MutexInv, WaitingInv, OrderInv, Held, Running,
         LockWriters, MayWaitFor

LEMMA SyncSteps ==
  ASSUME IInv, NEW t \in Threads, Synchronize(t)
  PROVE  IInv'
  <1> USE DEF IInv, VarTypes, MutexInv, WaitingInv, OrderInv, Held, Running
  <1>1. CASE SyncStart(t)
    BY <1>1 DEF SyncStart
  <1>2. CASE SyncEnd(t)
    BY <1>2 DEF SyncEnd
  <1>3. QED
    BY <1>1, <1>2 DEF Synchronize

LEMMA IInvStep == IInv /\ [Next]_vars => IInv'
  <1> SUFFICES ASSUME IInv, [Next]_vars PROVE IInv'
    OBVIOUS
  <1>1. CASE UNCHANGED vars
    BY <1>1 DEF vars, IInv, VarTypes, MutexInv, WaitingInv, OrderInv, Held
  <1>2. QED
    BY <1>1, ReadSteps, LockStep, SyncSteps DEF Next

LEMMA IInvAlways == Spec => []IInv
  BY InitIInv, IInvStep, PTL DEF Spec

(***************************************************************************)
(* Types, and at most one thread is in the rcuSynchronize of a zone, as    *)
(* RCUApi.h 14-20 demands of the users of the zone.                        *)
(***************************************************************************)
THEOREM NestedTypeCorrect == Spec => []TypeOK
  <1>1. ASSUME IInv, NEW z \in Zones PROVE Cardinality(syncing[z]) <= 1
    <2>1. CASE syncing[z] = {}
      BY <2>1, FS_EmptySet
    <2>2. CASE syncing[z] # {}
      <3>1. PICK t \in syncing[z] : TRUE
        BY <2>2
      <3>2. t \in Threads /\ pc[t] = [at |-> "sync", zone |-> z]
        BY <1>1, <3>1 DEF IInv, VarTypes, MutexInv
      <3>3. syncing[z] = {t}
        BY <1>1, <3>2 DEF IInv, MutexInv
      <3>4. Cardinality({t}) = 1
        BY FS_Singleton
      <3>5. QED
        BY <3>3, <3>4
    <2>3. QED
      BY <2>1, <2>2
  <1>2. IInv => TypeOK
    BY <1>1 DEF IInv, VarTypes, TypeOK
  <1>3. QED
    BY <1>2, IInvAlways, PTL

(***************************************************************************)
(* "It might trigger a deadlock" (RCUApi.h 16), but not if the threads     *)
(* take the zones in one order, however many threads and zones there are:  *)
(* of threads that wait, one that waits for the highest zone waits for a   *)
(* thread that does not wait for any of them.                              *)
(***************************************************************************)
THEOREM NestedNoDeadlock == Spec => []NoDeadlock
  <1>1. ASSUME IInv, NEW S \in SUBSET Threads, S # {},
               \A t \in S : WaitsFor(t) \cap S # {}
        PROVE  FALSE
    <2> USE DEF IInv, VarTypes
    <2>1. \A t \in S : pc[t].at \in {"lock", "sync"} /\ pc[t].zone \in Zones
      BY <1>1 DEF WaitsFor, Running
    <2>2. PICK t \in S : \A u \in S : pc[u].zone <= pc[t].zone
      <3> DEFINE zone == [u \in S |-> pc[u].zone]
      <3>1. IsFiniteSet(S)
        BY NestedAssumption, FS_Subset
      <3>2. \A u \in S : zone[u] = pc[u].zone /\ zone[u] \in Int
        <4> SUFFICES ASSUME NEW u \in S PROVE zone[u] = pc[u].zone /\ zone[u] \in Int
          OBVIOUS
        <4>1. pc[u].zone \in Nat
          BY <2>1, NestedAssumption
        <4>2. QED
          BY <4>1
      <3>3. PICK t \in S : \A u \in S : zone[u] <= zone[t]
        <4> HIDE DEF zone
        <4>1. QED
          BY <1>1, <3>1, <3>2, GreatestRank
      <3>4. QED
        BY <3>2, <3>3
    \* Readers wait for higher zones than the one they are in.
    <2>3. \A w \in S : pc[w].at = "sync" => pc[w].zone < pc[t].zone
      <3> SUFFICES ASSUME NEW w \in S, pc[w].at = "sync"
                   PROVE  pc[w].zone < pc[t].zone
        OBVIOUS
      <3>1. PICK u \in S : u \in inside[pc[w].zone]
        BY <1>1, <2>1 DEF WaitsFor, WaitingInv
      <3>2. pc[w].zone < pc[u].zone
        BY <1>1, <2>1, <3>1 DEF OrderInv, Held
      <3>3. QED
        BY <2>1, <2>2, <3>2, NestedAssumption
    <2>4. CASE pc[t].at = "sync"
      <3>1. pc[t].zone < pc[t].zone /\ pc[t].zone \in Nat
        BY <2>1, <2>3, <2>4, NestedAssumption
      <3>2. QED
        BY <3>1
    <2>5. CASE pc[t].at = "lock"
      <3>1. PICK w \in S : pc[w] = [at |-> "sync", zone |-> pc[t].zone]
        BY <1>1, <2>1, <2>5 DEF WaitsFor, MutexInv
      <3>2. pc[w].at = "sync" /\ pc[w].zone = pc[t].zone
        BY <3>1
      <3>3. pc[t].zone < pc[t].zone /\ pc[t].zone \in Nat
        BY <2>1, <2>3, <3>2, NestedAssumption
      <3>4. QED
        BY <3>3
    <2>6. QED
      BY <2>1, <2>4, <2>5
  <1>2. IInv => NoDeadlock
    BY <1>1 DEF NoDeadlock
  <1>3. QED
    BY <1>2, IInvAlways, PTL
=============================================================================
