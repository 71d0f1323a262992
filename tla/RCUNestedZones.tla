---------------------------- MODULE RCUNestedZones ----------------------------
(***************************************************************************)
(* Threads that use several zones at once (RCUApi.h:14-20): read sections  *)
(* of different zones may nest, and a thread inside a section may call     *)
(* rcuSynchronize on another zone.  Each zone behaves as RCUGracePeriod.   *)
(* Calls of rcuSynchronize on one zone are serialized by its users, who    *)
(* lock a mutex around the call.                                           *)
(*                                                                         *)
(* The rule for mutexes is to take them in one order.  Here: a thread      *)
(* synchronizes only zones that come after all those whose sections it is  *)
(* in.  Entering a section never waits, so sections may nest in any order. *)
(***************************************************************************)
EXTENDS Naturals, FiniteSets

CONSTANTS
  Threads,
  Zones   \* numbered in the order in which they may be waited for

ASSUME NestedAssumption == Zones \subseteq Nat /\ IsFiniteSet(Threads)

VARIABLES
  inside,  \* inside[z]: the threads in a read section of z
  syncing, \* syncing[z]: the threads in rcuSynchronize of z, at most one
  waiting, \* waiting[z][t]: the sections of z that t must still see end
  pc       \* pc[t]: "run", or "lock" and "sync": in the mutex of a zone ...
           \*        or in its rcuSynchronize

vars == <<inside, syncing, waiting, pc>>

Running == [at |-> "run", zone |-> 0]

TypeOK ==
  /\ inside \in [Zones -> SUBSET Threads]
  /\ syncing \in [Zones -> SUBSET Threads]
  /\ \A z \in Zones : Cardinality(syncing[z]) <= 1
  /\ waiting \in [Zones -> [Threads -> SUBSET Threads]]
  /\ pc \in [Threads -> {Running} \cup [at : {"lock", "sync"}, zone : Zones]]

Init ==
  /\ inside = [z \in Zones |-> {}]
  /\ syncing = [z \in Zones |-> {}]
  /\ waiting = [z \in Zones |-> [t \in Threads |-> {}]]
  /\ pc = [t \in Threads |-> Running]

\* The zones whose sections t is in.
Held(t) == {z \in Zones : t \in inside[z]}

\* Mutant: the reader counts itself in the row that a writer waits for.
MutantOldRow(t, z) ==
  /\ pc[t] = Running
  /\ t \notin inside[z]
  /\ inside' = [inside EXCEPT ![z] = @ \cup {t}]
  /\ waiting' = [waiting EXCEPT ![z] = [w \in Threads |-> @[w] \cup ({t} \ {w})]]
  /\ UNCHANGED <<syncing, pc>>

ReadLock(t, z) ==
  /\ pc[t] = Running
  /\ t \notin inside[z]
  /\ inside' = [inside EXCEPT ![z] = @ \cup {t}]
  /\ UNCHANGED <<syncing, waiting, pc>>

ReadUnlock(t, z) ==
  /\ pc[t] = Running
  /\ t \in inside[z]
  /\ inside' = [inside EXCEPT ![z] = @ \ {t}]
  /\ waiting' = [waiting EXCEPT ![z] = [w \in Threads |-> @[w] \ {t}]]
  /\ UNCHANGED <<syncing, pc>>

\* Mutant: no order among the zones.
MutantAnyOrder(t, z) == z \notin Held(t)

MayWaitFor(t, z) == \A y \in Held(t) : y < z

LockWriters(t, z) ==
  /\ pc[t] = Running
  /\ MayWaitFor(t, z)
  /\ pc' = [pc EXCEPT ![t] = [at |-> "lock", zone |-> z]]
  /\ UNCHANGED <<inside, syncing, waiting>>

\* Mutant of SyncStart: nobody serializes the writers of a zone.
MutantNoMutex(t) ==
  LET z == pc[t].zone IN
  /\ pc[t].at = "lock"
  /\ syncing' = [syncing EXCEPT ![z] = @ \cup {t}]
  /\ waiting' = [waiting EXCEPT ![z][t] = inside[z]]
  /\ pc' = [pc EXCEPT ![t].at = "sync"]
  /\ UNCHANGED inside

\* The mutex is free.
SyncStart(t) ==
  LET z == pc[t].zone IN
  /\ pc[t].at = "lock"
  /\ syncing[z] = {}
  /\ syncing' = [syncing EXCEPT ![z] = {t}]
  /\ waiting' = [waiting EXCEPT ![z][t] = inside[z]]
  /\ pc' = [pc EXCEPT ![t] = [at |-> "sync", zone |-> z]]
  /\ UNCHANGED inside

\* rcuSynchronize returns and the mutex is unlocked.
SyncEnd(t) ==
  LET z == pc[t].zone IN
  /\ pc[t].at = "sync"
  /\ waiting[z][t] = {}
  /\ syncing' = [syncing EXCEPT ![z] = {}]
  /\ pc' = [pc EXCEPT ![t] = Running]
  /\ UNCHANGED <<inside, waiting>>

Synchronize(t) == SyncStart(t) \/ SyncEnd(t)

Next ==
  \E t \in Threads :
    \/ \E z \in Zones : ReadLock(t, z) \/ ReadUnlock(t, z) \/ LockWriters(t, z)
    \/ Synchronize(t)

Spec == Init /\ [][Next]_vars

(***************************************************************************)
(* A mutex is fair to those who wait for it, a writer with nobody to wait  *)
(* for returns, and a section ends: a thread that is in it makes finitely  *)
(* many calls before it unlocks, so that, able to unlock again and again,  *)
(* it does.  Nobody has to lock or to synchronize.                         *)
(***************************************************************************)
Fairness ==
  /\ \A t \in Threads : SF_vars(SyncStart(t)) /\ WF_vars(SyncEnd(t))
  /\ \A t \in Threads, z \in Zones : SF_vars(ReadUnlock(t, z))

FairSpec == Spec /\ Fairness

-----------------------------------------------------------------------------

\* Whom t waits for: the writer that has the mutex, or readers.
WaitsFor(t) ==
  CASE pc[t].at = "lock" -> syncing[pc[t].zone]
    [] pc[t].at = "sync" -> waiting[pc[t].zone][t]
    [] OTHER -> {}

(***************************************************************************)
(* "It might trigger a deadlock" (RCUApi.h:16), but not under the order:   *)
(* no threads, however many, are all waiting for one another in sections,  *)
(* mutexes and calls of rcuSynchronize of different zones.                 *)
(***************************************************************************)
NoDeadlock ==
  \A S \in (SUBSET Threads) \ {{}} : \E t \in S : WaitsFor(t) \cap S = {}

(***************************************************************************)
(* Every call of rcuSynchronize returns, although it waits for readers     *)
(* that may themselves wait in other zones.                                *)
(***************************************************************************)
SyncReturns == \A t \in Threads : pc[t].at # "run" ~> pc[t].at = "run"
=============================================================================
