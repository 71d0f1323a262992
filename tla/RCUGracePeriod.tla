--------------------------- MODULE RCUGracePeriod ---------------------------
(***************************************************************************)
(* What an RCU zone promises (RCUApi.h: rcuReadLock, rcuReadUnlock,        *)
(* rcuSynchronize), without epochs, counters or buckets.  A reader is      *)
(* either inside a critical section or not.  A call of rcuSynchronize      *)
(* notes who is inside when it takes effect and may return only once all   *)
(* of those sections have ended; sections entered later do not matter.     *)
(***************************************************************************)

CONSTANTS
  Readers,  \* threads that enter read-side critical sections
  Writers   \* threads that call rcuSynchronize

VARIABLES
  inside,   \* the readers in a critical section
  syncing,  \* the writers inside rcuSynchronize
  waiting   \* waiting[w]: sections that w must still see end

vars == <<inside, syncing, waiting>>

TypeOK ==
  /\ inside \subseteq Readers
  /\ syncing \subseteq Writers
  /\ waiting \in [Writers -> SUBSET Readers]

Init ==
  /\ inside = {}
  /\ syncing = {}
  /\ waiting = [w \in Writers |-> {}]

ReadLock(r) ==
  /\ r \notin inside
  /\ inside' = inside \cup {r}
  /\ UNCHANGED <<syncing, waiting>>

ReadUnlock(r) ==
  /\ r \in inside
  /\ inside' = inside \ {r}
  /\ waiting' = [w \in Writers |-> waiting[w] \ {r}]
  /\ UNCHANGED syncing

SyncStart(w) ==
  /\ w \notin syncing
  /\ syncing' = syncing \cup {w}
  /\ waiting' = [waiting EXCEPT ![w] = inside]
  /\ UNCHANGED inside

SyncEnd(w) ==
  /\ w \in syncing
  /\ waiting[w] = {}
  /\ syncing' = syncing \ {w}
  /\ UNCHANGED <<inside, waiting>>

Next ==
  \/ \E r \in Readers : ReadLock(r) \/ ReadUnlock(r)
  \/ \E w \in Writers : SyncStart(w) \/ SyncEnd(w)

Spec == Init /\ [][Next]_vars

(***************************************************************************)
(* A section that is entered is left, and a writer with nobody to wait for *)
(* returns.                                                                *)
(***************************************************************************)
Fairness ==
  /\ \A r \in Readers : WF_vars(ReadUnlock(r))
  /\ \A w \in Writers : WF_vars(SyncEnd(w))

FairSpec == Spec /\ Fairness
=============================================================================
