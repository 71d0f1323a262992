------------------------------ MODULE RTableMap ------------------------------
(***************************************************************************)
(* What a relativistic hash table promises its users (RCUHashTableCoreApi.h*)
(* and RCUHashTableApi.h), without buckets, chains, resizing or epochs: a  *)
(* set of nodes with distinct keys, which one writer changes while readers *)
(* look keys up inside sections.                                           *)
(*                                                                         *)
(* A lookup may answer with anything that was right at some moment while   *)
(* it ran.  A node that a writer detached comes back to its owner only     *)
(* when no reader holds it and no lookup under way can still answer it.    *)
(***************************************************************************)

CONSTANTS
  Readers,
  Nodes,   \* the RNodes of the user
  Keys,    \* what the user's predicates compare
  Key,     \* Key[n]: the key in node n
  NULL     \* nullptr

VARIABLES
  members,  \* the nodes in the table
  limbo,    \* detached nodes, not yet given back to their owner
  inside,   \* the readers in a section
  target,   \* the key a reader is looking up, or NULL
  answers,  \* what its lookup may answer
  held      \* the nodes its lookups of this section have returned

vars == <<members, limbo, inside, target, answers, held>>

\* The node with key k in the set S, whose keys are distinct.
NodeOf(S, k) ==
  IF \E n \in S : Key[n] = k THEN CHOOSE n \in S : Key[n] = k ELSE NULL

Init ==
  /\ members = {}
  /\ limbo = {}
  /\ inside = {}
  /\ target = [r \in Readers |-> NULL]
  /\ answers = [r \in Readers |-> {}]
  /\ held = [r \in Readers |-> {}]

\* Lookups under way may answer according to the new content, too.
Update(S) ==
  /\ members' = S
  /\ answers' = [r \in Readers |->
       IF target[r] = NULL THEN {} ELSE answers[r] \cup {NodeOf(S, target[r])}]
  /\ UNCHANGED <<inside, target, held>>

Insert(n) ==
  /\ n \notin members \cup limbo
  /\ NodeOf(members, Key[n]) = NULL
  /\ Update(members \cup {n})
  /\ UNCHANGED limbo

Detach(n) ==
  /\ n \in members
  /\ limbo' = limbo \cup {n}
  /\ Update(members \ {n})

GiveBack ==
  /\ \A r \in Readers : (held[r] \cup answers[r]) \cap limbo = {}
  /\ limbo' = {}
  /\ UNCHANGED <<members, inside, target, answers, held>>

Lock(r) ==
  /\ r \notin inside
  /\ inside' = inside \cup {r}
  /\ UNCHANGED <<members, limbo, target, answers, held>>

Unlock(r) ==
  /\ r \in inside
  /\ target[r] = NULL
  /\ inside' = inside \ {r}
  /\ held' = [held EXCEPT ![r] = {}]
  /\ UNCHANGED <<members, limbo, target, answers>>

FindStart(r, k) ==
  /\ r \in inside
  /\ target[r] = NULL
  /\ target' = [target EXCEPT ![r] = k]
  /\ answers' = [answers EXCEPT ![r] = {NodeOf(members, k)}]
  /\ UNCHANGED <<members, limbo, inside, held>>

FindEnd(r, a) ==
  /\ target[r] # NULL
  /\ a \in answers[r]
  /\ held' = [held EXCEPT ![r] = @ \cup ({a} \ {NULL})]
  /\ target' = [target EXCEPT ![r] = NULL]
  /\ answers' = [answers EXCEPT ![r] = {}]
  /\ UNCHANGED <<members, limbo, inside>>

Next ==
  \/ \E n \in Nodes : Insert(n) \/ Detach(n)
  \/ GiveBack
  \/ \E r \in Readers :
       \/ Lock(r) \/ Unlock(r)
       \/ \E k \in Keys : FindStart(r, k)
       \/ \E a \in Nodes \cup {NULL} : FindEnd(r, a)

Spec == Init /\ [][Next]_vars
=============================================================================
