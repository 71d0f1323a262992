------------------------------ MODULE RListWalk ------------------------------
(***************************************************************************)
(* What the RCU lists promise to readers that walk them while a writer     *)
(* changes them (RcuSinglyLinkedListApi.h:9-15, the reader loops of        *)
(* RCUTableTests.cpp), without pointers.                                   *)
(*                                                                         *)
(* A list is a sequence of nodes.  An operation that is not one store      *)
(* leaves its nodes unsettled for a while: a walk may meet them or not.    *)
(* A walk meets no node twice, none that was never in the list since its   *)
(* section began, and every node that was in the list, settled, all the    *)
(* time since the walk began; those it meets in order.                     *)
(***************************************************************************)
EXTENDS FiniteSets, SequencesExt

CONSTANTS
  Readers,
  Nodes

VARIABLES
  list,      \* the nodes linked in, in order
  unsettled, \* those of an operation that is under way
  limbo,     \* nodes taken out that their owner may not reuse yet
  walk       \* walk[r]: the section and the walk of reader r

vars == <<list, unsettled, limbo, walk>>

Linked == ToSet(list)
Settled == Linked \ unsettled

Directions == {"forward", "backward"}

\* dir: "out" of a section, "in" one, or walking; seen: the nodes met on
\* this walk; steady: those settled in the list ever since it began;
\* possible: those linked at some time since the section began.
Walks == [dir : {"out", "in"} \cup Directions, seen : SUBSET Nodes,
          steady : SUBSET Nodes, possible : SUBSET Nodes]

Outside == [dir |-> "out", seen |-> {}, steady |-> {}, possible |-> {}]
Entered == [dir |-> "in", seen |-> {}, steady |-> {}, possible |-> Linked]

TypeOK ==
  /\ list \in Seq(Nodes) /\ IsInjective(list)
  /\ unsettled \subseteq Linked
  /\ limbo \subseteq Nodes \ Linked
  /\ walk \in [Readers -> Walks]

Init ==
  /\ list = <<>>
  /\ unsettled = {}
  /\ limbo = {}
  /\ walk = [r \in Readers |-> Outside]

-----------------------------------------------------------------------------
(* Readers.                                                                 *)

Precedes(m, n) == \E i, j \in DOMAIN list : i < j /\ list[i] = m /\ list[j] = n

\* Is m before n on a walk in direction d?
IsBefore(m, n, d) == IF d = "backward" THEN Precedes(n, m) ELSE Precedes(m, n)

\* The next load of the walk w yields node n: of the nodes that the walk has
\* to meet, those before n have been met, and no others.
Meets(w, n) ==
  /\ n \in w.possible \ w.seen
  /\ n \in w.steady => \A m \in w.steady : m \in w.seen <=> IsBefore(m, n, w.dir)

Begun(w, d) == [w EXCEPT !.dir = d, !.seen = {}, !.steady = Settled]
Met(w, n) == [w EXCEPT !.seen = @ \cup {n}]
Ended(w) == [w EXCEPT !.dir = "in", !.seen = {}, !.steady = {}]

\* The walk w of r goes on by a load: of a node, or of the end.
Load(r, w) ==
  /\ \/ \E n \in w.possible : Meets(w, n) /\ walk' = [walk EXCEPT ![r] = Met(w, n)]
     \/ w.steady \subseteq w.seen /\ walk' = [walk EXCEPT ![r] = Ended(w)]
  /\ UNCHANGED <<list, unsettled, limbo>>

Enter(r) ==
  /\ walk[r].dir = "out"
  /\ walk' = [walk EXCEPT ![r] = Entered]
  /\ UNCHANGED <<list, unsettled, limbo>>

\* A walk may be given up for a new one, or for the end of the section.
Begin(r, d) == walk[r].dir # "out" /\ Load(r, Begun(walk[r], d))

Advance(r) == walk[r].dir \in Directions /\ Load(r, walk[r])

Leave(r) ==
  /\ walk[r].dir # "out"
  /\ walk' = [walk EXCEPT ![r] = Outside]
  /\ UNCHANGED <<list, unsettled, limbo>>

-----------------------------------------------------------------------------
(* The writer.                                                              *)

\* What the walks under way may or must meet, after this step.
Observe ==
  walk' = [r \in Readers |->
    IF walk[r].dir = "out" THEN Outside
    ELSE [walk[r] EXCEPT !.possible = @ \cup Linked',
            !.steady = @ \cap Settled']]

\* The list becomes one of the nodes of S, the old ones in their old order.
Relist(S) ==
  /\ list' \in Seq(Nodes) /\ IsInjective(list') /\ ToSet(list') = S
  /\ \A m, n \in Linked \cap S : Precedes(m, n) <=> Precedes(m, n)'

Insert(n) ==
  /\ unsettled = {}
  /\ n \notin Linked \cup limbo
  /\ Relist(Linked \cup {n})
  /\ unsettled' \in {{}, {n}}
  /\ UNCHANGED limbo

Without(S) ==
  /\ Relist(Linked \ S)
  /\ limbo' = limbo \cup S
  /\ unsettled' = {}

\* One node is taken out, or all of them.
TakeOut ==
  /\ unsettled = {}
  /\ \E S \in {{n} : n \in Linked} \cup {Linked} :
       \/ Without(S)
       \/ unsettled' = S /\ UNCHANGED <<list, limbo>>

Settle ==
  \/ unsettled' = {} /\ UNCHANGED <<list, limbo>>
  \/ Without(unsettled)

Write == Observe /\ ((\E n \in Nodes : Insert(n)) \/ TakeOut \/ Settle)

\* Nodes are reused only when no section can hold them.
GiveBack ==
  /\ \E S \in SUBSET limbo :
       /\ \A r \in Readers : walk[r].possible \cap S = {}
       /\ limbo' = limbo \ S
  /\ UNCHANGED <<list, unsettled, walk>>

Next ==
  \/ \E r \in Readers : Enter(r) \/ Advance(r) \/ Leave(r)
  \/ \E r \in Readers, d \in Directions : Begin(r, d)
  \/ Write
  \/ GiveBack

Spec == Init /\ [][Next]_vars
=============================================================================
