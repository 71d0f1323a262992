------------------------------- MODULE RcuDlist -------------------------------
(***************************************************************************)
(* The doubly linked list (RcuDoublyLinkedListApi.h): one writer at a time,*)
(* and readers that walk forward or backward without locks.  An insertion  *)
(* is four stores and a removal two, so that for a while the two chains    *)
(* of a list differ; every store is an action, and every load of a reader. *)
(* The writer may go through the list with a safe iterator, and remove and *)
(* reuse the node it stands on.  Nodes are reused after a grace period of  *)
(* a zone, RCUGracePeriod.                                                 *)
(***************************************************************************)
EXTENDS FiniteSets, SequencesExt

CONSTANTS
  Readers,
  writer,  \* the thread that holds the users' writer lock
  Nodes,   \* the users' RcuDlistHeads
  head,    \* the list's own RcuDlistHead
  NULL     \* what the links of a node not in use may hold

ASSUME DlistAssumption ==
  /\ IsFiniteSet(Nodes)
  /\ head \notin Nodes /\ NULL \notin Nodes \cup {head}

VARIABLES
  link,     \* link.forward is RcuDlistHead::next, link.backward is prev
  limbo,    \* nodes unlinked that may not be reused yet
  wpc,      \* the store that the writer is about to make
  prevElem, \* writer local: argument of the AddBetween or RemoveBetween
  nextElem, \* writer local: the other one
  newElem,  \* writer local: the node to link
  it,       \* writer local: the safe iterator
  due,      \* history: what the safe iterator has still to meet
  inside,   \* the zone: readers in a section
  syncing,  \* the zone: the writer, while in rcuSynchronize
  waiting,  \* the zone: the sections rcuSynchronize waits for
  pos,      \* reader local: the node it has reached, NULL if none
  walk      \* the type of its iterator, and history: see RListWalk

Zone == INSTANCE RCUGracePeriod WITH Writers <- {writer}

listVars == <<link, limbo>>
locals == <<prevElem, nextElem, newElem>>
iterVars == <<it, due>>
zoneVars == <<inside, syncing, waiting>>
readerVars == <<pos, walk>>
vars == <<listVars, wpc, locals, iterVars, zoneVars, readerVars>>

Directions == {"forward", "backward"}

\* The nodes that a walk in direction d meets if nothing changes.
Chain(d) ==
  LET at[i \in 0 .. Cardinality(Nodes) + 1] ==
        IF i = 0 THEN link[d][head]
        ELSE IF at[i - 1] \in Nodes THEN link[d][at[i - 1]] ELSE NULL
      length == Cardinality({i \in DOMAIN at : at[i] \in Nodes})
  IN  [i \in 1 .. length |-> at[i - 1]]

\* The list: while an operation is under way, with the nodes that only one
\* of the chains still or already holds.
Content ==
  IF Len(Chain("forward")) >= Len(Chain("backward"))
  THEN Chain("forward") ELSE Reverse(Chain("backward"))

Linked == ToSet(Content)

Unsettled == Linked \ (ToSet(Chain("forward")) \cap ToSet(Chain("backward")))

Walk == INSTANCE RListWalk WITH list <- Content, unsettled <- Unsettled

\* No iteration under way.
NoIter == [dir |-> "none", pos |-> NULL, ahead |-> NULL, gone |-> FALSE]

TypeOK ==
  /\ link \in [Directions -> [Nodes \cup {head} -> Nodes \cup {head, NULL}]]
  /\ \A d \in Directions : link[d][head] # NULL
  /\ wpc \in {"idle", "sync", "free", "newPrev", "prevNext", "nextPrev"}
               \cup {"removePrev", "resetNext"}
  /\ {prevElem, nextElem} \subseteq Nodes \cup {head, NULL}
  /\ newElem \in Nodes \cup {NULL}
  /\ it.dir \in Directions \cup {"none"}
  /\ {it.pos, it.ahead} \subseteq Nodes \cup {head, NULL}
  /\ it.gone \in BOOLEAN
  /\ due \subseteq Nodes
  /\ Zone!TypeOK
  /\ pos \in [Readers -> Nodes \cup {NULL}]
  /\ Walk!TypeOK

\* rcuDlistInit
Init ==
  /\ link = [d \in Directions |->
       [n \in Nodes \cup {head} |-> IF n = head THEN head ELSE NULL]]
  /\ limbo = {}
  /\ wpc = "idle"
  /\ prevElem = NULL /\ nextElem = NULL /\ newElem = NULL
  /\ it = NoIter
  /\ due = {}
  /\ Zone!Init
  /\ pos = [r \in Readers |-> NULL]
  /\ walk = [r \in Readers |-> Walk!Outside]

-----------------------------------------------------------------------------
(* Readers.                                                                 *)

ReaderStep == UNCHANGED <<listVars, wpc, locals, iterVars>>

ReadLock(r) ==
  /\ Zone!ReadLock(r)
  /\ walk' = [walk EXCEPT ![r] = Walk!Entered]
  /\ ReaderStep /\ UNCHANGED pos

ReadUnlock(r) ==
  /\ Zone!ReadUnlock(r)
  /\ pos' = [pos EXCEPT ![r] = NULL]
  /\ walk' = [walk EXCEPT ![r] = Walk!Outside]
  /\ ReaderStep

\* A load of next or prev of p on the walk w; the end is the list's head.
Load(r, p, w) ==
  LET n == link[w.dir][p]
  IN  /\ pos' = [pos EXCEPT ![r] = IF n = head THEN NULL ELSE n]
      /\ walk' = [walk EXCEPT ![r] =
           IF n = head THEN Walk!Ended(w) ELSE Walk!Met(w, n)]
      /\ ReaderStep /\ UNCHANGED zoneVars

\* rcuDlistBegin, rcuDlistRBegin; rcuDlistEmpty makes the same load.
Begin(r, d) ==
  /\ r \in inside
  /\ Load(r, head, Walk!Begun(walk[r], d))

\* rcuDlistAdvance, rcuDlistRAdvance
Advance(r) ==
  /\ pos[r] # NULL
  /\ Load(r, pos[r], walk[r])

-----------------------------------------------------------------------------
(* The writer's stores.                                                     *)

Store(from, to, d, p, n) ==
  /\ wpc = from /\ wpc' = to
  /\ link' = [link EXCEPT ![d][p] = n]
  /\ UNCHANGED <<zoneVars, pos>>
  /\ Walk!Observe

Arguments(p, q, n) == prevElem' = p /\ nextElem' = q /\ newElem' = n

\* Mutant of AddBetween: links the element back where it should lead on.
MutantNextIsPrev(p, q, n) ==
  /\ n \notin Linked \cup limbo
  /\ Store("idle", "newPrev", "forward", n, p)
  /\ Arguments(p, q, n)
  /\ UNCHANGED <<limbo, iterVars>>

\* rcuDlistAddBetween, first store: newElem->next
AddBetween(p, q, n) ==
  /\ n \notin Linked \cup limbo
  /\ Store("idle", "newPrev", "forward", n, q)
  /\ Arguments(p, q, n)
  /\ UNCHANGED <<limbo, iterVars>>

StoreNewPrev ==
  /\ Store("newPrev", "prevNext", "backward", newElem, prevElem)
  /\ UNCHANGED <<limbo, locals, iterVars>>

StorePrevNext ==
  /\ Store("prevNext", "nextPrev", "forward", prevElem, newElem)
  /\ UNCHANGED <<limbo, locals, iterVars>>

StoreNextPrev ==
  /\ Store("nextPrev", "idle", "backward", nextElem, newElem)
  /\ Arguments(NULL, NULL, NULL)
  /\ UNCHANGED <<limbo, iterVars>>

rcuDlistInsertAfter(p, n) == AddBetween(p, link.forward[p], n)
rcuDlistInsertBefore(p, n) == AddBetween(link.backward[p], p, n)
rcuDlistAppend(n) == rcuDlistInsertBefore(head, n)
rcuDlistPrepend(n) == rcuDlistInsertAfter(head, n)

\* rcuDlistRemoveBetween, first store: prev->next
RemoveBetween(p, q) ==
  /\ Store("idle", "removePrev", "forward", p, q)
  /\ Arguments(p, q, NULL)
  /\ UNCHANGED limbo

\* What a store of the writer takes out of the list for good.
TakenOut == limbo' = limbo \cup (Linked \ Linked')

\* Mutant of StoreRemovePrev: it makes the same store as the one before.
MutantRemoveNext ==
  /\ Store("removePrev", "idle", "forward", prevElem, nextElem)
  /\ Arguments(NULL, NULL, NULL)
  /\ TakenOut
  /\ UNCHANGED iterVars

StoreRemovePrev ==
  /\ Store("removePrev", "idle", "backward", nextElem, prevElem)
  /\ Arguments(NULL, NULL, NULL)
  /\ TakenOut
  /\ UNCHANGED iterVars

\* The list may not lose the node that a safe iterator goes to next.
rcuDlistRemove(n) ==
  /\ n \in Linked /\ n # it.ahead
  /\ RemoveBetween(link.backward[n], link.forward[n])
  /\ it' = IF n = it.pos THEN [it EXCEPT !.gone = TRUE] ELSE it
  /\ due' = due \ {n}

\* Mutant of RestNext: ends the list with nullptr, as rcuSlistReset does.
MutantRestNull ==
  /\ Store("resetNext", "idle", "forward", head, NULL)
  /\ TakenOut
  /\ UNCHANGED <<locals, iterVars>>

\* rcuDlistRest: head->prev, then head->next
Rest ==
  /\ Linked # {} /\ it = NoIter
  /\ Store("idle", "resetNext", "backward", head, head)
  /\ UNCHANGED <<limbo, locals, iterVars>>

RestNext ==
  /\ Store("resetNext", "idle", "forward", head, head)
  /\ TakenOut
  /\ UNCHANGED <<locals, iterVars>>

-----------------------------------------------------------------------------
(* The writer's safe iterators.                                             *)

IterStep ==
  /\ wpc = "idle"
  /\ UNCHANGED <<listVars, wpc, locals, zoneVars, readerVars>>

\* The iterator stands on p, and has to meet the other nodes of expected.
Stand(d, p, ahead, expected) ==
  /\ it' = [dir |-> d, pos |-> p, ahead |-> ahead, gone |-> FALSE]
  /\ due' = expected \ {p}

\* rcuDlistSafeBegin, rcuDlistSafeRBegin
SafeBegin(d) ==
  /\ IterStep
  /\ it = NoIter
  /\ Stand(d, link[d][head], link[d][link[d][head]], Linked)

\* Mutant of SafeAdvance: follows the node it stands on, as Advance does.
MutantAdvanceFromPos ==
  /\ IterStep
  /\ it.pos \in Nodes
  /\ LET p == link[it.dir][it.pos]
     IN  p # NULL /\ Stand(it.dir, p, link[it.dir][p], due)

\* rcuDlistSafeAdvance, rcuDlistSafeRAdvance
SafeAdvance ==
  /\ IterStep
  /\ it.pos \in Nodes
  /\ Stand(it.dir, it.ahead, link[it.dir][it.ahead], due)

\* rcuDlistSafeRemoveIt, rcuDlistSafeRRemoveIt: at most once per position.
SafeRemoveIt ==
  /\ it.pos \in Nodes /\ ~ it.gone
  /\ rcuDlistRemove(it.pos)

\* rcuDlistSafeIsEnd, rcuDlistSafeRIsEnd, or the caller breaks the loop.
SafeEnd ==
  /\ IterStep
  /\ it # NoIter
  /\ it' = NoIter
  /\ due' = {}

-----------------------------------------------------------------------------
(* The owner of removed nodes.                                              *)

OwnerStep(from, to) ==
  /\ wpc = from /\ wpc' = to
  /\ UNCHANGED <<locals, iterVars, readerVars>>

\* Mutant of SyncStart: the nodes are given back without waiting.
MutantNoSync ==
  /\ limbo # {}
  /\ OwnerStep("idle", "free")
  /\ UNCHANGED <<listVars, zoneVars>>

SyncStart ==
  /\ limbo # {}
  /\ OwnerStep("idle", "sync")
  /\ Zone!SyncStart(writer)
  /\ UNCHANGED listVars

SyncEnd ==
  /\ OwnerStep("sync", "free")
  /\ Zone!SyncEnd(writer)
  /\ UNCHANGED listVars

GiveBack ==
  /\ OwnerStep("free", "idle")
  /\ limbo' = {}
  /\ link' = [d \in Directions |->
       [p \in DOMAIN link[d] |-> IF p \in limbo THEN NULL ELSE link[d][p]]]
  /\ UNCHANGED zoneVars

-----------------------------------------------------------------------------

Insertion ==
  \E n \in Nodes :
    \/ \E p \in Linked : rcuDlistInsertAfter(p, n) \/ rcuDlistInsertBefore(p, n)
    \/ rcuDlistAppend(n)
    \/ rcuDlistPrepend(n)

Stores ==
  \/ StoreNewPrev \/ StorePrevNext \/ StoreNextPrev
  \/ StoreRemovePrev
  \/ RestNext

\* for (it = rcuDlistSafeBegin; ! rcuDlistSafeIsEnd; rcuDlistSafeAdvance)
SafeIteration ==
  \/ \E d \in Directions : SafeBegin(d)
  \/ SafeAdvance
  \/ SafeRemoveIt
  \/ SafeEnd

Writer ==
  \/ Insertion
  \/ \E n \in Nodes : rcuDlistRemove(n)
  \/ Rest
  \/ Stores
  \/ SafeIteration
  \/ SyncStart \/ SyncEnd \/ GiveBack

Reader(r) ==
  \/ ReadLock(r)
  \/ \E d \in Directions : Begin(r, d)
  \/ Advance(r)
  \/ ReadUnlock(r)

Next == Writer \/ \E r \in Readers : Reader(r)

Spec == Init /\ [][Next]_vars

-----------------------------------------------------------------------------
(***************************************************************************)
(* The promise to readers in either direction: a walk meets every node     *)
(* that stays in the list, once and in order, although the two chains      *)
(* differ between the stores of rcuDlistAddBetween, rcuDlistRemoveBetween  *)
(* and rcuDlistRest; a node is reused only when no section can hold it.    *)
(***************************************************************************)
ImplementsWalk == Walk!Spec

(***************************************************************************)
(* A reader never stands on a node that has been given back: a removed     *)
(* node still leads back into the list in both directions.                 *)
(***************************************************************************)
NoUseAfterFree ==
  \A r \in Readers : pos[r] # NULL => pos[r] \in Linked \cup limbo

(***************************************************************************)
(* Between two operations of the writer a walk backward meets what a walk  *)
(* forward meets, in reverse.                                              *)
(***************************************************************************)
ChainsMirror ==
  wpc \in {"idle", "sync", "free"} =>
    Chain("backward") = Reverse(Chain("forward"))

\* The nodes that a walk in direction d meets from p on.
From(d, p) ==
  {n \in Nodes : \E i, j \in DOMAIN Chain(d) :
     i <= j /\ Chain(d)[i] = p /\ Chain(d)[j] = n}

(***************************************************************************)
(* rcuDlistSafeAdvance never goes to a node that left the list, although   *)
(* the node it comes from has been removed, given back and perhaps linked  *)
(* in elsewhere; every node that was in the list from the begin of the     *)
(* loop and was not removed is still ahead of the iterator until it has    *)
(* been met, so that they are met in order and none is left at the end     *)
(* (clearAndVerify, RCUTableTests.cpp:29, empties the list).               *)
(***************************************************************************)
SafeIterationMeetsAll ==
  it # NoIter =>
    /\ it.ahead \in Linked \cup {head}
    /\ due \subseteq From(it.dir, it.ahead)

=============================================================================
