------------------------------- MODULE RcuSlist -------------------------------
(***************************************************************************)
(* The singly linked list (RcuSinglyLinkedListApi.h): one writer at a time *)
(* and readers that walk without locks.  Every load of a reader and every  *)
(* store of the writer is an action; the loops in which the writer looks   *)
(* for a place run while nothing else can change the list, and are folded  *)
(* into the first store.  Removed nodes are given back after a grace       *)
(* period of a zone, RCUGracePeriod (lines 9-15 and 126-128 of the API).   *)
(***************************************************************************)
EXTENDS FiniteSets, SequencesExt

CONSTANTS
  Readers,
  writer,  \* the thread that holds the users' writer lock
  Nodes,   \* the users' RcuSlistHeads
  Keys,    \* what the users' predicates compare
  Key,     \* Key[n]: the key in the element around node n
  head,    \* the list's own RcuSlistHead
  NULL

ASSUME SlistAssumption ==
  /\ Key \in [Nodes -> Keys]
  /\ IsFiniteSet(Nodes)
  /\ head \notin Nodes /\ NULL \notin Nodes \cup {head}

VARIABLES
  next,    \* RcuSlistHead::next
  limbo,   \* nodes unlinked that may not be reused yet
  wpc,     \* what the writer is about to do
  at,      \* writer local: the node to link behind
  newElem, \* writer local: the node to link
  inside,  \* the zone: readers in a section
  syncing, \* the zone: the writer, while in rcuSynchronize
  waiting, \* the zone: the sections rcuSynchronize waits for
  pos,     \* reader local: the node it has reached, NULL if none
  walk     \* history of the readers' walks, see RListWalk

Zone == INSTANCE RCUGracePeriod WITH Writers <- {writer}

listVars == <<next, limbo>>
writerVars == <<wpc, at, newElem>>
zoneVars == <<inside, syncing, waiting>>
readerVars == <<pos, walk>>
vars == <<listVars, writerVars, zoneVars, readerVars>>

\* The nodes linked behind p, in order.
Behind(p) ==
  LET from[i \in 0 .. Cardinality(Nodes) + 1] ==
        IF i = 0 THEN p ELSE IF from[i - 1] = NULL THEN NULL ELSE next[from[i - 1]]
      length == Cardinality({i \in DOMAIN from : i > 0 /\ from[i] # NULL})
  IN  [i \in 1 .. length |-> from[i]]

Content == Behind(head)

Linked == ToSet(Content)

\* The list as its readers see it.
Walk == INSTANCE RListWalk WITH list <- Content, unsettled <- {}

Inserting == {"insertAfter", "appendToTail", "prependIfNoMatch", "appendIfNoMatch"}

TypeOK ==
  /\ next \in [Nodes \cup {head} -> Nodes \cup {NULL}]
  /\ wpc \in {"idle", "sync", "free"} \cup Inserting
  /\ at \in Nodes \cup {head, NULL}
  /\ newElem \in Nodes \cup {NULL}
  /\ Zone!TypeOK
  /\ pos \in [Readers -> Nodes \cup {NULL}]
  /\ Walk!TypeOK

\* rcuSlistInit
Init ==
  /\ next = [n \in Nodes \cup {head} |-> NULL]
  /\ limbo = {}
  /\ wpc = "idle"
  /\ at = NULL
  /\ newElem = NULL
  /\ Zone!Init
  /\ pos = [r \in Readers |-> NULL]
  /\ walk = [r \in Readers |-> Walk!Outside]

-----------------------------------------------------------------------------
(* Readers.                                                                 *)

ReadLock(r) ==
  /\ Zone!ReadLock(r)
  /\ walk' = [walk EXCEPT ![r] = Walk!Entered]
  /\ UNCHANGED <<listVars, writerVars, pos>>

ReadUnlock(r) ==
  /\ Zone!ReadUnlock(r)
  /\ pos' = [pos EXCEPT ![r] = NULL]
  /\ walk' = [walk EXCEPT ![r] = Walk!Outside]
  /\ UNCHANGED <<listVars, writerVars>>

\* A load of p->next on the walk w.
Load(r, p, w) ==
  /\ pos' = [pos EXCEPT ![r] = next[p]]
  /\ walk' = [walk EXCEPT ![r] =
       IF next[p] = NULL THEN Walk!Ended(w) ELSE Walk!Met(w, next[p])]
  /\ UNCHANGED <<listVars, writerVars, zoneVars>>

\* rcuSlistFindIf, and rcuSlistEmpty, load the head.
FindFirst(r) ==
  /\ r \in inside
  /\ Load(r, head, Walk!Begun(walk[r], "forward"))

\* The predicate was false: the walk goes on.  (It was true: the reader
\* keeps pos until it searches again or unlocks.)
FindNext(r) ==
  /\ pos[r] # NULL
  /\ Load(r, pos[r], walk[r])

-----------------------------------------------------------------------------
(* The writer.                                                              *)

Fresh == Nodes \ (Linked \cup limbo)

LastBehind(p) == IF Behind(p) = <<>> THEN p ELSE Behind(p)[Len(Behind(p))]

Matches(S, n) == \E m \in S : Key[m] = Key[n]

\* Mutant: the element is not linked up before it is published.
MutantNotPrepared(op, p, n) ==
  /\ wpc = "idle" /\ wpc' = op
  /\ at' = p
  /\ newElem' = n
  /\ UNCHANGED <<next, limbo, zoneVars, readerVars>>

\* The first store of an insertion of n behind p.
Prepare(op, p, n) ==
  /\ wpc = "idle" /\ wpc' = op
  /\ at' = p
  /\ newElem' = n
  /\ next' = [next EXCEPT ![n] = next[p]]
  /\ UNCHANGED <<limbo, zoneVars, pos>>
  /\ Walk!Observe

rcuSlistInsertAfter(p, n) == Prepare("insertAfter", p, n)

rcuSlistAppendToTail(p, n) == Prepare("appendToTail", LastBehind(p), n)

rcuSlistPrependIfNoMatch(n) ==
  /\ ~ Matches(Linked, n)
  /\ Prepare("prependIfNoMatch", head, n)

\* The predicate is applied to the list's own head, around which there is no
\* element, and to every node but the last: what it answers for the head,
\* asked only when the list is not empty, may be anything, and FALSE lets
\* the call go on.
rcuSlistAppendIfNoMatch(n) ==
  /\ ~ Matches(Linked \ {LastBehind(head)}, n)
  /\ Prepare("appendIfNoMatch", LastBehind(head), n)

\* The second store of an insertion.
Publish ==
  /\ wpc \in Inserting /\ wpc' = "idle"
  /\ next' = [next EXCEPT ![at] = newElem]
  /\ at' = NULL
  /\ newElem' = NULL
  /\ UNCHANGED <<limbo, zoneVars, pos>>
  /\ Walk!Observe

\* The store that unlinks the nodes of S: p->next becomes n.
Unlink(p, n, S) ==
  /\ wpc = "idle"
  /\ next' = [next EXCEPT ![p] = n]
  /\ limbo' = limbo \cup S
  /\ UNCHANGED <<writerVars, zoneVars, pos>>
  /\ Walk!Observe

Before(n) == CHOOSE p \in Linked \cup {head} : next[p] = n

\* Mutant: the predecessor is made to point to the node, not past it.
MutantRemoveKeeps(n) == n \in Linked /\ Unlink(Before(n), n, {n})

rcuSlistRemove(n) == n \in Linked /\ Unlink(Before(n), next[n], {n})

rcuSlistRemoveIf(k) ==
  LET i == SelectInSeq(Content, LAMBDA n : Key[n] = k)
  IN  i # 0 /\ rcuSlistRemove(Content[i])

rcuSlistReset == Linked # {} /\ Unlink(head, NULL, Linked)

\* Mutant of SyncStart: the nodes are given back without waiting.
MutantNoSync ==
  /\ wpc = "idle" /\ wpc' = "free"
  /\ limbo # {}
  /\ UNCHANGED <<listVars, at, newElem, zoneVars, readerVars>>

\* The owner of removed nodes waits for the readers ...
SyncStart ==
  /\ wpc = "idle" /\ wpc' = "sync"
  /\ limbo # {}
  /\ Zone!SyncStart(writer)
  /\ UNCHANGED <<listVars, at, newElem, readerVars>>

SyncEnd ==
  /\ wpc = "sync" /\ wpc' = "free"
  /\ Zone!SyncEnd(writer)
  /\ UNCHANGED <<listVars, at, newElem, readerVars>>

\* ... and may then use them for something else.
GiveBack ==
  /\ wpc = "free" /\ wpc' = "idle"
  /\ limbo' = {}
  /\ next' = [p \in DOMAIN next |-> IF p \in limbo THEN NULL ELSE next[p]]
  /\ UNCHANGED <<at, newElem, zoneVars, readerVars>>

Insertion ==
  \E n \in Fresh :
    \/ \E p \in Linked \cup {head} : rcuSlistInsertAfter(p, n)
    \/ \E p \in Linked \cup {head} : rcuSlistAppendToTail(p, n)
    \/ rcuSlistPrependIfNoMatch(n)
    \/ rcuSlistAppendIfNoMatch(n)

Removal ==
  \/ \E n \in Nodes : rcuSlistRemove(n)
  \/ \E k \in Keys : rcuSlistRemoveIf(k)
  \/ rcuSlistReset

Writer == Insertion \/ Publish \/ Removal \/ SyncStart \/ SyncEnd \/ GiveBack

Reader(r) == ReadLock(r) \/ FindFirst(r) \/ FindNext(r) \/ ReadUnlock(r)

Next == Writer \/ \E r \in Readers : Reader(r)

Spec == Init /\ [][Next]_vars

-----------------------------------------------------------------------------
(***************************************************************************)
(* The promise to readers: a walk of rcuSlistFindIf meets every node that  *)
(* stays in the list, once and in order, whatever the writer does to the   *)
(* nodes around it, and a node is reused only when no section can hold it. *)
(***************************************************************************)
ImplementsWalk == Walk!Spec

(***************************************************************************)
(* A reader never stands on a node that has been given back (API lines     *)
(* 12-15): removed nodes still lead back into the list, and the owner      *)
(* waits for the readers.                                                  *)
(***************************************************************************)
NoUseAfterFree ==
  \A r \in Readers : pos[r] # NULL => pos[r] \in Linked \cup limbo

(***************************************************************************)
(* "Append the element to the end of the list, if the element is not found *)
(* from list" (RcuSinglyLinkedListApi.h:89).                               *)
(***************************************************************************)
AppendsIfNotFound ==
  [][wpc = "appendIfNoMatch" /\ wpc' = "idle" => ~ Matches(Linked, newElem)]_vars

=============================================================================
