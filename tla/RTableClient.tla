----------------------------- MODULE RTableClient -----------------------------
(***************************************************************************)
(* How programs use the table: the stress test (RCUTableTests.cpp 326-458) *)
(* and the quick example (main.cpp 18-97).  A writer inserts items, then   *)
(* erases and puts back all but the persistent ones, round after round;    *)
(* readers look items up, one per section.  An item is `valid` while it    *)
(* may be found: the writer writes to it when the table has given it back. *)
(*                                                                         *)
(* The table is RTableMap, which RTable implements: one action where the   *)
(* result of a call takes effect.  Items are 1, 2, ... in their vector.    *)
(***************************************************************************)
EXTENDS Naturals

CONSTANTS
  Readers,
  sizeTotal,   \* items
  sizePersist  \* the first so many are never erased

ASSUME ClientAssumption ==
  /\ sizePersist \in Nat
  /\ sizeTotal \in Nat /\ sizePersist < sizeTotal

Items == 1 .. sizeTotal
Persistent == 1 .. sizePersist
NoItem == 0

VARIABLES
  members, limbo, inside, target, answers, held, \* the table, see RTableMap
  rpc,    \* where each reader is in its loop
  wpc,    \* where the writer is in its loops
  i,      \* writer local: the item the loop is at
  valid   \* valid[n]: member of the user's item n

tableVars == <<members, limbo, inside, target, answers, held>>
vars == <<tableVars, rpc, wpc, i, valid>>

Table == INSTANCE RTableMap WITH
  Nodes <- Items, Keys <- Items, Key <- [n \in Items |-> n], NULL <- NoItem

TypeOK ==
  /\ members \subseteq Items
  /\ limbo \subseteq Items \ members
  /\ inside = {r \in Readers : rpc[r] # "out"}
  /\ \A r \in Readers : target[r] # NoItem <=> rpc[r] = "finding"
  /\ rpc \in [Readers -> {"out", "locked", "finding", "found"}]
  /\ wpc \in {"set", "insert", "detach", "synchronize", "invalidate"}
  /\ i \in Items
  /\ valid \in [Items -> BOOLEAN]

Init ==
  /\ Table!Init
  /\ rpc = [r \in Readers |-> "out"]
  /\ wpc = "set"
  /\ i = 1
  /\ valid = [n \in Items |-> FALSE]

-----------------------------------------------------------------------------
(* The writer.                                                              *)

Writer(from, to) ==
  /\ wpc = from
  /\ wpc' = to
  /\ UNCHANGED rpc

\* Mutant: the loops run one item too far.
MutantOneMore == i = sizeTotal + 1

AtLast == i = sizeTotal

\* Mutant: the loop that erases begins at the last persistent item.
MutantFromPersistent == sizePersist

\* The loops that erase and that put back begin behind the persistent items.
firstErased == sizePersist + 1

\* A loop goes on with the next item, or the next loop begins.
Loop(from, again, nextLoop) ==
  /\ Writer(from, IF AtLast THEN nextLoop ELSE again)
  /\ i' = IF AtLast THEN firstErased ELSE i + 1

SetValid ==
  /\ Writer("set", "insert")
  /\ valid' = [valid EXCEPT ![i] = TRUE]
  /\ UNCHANGED <<tableVars, i>>

TryInsert ==
  /\ Loop("insert", "set", "detach")
  /\ Table!Insert(i)
  /\ UNCHANGED valid

\* rTableTryDetachAndSynchronize: first the node is unlinked ...
TryDetach ==
  /\ Writer("detach", "synchronize")
  /\ Table!Detach(i)
  /\ UNCHANGED <<i, valid>>

\* Mutant: rTableTryDetachNoShrink instead.
MutantNotSynchronized ==
  /\ Writer("synchronize", "invalidate")
  /\ UNCHANGED <<tableVars, i, valid>>

\* ... then the call returns, when nobody can reach it any more.
Synchronized ==
  /\ Writer("synchronize", "invalidate")
  /\ Table!GiveBack
  /\ UNCHANGED <<i, valid>>

Invalidate ==
  /\ Loop("invalidate", "detach", "set")
  /\ valid' = [valid EXCEPT ![i] = FALSE]
  /\ UNCHANGED tableVars

Write == SetValid \/ TryInsert \/ TryDetach \/ Synchronized \/ Invalidate

-----------------------------------------------------------------------------
(* Readers.  They are launched when the persistent items are in the table.  *)

Reader(r, from, to) ==
  /\ rpc[r] = from
  /\ rpc' = [rpc EXCEPT ![r] = to]
  /\ UNCHANGED <<wpc, i, valid>>

ReadLock(r) ==
  /\ i > sizePersist
  /\ Reader(r, "out", "locked")
  /\ Table!Lock(r)

FindStart(r) ==
  /\ Reader(r, "locked", "finding")
  /\ \E n \in Items : Table!FindStart(r, n)

FindEnd(r) ==
  /\ Reader(r, "finding", "found")
  /\ \E a \in Items \cup {NoItem} : Table!FindEnd(r, a)

\* Mutant: one section for all lookups.
MutantNextLookup(r) ==
  /\ Reader(r, "found", "locked")
  /\ UNCHANGED tableVars

\* ~RTableReadLockGuard, or rTableReadUnlock.
ReadUnlock(r) ==
  /\ Reader(r, "found", "out")
  /\ Table!Unlock(r)

Read(r) == ReadLock(r) \/ FindStart(r) \/ FindEnd(r) \/ ReadUnlock(r)

-----------------------------------------------------------------------------

Next == Write \/ \E r \in Readers : Read(r)

Spec == Init /\ [][Next]_vars

(***************************************************************************)
(* Threads are scheduled again and again.  RTableMap gives a node back     *)
(* when no reader can hold it; that the call then returns, and does not    *)
(* wait for other readers for ever, is what RTable!CallsReturn says.       *)
(***************************************************************************)
Fairness == WF_vars(Write) /\ \A r \in Readers : WF_vars(Read(r))

FairSpec == Spec /\ Fairness

-----------------------------------------------------------------------------

(***************************************************************************)
(* "ElementNotValid in reader critical session" (RCUTableTests.cpp 384) is *)
(* never thrown, for erased and restored items either: what a reader has   *)
(* found stays valid as long as its section lasts.                         *)
(***************************************************************************)
FoundAreValid == \A r \in Readers, n \in Items : n \in held[r] => valid[n]

(***************************************************************************)
(* "writer might erase elements that is not multiples of 8 but other       *)
(* elements should remain found" (main.cpp 62-63, RCUTableTests.cpp 386):  *)
(* every lookup of a persistent item returns it.                           *)
(***************************************************************************)
PersistentFound ==
  [][\A r \in Readers :
       target[r] \in Persistent /\ target'[r] = NoItem
         => held'[r] = {target[r]}]_vars

(***************************************************************************)
(* Round follows round ("periodically remove and insert", RCUTableTests.cpp*)
(* 412): no insertion is refused, no item to be erased is missing, and     *)
(* readers let go of the item that a detach has taken out.                 *)
(***************************************************************************)
RoundsGoOn == \A n \in Items \ Persistent : []<>(wpc = "invalidate" /\ i = n)
=============================================================================
