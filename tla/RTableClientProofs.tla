------------------------- MODULE RTableClientProofs -------------------------
(***************************************************************************)
(* Proofs about RTableClient, for all numbers of items and all readers.    *)
(***************************************************************************)
EXTENDS RTableClient, TLAPS

-----------------------------------------------------------------------------
(* The inductive invariant.                                                 *)

TableTypes ==
  /\ members \in SUBSET Items
  /\ limbo \in SUBSET Items
  /\ target \in [Readers -> Items \cup {NoItem}]
  /\ answers \in [Readers -> SUBSET (Items \cup {NoItem})]
  /\ held \in [Readers -> SUBSET Items]

ClientTypes ==
  /\ inside = {r \in Readers : rpc[r] # "out"}
  /\ \A r \in Readers : target[r] # NoItem <=> rpc[r] = "finding"
  /\ rpc \in [Readers -> {"out", "locked", "finding", "found"}]
  /\ wpc \in {"set", "insert", "detach", "synchronize", "invalidate"}
  /\ i \in Items
  /\ valid \in [Items -> BOOLEAN]

\* The place in the writer's loops says what the table contains.
MembersInv ==
  /\ wpc \in {"set", "insert"} => \A n \in Items : n \in members <=> n < i
  /\ wpc = "detach" =>
       \A n \in Items : n \in members <=> n <= sizePersist \/ i <= n
  /\ wpc \in {"synchronize", "invalidate"} =>
       \A n \in Items : n \in members <=> n <= sizePersist \/ i < n
  /\ wpc \in {"detach", "synchronize", "invalidate"} => sizePersist < i
  /\ limbo = IF wpc = "synchronize" THEN {i} ELSE {}

\* Besides members the item at hand is valid: not yet inserted, or erased.
ValidInv ==
  \A n \in Items :
    valid[n] <=> \/ n \in members
                 \/ n = i /\ wpc \in {"insert", "synchronize", "invalidate"}

\* Readers have found, or will find, members and what the writer waits to be
\* given back; of a persistent item they find nothing else.
FoundInv ==
  \A r \in Readers :
    /\ held[r] \cup answers[r] \subseteq members \cup limbo \cup {NoItem}
    /\ rpc[r] # "finding" => answers[r] = {}
    /\ rpc[r] # "found" => held[r] = {}
    /\ rpc[r] # "out" => sizePersist < i
    /\ target[r] \in Persistent => answers[r] = {target[r]}

IInv == TableTypes /\ ClientTypes /\ MembersInv /\ ValidInv /\ FoundInv

-----------------------------------------------------------------------------

(***************************************************************************)
(* A lookup of an item finds that item or nothing.                         *)
(***************************************************************************)
LEMMA NodeOfItem ==
  ASSUME NEW S \in SUBSET Items, NEW k \in Items
  PROVE  Table!NodeOf(S, k) = IF k \in S THEN k ELSE NoItem
  BY DEF Table!NodeOf

LEMMA ItemFacts ==
  /\ \A n \in Items : n \in Nat /\ n # NoItem
  /\ \A n \in Persistent : n \in Items /\ n <= sizePersist
  BY ClientAssumption DEF Items, Persistent, NoItem

(***************************************************************************)
(* Once loaded, the persistent items stay in the table.                    *)
(***************************************************************************)
LEMMA PersistentStay ==
  ASSUME wpc \in {"set", "insert", "detach", "synchronize", "invalidate"},
         i \in Items, MembersInv, sizePersist < i
  PROVE  Persistent \subseteq members
  BY ItemFacts, ClientAssumption DEF MembersInv

(***************************************************************************)
(* When the content changes, lookups may also find what the new one has.   *)
(***************************************************************************)
UpdatedTo(S) ==
  /\ members' = S
  /\ UNCHANGED <<inside, target, held>>
  /\ answers' \in [Readers -> SUBSET (Items \cup {NoItem})]
  /\ \A r \in Readers : answers'[r] =
       IF target[r] = NoItem THEN {}
       ELSE answers[r] \cup {IF target[r] \in S THEN target[r] ELSE NoItem}

LEMMA UpdateFound ==
  ASSUME TableTypes, NEW S \in SUBSET Items, Table!Update(S)
  PROVE  UpdatedTo(S)
  BY NodeOfItem DEF Table!Update, TableTypes, UpdatedTo

LEMMA InitIInv == Init => IInv
  BY ClientAssumption
  DEF Init, Table!Init, IInv, TableTypes, ClientTypes, MembersInv, ValidInv,
      FoundInv, Items, Persistent, NoItem

LEMMA ReaderSteps ==
  ASSUME IInv, NEW r \in Readers, Read(r)
  PROVE  IInv'
  <1> USE DEF IInv, TableTypes, ClientTypes, MembersInv, ValidInv, FoundInv, Reader
  <1>1. CASE ReadLock(r)
    BY <1>1 DEF ReadLock, Table!Lock
  <1>2. CASE FindStart(r)
    <2>1. PICK n \in Items : Table!FindStart(r, n) /\ Reader(r, "locked", "finding")
      BY <1>2 DEF FindStart
    <2>2. n # NoItem /\ Persistent \subseteq members
      BY <2>1, ItemFacts, PersistentStay
    <2>3. answers' = [answers EXCEPT ![r] = {IF n \in members THEN n ELSE NoItem}]
      BY <2>1, NodeOfItem DEF Table!FindStart
    <2>4. target' = [target EXCEPT ![r] = n] /\ UNCHANGED <<members, limbo, inside, held>>
      BY <2>1 DEF Table!FindStart
    <2>5. TableTypes' /\ ClientTypes' /\ MembersInv' /\ ValidInv'
      BY <2>1, <2>2, <2>3, <2>4
    <2>6. FoundInv'
      BY <2>1, <2>2, <2>3, <2>4
    <2>7. QED
      BY <2>5, <2>6
  <1>3. CASE FindEnd(r)
    <2>1. PICK a \in Items \cup {NoItem} : Table!FindEnd(r, a) /\ Reader(r, "finding", "found")
      BY <1>3 DEF FindEnd
    <2> USE ItemFacts DEF Table!FindEnd
    <2>2. TableTypes' /\ ClientTypes' /\ MembersInv' /\ ValidInv'
      BY <2>1
    <2>3. FoundInv'
      BY <2>1
    <2>4. QED
      BY <2>2, <2>3
  <1>4. CASE ReadUnlock(r)
    BY <1>4 DEF ReadUnlock, Table!Unlock
  <1>5. QED
    BY <1>1, <1>2, <1>3, <1>4 DEF Read

LEMMA WriterSteps ==
  ASSUME IInv, Write
  PROVE  IInv'
  <1> USE DEF IInv, TableTypes, ClientTypes, MembersInv, ValidInv, FoundInv, Writer
  <1>1. CASE SetValid
    BY <1>1 DEF SetValid, tableVars
  <1>2. CASE TryInsert
    <2> DEFINE S == members \cup {i}
    <2>1. Table!Update(S) /\ UNCHANGED <<limbo, rpc, valid>>
      BY <1>2 DEF TryInsert, Loop, Table!Insert
    <2>2. /\ wpc = "insert"
          /\ IF i = sizeTotal THEN wpc' = "detach" /\ i' = sizePersist + 1
                              ELSE wpc' = "set" /\ i' = i + 1
      BY <1>2 DEF TryInsert, Loop, AtLast, firstErased
    <2>3. \A r \in Readers : rpc[r] # "out" => Persistent \subseteq members
      BY PersistentStay
    <2>4. UpdatedTo(S)
      BY <2>1, UpdateFound
    <2> USE DEF UpdatedTo
    <2>5. TableTypes' /\ ClientTypes'
      BY <2>1, <2>2, <2>4, ClientAssumption DEF Items
    <2>6. MembersInv' /\ ValidInv'
      BY <2>1, <2>2, <2>4, ClientAssumption DEF Items
    <2>7. FoundInv'
      BY <2>1, <2>2, <2>3, <2>4, ClientAssumption, ItemFacts
    <2>8. QED
      BY <2>5, <2>6, <2>7
  <1>3. CASE TryDetach
    <2> DEFINE S == members \ {i}
    <2>1. /\ Table!Update(S) /\ limbo' = {i}
          /\ UNCHANGED <<i, valid, rpc>> /\ wpc = "detach" /\ wpc' = "synchronize"
      BY <1>3 DEF TryDetach, Table!Detach
    <2>2. \A n \in Persistent : n \in S
      BY <2>1, PersistentStay, ItemFacts, ClientAssumption
    <2>3. UpdatedTo(S)
      BY <2>1, UpdateFound
    <2> USE DEF UpdatedTo
    <2>4. TableTypes' /\ ClientTypes'
      BY <2>1, <2>3
    <2>5. MembersInv' /\ ValidInv'
      BY <2>1, <2>3, ItemFacts, ClientAssumption
    <2>6. FoundInv'
      BY <2>1, <2>2, <2>3, ItemFacts
    <2>7. QED
      BY <2>4, <2>5, <2>6
  <1>4. CASE Synchronized
    BY <1>4 DEF Synchronized, Table!GiveBack
  <1>5. CASE Invalidate
    BY <1>5, ClientAssumption
    DEF Invalidate, Loop, AtLast, firstErased, tableVars, Items
  <1>6. QED
    BY <1>1, <1>2, <1>3, <1>4, <1>5 DEF Write

LEMMA IInvStep == IInv /\ [Next]_vars => IInv'
  <1> SUFFICES ASSUME IInv, [Next]_vars PROVE IInv'
    OBVIOUS
  <1>1. CASE UNCHANGED vars
    BY <1>1 DEF vars, tableVars, IInv, TableTypes, ClientTypes, MembersInv,
                ValidInv, FoundInv
  <1>2. QED
    BY <1>1, ReaderSteps, WriterSteps DEF Next

LEMMA IInvAlways == Spec => []IInv
  BY InitIInv, IInvStep, PTL DEF Spec

(***************************************************************************)
(* Types: in particular, of the writer's items only the one it has just    *)
(* detached is neither in the table nor back.                              *)
(***************************************************************************)
THEOREM ClientTypeCorrect == Spec => []TypeOK
  <1>1. IInv => TypeOK
    BY ItemFacts, ClientAssumption DEF IInv, TableTypes, ClientTypes, MembersInv, TypeOK
  <1>2. QED
    BY <1>1, IInvAlways, PTL

(***************************************************************************)
(* What a reader has found stays valid while its section lasts: the check  *)
(* "ElementNotValid in reader critical session" (RCUTableTests.cpp 384)    *)
(* never fails, for any number of readers and of items.                    *)
(***************************************************************************)
THEOREM ClientFoundAreValid == Spec => []FoundAreValid
  <1>1. IInv => FoundAreValid
    BY DEF IInv, TableTypes, MembersInv, ValidInv, FoundInv, FoundAreValid,
           Items, NoItem
  <1>2. QED
    BY <1>1, IInvAlways, PTL

(***************************************************************************)
(* Every lookup of a persistent item returns it, whatever the writer       *)
(* erases and puts back meanwhile (main.cpp 62-63).                        *)
(***************************************************************************)
THEOREM ClientPersistentFound == Spec => PersistentFound
  <1>1. ASSUME IInv, [Next]_vars, NEW r \in Readers,
               target[r] \in Persistent, target'[r] = NoItem
        PROVE  held'[r] = {target[r]}
    <2>1. target[r] \in Items /\ target[r] # NoItem
      BY <1>1, ClientAssumption DEF Persistent, Items, NoItem
    <2>2. rpc[r] = "finding" /\ held[r] = {} /\ answers[r] = {target[r]}
      BY <1>1, <2>1 DEF IInv, ClientTypes, FoundInv
    <2>3. FindEnd(r)
      <3>1. target'[r] # target[r]
        BY <1>1, <2>1
      <3>2. ASSUME Write PROVE target' = target
        BY <3>2 DEF Write, SetValid, TryInsert, TryDetach, Synchronized,
                    Invalidate, tableVars, Table!Insert, Table!Detach,
                    Table!GiveBack, Table!Update
      <3>3. ASSUME NEW q \in Readers, Read(q), q # r PROVE target'[r] = target[r]
        BY <1>1, <3>3 DEF IInv, TableTypes, Read, ReadLock, FindStart, FindEnd, ReadUnlock,
                    Table!Lock, Table!FindStart, Table!FindEnd, Table!Unlock
      <3>4. Read(r)
        BY <1>1, <3>1, <3>2, <3>3 DEF Next, vars, tableVars
      <3>5. QED
        BY <2>2, <3>4 DEF Read, ReadLock, FindStart, ReadUnlock, Reader
    <2>4. QED
      BY <1>1, <2>1, <2>2, <2>3 DEF IInv, TableTypes, FindEnd, Table!FindEnd
  <1>2. IInv /\ [Next]_vars =>
          [\A r \in Readers :
             target[r] \in Persistent /\ target'[r] = NoItem
               => held'[r] = {target[r]}]_vars
    BY <1>1
  <1>3. QED
    BY <1>2, IInvAlways, PTL DEF Spec, PersistentFound
=============================================================================
