------------------------------ MODULE RCUPointer ------------------------------
(***************************************************************************)
(* The client of a zone that the benchmark runs (RCUTests.cpp, fRCU and    *)
(* fRCURegister): a writer replaces the object behind an atomic pointer,   *)
(* synchronizes, and deletes the old object, while readers use whatever    *)
(* object they find.  The zone is RCUZone itself, with its epochs, counts  *)
(* and registered threads.                                                 *)
(*                                                                         *)
(* An object stands for an address: once deleted it may be allocated again.*)
(***************************************************************************)
EXTENDS RCUZone

CONSTANTS
  writer,   \* the one thread of Writers that modifies
  Objects,  \* addresses that new can return
  NULL      \* no address

ASSUME PointerAssumption == NULL \notin Objects

VARIABLES
  pCurrent,  \* the shared pointer
  allocated, \* the objects made by new and not deleted since
  mpc,       \* where the writer is in futureModify
  pOld,      \* writer local
  held       \* reader local: the object func works on, or NULL

pointerVars == <<pCurrent, allocated, mpc, pOld, held>>

\* pCurrent always points to a live object.
PointerTypeOK ==
  /\ TypeOK
  /\ allocated \subseteq Objects
  /\ pCurrent \in allocated
  /\ mpc \in {"idle", "loaded", "stored", "sync", "delete"}
  /\ pOld \in Objects \cup {NULL}
  /\ held \in [Readers -> Objects \cup {NULL}]

\* run() allocates the first object and initializes the zone.
PointerInit ==
  /\ Init
  /\ pCurrent \in Objects
  /\ allocated = {pCurrent}
  /\ mpc = "idle"
  /\ pOld = NULL
  /\ held = [r \in Readers |-> NULL]

-----------------------------------------------------------------------------
(* A reader: rcuReadLock, or its thread registers or ends; the load; then   *)
(* func has returned, and rcuReadUnlock.                                    *)

BeforeUse(r) ==
  /\ Register(r) \/ Exit(r) \/ ReadLock(r) \/ LockLoop(r)
  /\ UNCHANGED pointerVars

LoadCurrent(r) ==
  /\ InSection(r) /\ held[r] = NULL
  /\ held' = [held EXCEPT ![r] = pCurrent]
  /\ UNCHANGED <<vars, pCurrent, allocated, mpc, pOld>>

AfterUse(r) ==
  /\ held[r] # NULL
  /\ ReadUnlock(r)
  /\ held' = [held EXCEPT ![r] = NULL]
  /\ UNCHANGED <<pCurrent, allocated, mpc, pOld>>

-----------------------------------------------------------------------------
(* The writer.                                                              *)

Modify(from, to) == mpc = from /\ mpc' = to

LoadOld ==
  /\ Modify("idle", "loaded")
  /\ pOld' = pCurrent
  /\ UNCHANGED <<vars, pCurrent, allocated, held>>

\* The constructor runs before the store: no reader sees a raw object.
StoreNew ==
  /\ Modify("loaded", "stored")
  /\ \E o \in Objects \ allocated :
       /\ allocated' = allocated \cup {o}
       /\ pCurrent' = o
  /\ UNCHANGED <<vars, pOld, held>>

\* Mutant of SyncOld: the old object is deleted without waiting.
MutantNoSync ==
  /\ Modify("stored", "delete")
  /\ UNCHANGED <<vars, pCurrent, allocated, pOld, held>>

SyncOld ==
  /\ Modify("stored", "sync")
  /\ SyncStart(writer)
  /\ UNCHANGED <<pCurrent, allocated, pOld, held>>

\* Within rcuSynchronize, and its return.
Synchronizing ==
  /\ mpc = "sync"
  /\ SyncLoop(writer)
  /\ mpc' = IF wpc'[writer] = "idle" THEN "delete" ELSE "sync"
  /\ UNCHANGED <<pCurrent, allocated, pOld, held>>

\* Mutant of DeleteOld: the pointer is read only now, after the store.
MutantDeleteCurrent ==
  /\ Modify("delete", "idle")
  /\ allocated' = allocated \ {pCurrent}
  /\ UNCHANGED <<vars, pCurrent, pOld, held>>

DeleteOld ==
  /\ Modify("delete", "idle")
  /\ allocated' = allocated \ {pOld}
  /\ UNCHANGED <<vars, pCurrent, pOld, held>>

PointerNext ==
  \/ \E r \in Readers : BeforeUse(r) \/ LoadCurrent(r) \/ AfterUse(r)
  \/ LoadOld \/ StoreNew \/ SyncOld \/ Synchronizing \/ DeleteOld

PointerSpec == PointerInit /\ [][PointerNext]_<<vars, pointerVars>>

-----------------------------------------------------------------------------
(***************************************************************************)
(* While a reader works on an object (fRCU passes *pCurrent to func inside *)
(* the section) the object has not been deleted, although the writer has   *)
(* replaced it, perhaps, and deletes what it replaced.                     *)
(***************************************************************************)
NoUseAfterDelete == \A r \in Readers : held[r] # NULL => held[r] \in allocated

=============================================================================
