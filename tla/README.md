# Specifications of the relativistic hash table and its RCU zone

TLA+ modules for the library in `src/Relativistic_Hash_Table/LibSource`: an
epoch-based RCU (`RCU.cpp`), a relativistic hash table on top of it
(`RCUHashTable.cpp`, `RCUHashTableCoreApi.h`), and the RCU lists. TLC checks
small instances, TLAPS proves theorems for every instance: that the zone
implements a grace period, that the table implements a map whose lookups are
right through every resize, that walks of both lists meet what they must, that
safe iterators leave nothing out, that nested zones do not deadlock, that the
clients of zone and table use nothing that was deleted, and that rounding by
shifts gives powers of two by which counters and buckets are told apart.

## 1. The system

| Part | State | Operations | Uses |
| --- | --- | --- | --- |
| Registry of reader threads (`RCU.cpp` 35-51) | `nextBucketId` (shared `atomic<int>`), `tlsReaderBucketId` (per thread) | `rcuRegisterReaderThread`, end of a thread | |
| RCU zone (`RCU.cpp`, `RCUTypes.h`) | `epochLatest`, `epochOldest`, two rows of reader counts | `rcuReadLock`, `rcuReadUnlock`, `rcuSynchronize`, init, release | the registry, to choose a count |
| Hash table (`RCUHashTable.cpp`, `RCUHashTableCoreApi.h`, `RCUHashTableApi.h`) | published bucket array, chains of nodes, `size` | find, insert (with and without expanding), three detaches, expand, shrink, synchronize | the zone, the singly linked list |
| Singly linked list (`RcuSinglyLinkedListApi.h`) | `next` of heads and nodes | find, prepend, append, insert, remove | |
| Doubly linked list (`RcuDoublyLinkedListApi.h`) | `next`, `prev` | add, remove, iterators in both directions, safe iterators | |
| Sizes (`upperBoundPowerOf2`, `nrBucketsPerEpoch`) | none | pure functions | |

Readers call into the zone and walk chains without locks; writers of one table
are serialized by their callers and talk to readers only through released
stores and `rcuSynchronize`. There are no callbacks except the users' match
predicates, no messages, no timeouts, and nothing persists.

What is hard, and what would be right:

* **Zone.** A reader reads the epoch and counts itself in two steps; a writer
  may close the epoch between them. Right means: `rcuSynchronize` returns only
  after the sections under way at the call, it does return, and counts are
  exact after any series of retries, collisions, registrations and exits.
* **Registry.** Threads come and go while identifiers are never returned.
  Right means: no registered reader shares a count.
* **Table.** Readers walk chains that a writer unzips, joins, extends and cuts.
  Right means: a lookup finds what was there all the time, never finds what was
  not there at any time, ends, and never touches freed memory.
* **Several zones.** Sections of different zones nest, and a thread in a section
  may synchronize another zone. Right means: under an order of the zones, as for
  mutexes, no threads wait for one another for ever.
* **Lists.** One writer, readers on nodes being linked and unlinked store by
  store, in the doubly linked list in both directions; the safe iterators keep a
  position across a removal. Right means: a walk meets what was in the list all
  the time, in order, and no node after it was given back.
* **Sizes.** 32-bit arithmetic at 0 and above 2^31. Right means: counters of
  epochs and threads do not overlap, and a bucket splits into its two halves.
* **Clients.** A writer that writes to what it detached and puts it back; readers
  that come back at once.

`PROJECT.json` lists the hazards line by line.

## 2. Modules

| Module | Models | Composition |
| --- | --- | --- |
| `RCUGracePeriod` | what a zone promises: readers inside, writers waiting for those who were inside | abstract |
| `RCURegistry` | the registry, with `int` overflow | |
| `RCUZone` | the zone, one action per access to a shared atomic | EXTENDS `RCURegistry`; implements `RCUGracePeriod` |
| `RCUZoneProofs` | theorems about `RCUZone` and `RCUPointer` | |
| `RCUNestedZones` | threads that use several zones at once | each zone as `RCUGracePeriod` has it |
| `RCUNestedZonesProofs` | theorems about `RCUNestedZones` | uses `RankLemmas` |
| `RCUPointer` | the benchmark's client: replace a pointed-to object, synchronize, delete the old one | EXTENDS `RCUZone`, whose steps its threads take |
| `RTableMap` | what a table promises: a set of nodes with distinct keys | abstract |
| `RTable` | the table, one action per load of a reader and per store a reader can see | the zone is `RCUGracePeriod`; implements `RTableMap` |
| `RankLemmas` | finite sets whose elements have distinct ranks, paths along a function, least numbers | no state |
| `RTableProofs` | theorems about `RTable`: types, memory, chains, that it implements `RTableMap` | uses `RankLemmas` |
| `RTableClient` | the stress test and the quick example | the table is `RTableMap` |
| `RTableClientProofs` | theorems about `RTableClient` | |
| `RListWalk` | what the lists promise to walks | abstract |
| `RcuSlist` | the singly linked list | the zone is `RCUGracePeriod`; implements `RListWalk` |
| `RcuSlistProofs` | theorems about `RcuSlist`, that it implements `RListWalk` among them | uses `RankLemmas` |
| `RcuDlist` | the doubly linked list, with iterators | the zone is `RCUGracePeriod`; implements `RListWalk` |
| `RcuDlistProofs` | theorems about `RcuDlist`, that it implements `RListWalk` among them | uses `RankLemmas` |
| `RCUSizes` | bucket counts, masks and the indices computed with them | |
| `RCUSizesProofs` | theorems about `RCUSizes` | uses `RankLemmas` |
| `MC...` | constants for TLC | |

### RCUZone and the code

`ReadLock` is `rcuReadLock` up to the loop (the bucket is fetched once),
`LoadEpoch`, `AddReader`, `Validated` / `EpochMoved` and `RevertReader` are the
loop's load, `fetch_add`, second load and undo. `ReadUnlock` fetches the bucket
again, as the code does, and decrements the row of the epoch it is given.
`SyncStart` is the `fetch_add` of `rcuSynchronize`; `SyncRow` / `SyncReturn` the
loop test; `ScanBucket` one bucket found not positive (spinning is the action
being disabled); `LoadOldest` and `StoreOldest` are `++epochOldest`, which is a
plain integer and hence two accesses. `Register` and `Exit` are the registry's
operations at the points where the constant `RegisterPoints` allows user code
to call them. `threadIdHasher` is a constant: two threads may collide.

All atomic operations take effect in one total order. For the operations of
this module x86 gives that: each side publishes with a locked
read-modify-write, a full barrier, before it loads the other side's variable
(`RCU.cpp` 108/110 and 133/140). The C++ orders named in the code are weaker:
release and acquire do not order an earlier write before a later read of another
variable. On a processor whose increment is a linked load and a conditional
store, the load that validates the epoch could take effect before the increment,
and the grace period would be lost. The modules assume the total order.

### RCUNestedZones and the code

A thread enters and leaves sections (`ReadLock`, `ReadUnlock`) and calls
`rcuSynchronize` under a mutex per zone, which the users need anyway
(`LockWriters`, `SyncStart`, `SyncEnd`). `MayWaitFor` is the users' discipline
that `RCUApi.h` 14-20 asks for: a thread waits only for zones that come after
all those it is in a section of, its own included. An insertion into a table of
the zone counts as a call of `rcuSynchronize`, since it may make one.

### RCUPointer and the code

The writer of `fRCU` (`RCUTests.cpp` 150-164) loads `pCurrent`, stores a new
object, synchronizes and deletes the old one. A reader (170-178) locks, loads,
uses and unlocks; `fRCURegister` (206-220) registers its threads before. Every
call of the zone is made of the steps that `RCUZone` has for it: `BeforeUse` is
one step of registering or of `rcuReadLock`, `AfterUse` is `rcuReadUnlock` with
the epoch the section was given, `SyncOld` and `Synchronizing` are the steps of
`rcuSynchronize`, and the old object is deleted only after its return. The
benchmark has one writer: its load and its store are two steps, which several
writers could not do without a lock. A deleted address may be allocated again.

### RTable and the code

Nodes are model values; `next` is their `RcuSlistHead`, `buckets` holds the
heads of the two arrays that can exist at a time, `current` is `pBucketsInfo`.
A freed array is the empty function. `limbo` is the users' bookkeeping:
detached nodes that they may not reuse before a synchronization has told them
so. `members` and `answers` record what the table contains and what each lookup
under way may answer; no action of the table reads them except to keep callers
from inserting a node that is in use.

A lookup is `FindStart` (loads the array), `LoadHead`, `LoadNext`... and
`FindEnd`. The writer's private loads and its stores to memory that no reader
can reach yet are folded into the visible store they belong to: an insertion is
one action at the store of the bucket head, a detach one at the store of the
predecessor's `next`. Expanding is `PublishExpanded` (the new array is filled
and published), a grace period, `findFirstUnzipStarts`, then `unzipOneSegment`
or `SkipUnzipped` per bucket, `UnzipPassEnd`, a grace period, and so on until
nothing is left, then `FreeOld`. Shrinking is `shrinkTwoBucketsToOne` per pair,
`PublishShrunk`, a grace period, `FreeOld`. `Continuation` names where the
writer goes on after each `rcuSynchronize`. An insertion that finds its key
already there changes nothing and has no action.

### The lists and the code

`RcuSlist` and `RcuDlist` have an operator per function, under the function's
name. A search of the writer runs while nothing else can change the list and is
folded into the store that follows it; every store of the writer (`Prepare`,
`Publish`, `Unlink`; `AddBetween` and the three stores after it; `RemoveBetween`
and `StoreRemovePrev`; `Rest` and `RestNext`) and every load of a reader
(`FindFirst`, `FindNext`; `Begin`, `Advance`) is a step of its own. `Content` is
the list that `RListWalk` speaks of; in the doubly linked list it follows the
longer of the two chains, and a node that only one chain holds is `unsettled`:
walks in the other direction may or may not meet it. `walk` records what each
walk has met and what it must meet (`steady`: the nodes that stay in the list
from the first load on).

The safe iterators belong to the writer. `it` holds position and next position,
`due` the nodes the iteration still has to meet. Their contract, which the
header leaves unsaid: while an iteration is under way, no other call may remove
the node it goes to next, and the list may not be reset. Any other removal or
insertion may happen. Removed nodes go back to their owner after a grace period
(`SyncStart`, `SyncEnd`, `GiveBack`), who overwrites their links.

The predicate of `rcuSlistAppendIfNoMatch` is applied to the list's own head,
around which there is no element. Its answer there may be anything; the model
takes either.

### RCUSizes and the code

`W` is the width of `int` and `uint32_t`. A word is a number below 2^W; `Bits`
are the places of its ones, and `|` and `&` are union and intersection of these.
`upperBoundPowerOf2` decrements, shifts by 1, 2, 4, 8 and 16 and increments
modulo 2^W, as both definitions of the function do. `ZoneMade` and `TableMade`
are what the initializations leave. A negative `int` argument becomes its value
modulo 2^W; the zone's count goes back to `int` (`Signed`). `CounterOf` and
`CounterOfRegistered` are the index arithmetic of `rcuReadLock`. Hashes are
words: `std::hash` yields more bits, which no mask keeps. `W` is at most 32, the
width that five shifts are made for, and at least 3, where a shared and a private
count of one thread still have a sum.

### RTableClient and the code

Items are the elements of the test's vector; the first `sizePersist` are never
erased. The writer's steps are those of the loops (`SetValid`, `TryInsert`,
`TryDetach` and `Synchronized` for `rTableTryDetachAndSynchronize`,
`Invalidate`). Rounds do not end, the item count of the test (888888) is 3. The
readers of the test look up persistent items only, where `valid` never changes,
so that its exception cannot be thrown; those of the quick example look up all
items, and so do the model's.

## 3. Runs

`tlc -config <run>.cfg MC<module>.tla` checks a run, `tlapm <module>.tla` the
proofs of a module.

| Run | Instance | Shows |
| --- | --- | --- |
| `zone_contract` | 2 readers, 2 serialized writers, 1 private and 1 shared bucket, 3 epochs, 2 registrations, fair | exact counts, private buckets, grace period, calls return, refinement of `RCUGracePeriod` with its liveness |
| `zone_two_writers` (violation) | writers not serialized | `rcuSynchronize` returns early |
| `pointer_safety` | 2 readers, 3 objects, on the zone with 1 private and 1 shared bucket, 3 epochs, 2 registrations | no use of a deleted object |
| `table_safety` | 1 reader, 4 nodes, 3 keys, 1-4 buckets, 4 insertions | refinement of `RTableMap`, chains, memory |
| `table_liveness` | 2 readers, 2 nodes, 1-2 buckets, 2 insertions, fair | calls and lookups end; memory with overlapping sections |
| `table_load_factor` (violation) | 2 nodes | doubling by insertions ever made |
| `zones_nested` | 3 threads, 2 zones, fair | no deadlock under an order of the zones, nested `rcuSynchronize` returns |
| `slist_safety` | 1 reader, 4 nodes with 2 keys | walks, memory |
| `slist_append` (violation) | 1 reader, 3 nodes, two of them with one key | an element is appended twice |
| `dlist_safety` | 1 reader, 3 nodes | walks in both directions, chains, safe iterators, memory |
| `sizes_edges` | 8 bits, up to 4 hardware threads, arguments around powers of two and at the ends of the range, all hashes | rounding, counters, twin buckets |
| `client_contract` | 2 readers, 3 items, 1 persistent, fair | found items stay valid, persistent items are found, rounds go on |

Bounds and why they are enough. *Zone*: a row comes round again after two
epochs. Two calls let a reader that has read epoch 0 and not counted itself yet
find its row in use for epoch 2, the third call scans that row while the reader
undoes its count. Two readers make a collision in the shared bucket, one private bucket
makes a refused registration, and an exit followed by a registration makes a
thread without an identifier to get. `MaxEpoch` and `MaxRegisterCalls` bound
the calls. *Table*: three nodes whose buckets alternate make a chain of three
segments, the shortest that needs two rounds of unzipping (when one bucket
becomes two); from two buckets to four `MixedHash` leaves one chain to unzip
next to one that needs nothing, so that the loops of expand and shrink go over
several buckets, finished and empty ones among them; the second node with key `k0` makes refused insertions and reuse of a key; the
fourth insertion puts back a node that was detached. `table_liveness` has two
readers and fewer nodes: a grace period that ends for one reader and not for
the other, two elements to unzip. `MaxInserts` bounds insertions, `MaxBuckets`
doublings. The factors are 1 and the minimal size for shrinking 0 instead of
128, so that both automatic resizes happen with two or three nodes. *Symmetry*
is used in runs of safety properties only: the two nodes of `table_safety` that
have the same key, and the nodes of `dlist_safety`. *Pointer*: at most
two objects are allocated at a time, the third lets a new object take an address
that was used before or one that was not; three calls of `rcuSynchronize` bring
the first row and a deleted address back while a reader is in a section. *Zones*: a cycle of
waiting threads takes two threads and two zones; the third thread competes with
both for a mutex or is one more reader to wait for. *Lists*: a
node between two others, with a neighbour on each side that can go away too,
needs three nodes; the singly linked list has a fourth to be inserted
meanwhile. One reader is enough for walks, which do not affect one another; the
zone's runs have several. *Sizes*: the argument range of 8 bits has the same
edges as that of 32; the shifts by 8 and 16 do nothing there and are left to the
proof, which is for every width up to 32.
*Client*: two items that come and go let one be detached while the other is
held.

Fairness. A thread that can take a step of `rcuReadLock`, of a lookup or of a
writer's call takes one eventually (weak fairness): the scheduler's promise.
Sections end: in `RCUZone`, where a section is one state, by weak fairness; in
`RTable`, where a reader in a section may begin further lookups, by strong
fairness of the unlock, since a section makes finitely many lookups. Nobody has
to lock, insert or synchronize. In `RCUNestedZones` mutexes are fair to those who
wait for them (strong fairness of `SyncStart`), and a thread that can leave a
section again and again does. In `RTableClient` threads are scheduled, and the
test's loops force each step. `RTableMap` lets a call return when no reader can
hold the node, so `RoundsGoOn` says that the test's own steps never block: no
insertion is refused, no item is missing, readers let go of what they found. That
the readers that come back at once do not hold up `rcuSynchronize` is not visible
there; `SyncReturns` of `RCUZone` and `CallsReturn` of `RTable` show it.

`LockReturns` holds because calls of `rcuSynchronize` are bounded in the model:
with writers that never pause, a reader may retry for ever (the lock is
lock-free, not wait-free). What the property excludes is a retry for any other
reason.

## 4. Proofs

### The zone

`RCUZoneProofs` proves for all readers (finitely many), writers, buckets,
hash functions and bounds:

1. `TypeCorrect`: the types, from `TypeInv`, which adds that identifiers are
   below the counter and differ. No discipline is assumed: even a thread that
   registers inside a section indexes within its row.
2. `BucketsAreUnique`, and, if threads register outside their sections,
   `RegisteredReadersAlone` (through `BucketKept`: a reader's bucket is still
   the one `rcuReadUnlock` will compute).
3. `CountsAreExact` under the same condition. The set of readers behind a count
   grows or shrinks by one exactly where the count does (`HolderJoins`,
   `HolderLeaves`).
4. `ZoneInvariant`, `SynchronizeWaits` and `ZoneRefines`, if writers are
   serialized as well (`Discipline`).

The inductive invariant is `IInv`: types, exact counts, and `EpochInv`. That a
section's epoch is never below `epochOldest` (`SectionEpochs`) would give the
grace period but is not inductive: the step that advances `epochOldest` needs
to know that the scan left no section behind. `ScannedEmpty` says so bucket by
bucket; it is kept because a reader enters a section only in the latest epoch,
which during a call is not the closed one, and because an exact count of at
most 0 means that nobody is there. The two conditions of `Discipline` are
needed: the run `zone_two_writers` shows what happens without the second, and
`zone_contract` with `RegisterPoints <- RegisterAnywhere` what happens without
the first: `CountsAreHolders` fails, and a writer waits for ever.

`ZoneRefines` maps a validated epoch to the reader's entry and the `fetch_add`
of `rcuSynchronize` to the moment at which the abstract writer notes who is
inside.

`PointerTypeCorrect` and `PointerSafe` are the theorems of `RCUPointer`, in the
same module because they rest on the zone's invariant: for all readers, buckets,
hash functions, epochs and objects, under `Discipline`, a reader's object is not
deleted. The invariant is `PointerInv`: `IInv` of the zone, the types, `OldInv`
(what `pOld` is in each phase) and `HeldInv`: an object a reader holds is
the current one, or the replaced one, and then the writer has not called
`rcuSynchronize` yet or this reader is one of those whose sections the call found
under way. Each step of `RCUPointer` is a step of the zone or leaves it alone, so
`IInv` is kept. That `rcuSynchronize` returns only when the sections it found have ended
follows, as for `GracePeriod`, from `IInv`: the epoch of a section is never below
`epochOldest`. `NoUseAfterDelete` alone is not
inductive: nothing in it forbids deleting what a reader has loaded. The
hypothesis `writer \in Writers` names the thread; that it modifies alone is the
benchmark's shape.

### Nested zones

`RCUNestedZonesProofs` proves `NestedTypeCorrect` and `NestedNoDeadlock` for
finitely many threads and any zones, which are numbers in their order. The
invariant says who is in a call of a zone (one thread, which holds its mutex),
that the call waits only for threads still in a section, and that a thread which
waits for a zone is in sections of smaller zones only. In a set of threads that
all wait for one another, take one that waits for the greatest zone. If it wants
that zone's mutex, the holder is in the set and calls `rcuSynchronize`; so in
either case a thread of the set is in a section of this zone, and would have to
wait for a greater one.

### The table

`RTableProofs` proves `TableTypeCorrect`, `TableNoUseAfterFree`,
`TableChainsHoldMembers` and `TableImplementsMap`, for finitely many nodes, any
readers, keys, hashes and factors, and bucket counts that are powers of two up
to 65536.

The inductive invariant of the first three is `IInv`:

* `VarTypes`;
* `TableInv`: the sizes of the arrays in each phase, how far the loops have come
  (`Loops`), and the chains. Reachability along `next` cannot be spoken of in a
  proof without induction over paths. Instead every node has a *rank*, and each
  node is linked to the one with the next rank among its `Peers`: the members of
  its own bucket, or, on a chain that two buckets share (`Joined`), the members
  of both. Ranks are not state: the invariant says that some exist. An inserted
  node gets a rank below all others, a detach leaves ranks as they are, joining
  two buckets moves the second one's ranks up, and unzipping only changes who is
  whose peer. `Cuts` says that a place to cut is where the chain changes from
  one bucket to the other, `JoinOrder` that a joined chain has the first bucket
  in front; each is what the next store of the resize relies on;
* `WriterInv`: detached nodes lead to members or to other detached nodes;
* `ReadersInv`: a reader between its loads of the array and of a head has the
  published array or the old one, and then a grace period that was begun waits
  for it; what it uses is a member or detached; and it is a member if the writer
  no longer waits for this reader (`Fresh`).

None of `NoUseAfterFree` and `ChainsHoldMembers` is inductive alone: that no
array is freed too early depends on where each reader stands relative to the
grace period, and that a cut keeps every member depends on all ranks of the two
buckets. From `Chained` sets the first lemmas of `RTableProofs` derive what `Chain`,
`SegmentEnd` and the other operators of the model compute (smallest
counterexamples take the place of induction).

For `TableImplementsMap` the invariant is `MapInv` on top of `IInv`:
for each lookup there is a set of nodes that it may still meet, all of which it
may answer with if they have its key (`Safe`), and, while it must not answer
"not found", a set that it does not leave before it has met its key (`Route`).
Inserting, detaching and joining extend such a set; unzipping is the step that
bends a chain away from nodes a reader may be about to need. `Avoids` is why
this is harmless: a reader that has begun its walk after the last grace period
is not on the segment that belongs to the other bucket, and one that began
before has been waited for. `RTableMap` then follows step by step: the load that
answers a lookup is `FindEnd`, the publishing stores are insertions and
detaches, the return of a grace period after which the users reuse detached
nodes is `GiveBack`, and everything a resize does is a stutter.

Both invariants were checked by TLC before they were proved, with ranks from a
range as large as the number of nodes: `IInv` with three nodes (465,735 states),
`MapInv` on the instances of `table_safety` and `table_liveness`.

`RTableClientProofs` proves `ClientTypeCorrect`, `ClientFoundAreValid` and
`ClientPersistentFound` for all numbers of items and readers, from the table as
`RTableMap` has it: an item a reader has found is in the table or detached and
not given back, and the writer clears `valid` only after it was given back.

### The singly linked list

`RcuSlistProofs` proves `SlistTypeCorrect`, `SlistNoUseAfterFree` and
`SlistImplementsWalk`, for finitely many nodes, any readers and keys. The types
include that the links make a list of distinct nodes, and the refinement says
where the list's steps take effect: `Publish` is the insertion, `Unlink` the
removal, `Prepare` and a grace period change nothing that a reader can see.

The inductive invariant gives ranks again, here to the head, the nodes in the
list and the removed ones. `Ordered`: a link leads to a node of greater rank,
past no node that is in the list; links of the list stay in the list. An
inserted node gets the rank next above its predecessor (ranks are doubled to
make room), a removed one keeps its rank, which is why a reader that stands on
it comes back into the list behind the nodes it has met and before those it has
still to meet. `Progress` is what a walk has done in terms of ranks: it has met
the nodes of `steady` up to its position, and nothing beyond. `ReaderInv` adds
that a section holds no removed node once the writer has waited for it
(`Passed`), and that what it may hold leads only to what it may hold.
`WriterInv` is what the second store of an insertion relies on: nothing between
the two stores has changed the link of the predecessor.

`NoUseAfterFree` and `ImplementsWalk` need all of it: that a position is in the
list or removed does not say that the node it leads to is. From `Ordered`,
`BehindLists` derives that following `next` enumerates the list in the order of
ranks. TLC checked the invariant before it was proved, on three nodes with ranks
up to 3 (4,611 states).

### The doubly linked list

`RcuDlistProofs` proves `DlistTypeCorrect`, `DlistNoUseAfterFree`,
`DlistChainsMirror`, `DlistSafeIteration` and `DlistImplementsWalk`, for finitely
many nodes and any readers.

Each direction has ranks of its own, and `Ordered` says of each chain what it
says of the singly linked list. One rank for both directions would not do: a
removed node goes on leading to the two neighbours it had, and a node that is
inserted between these later counts as passed by a walk that stands on the
removed one, whichever way it goes. So `Mirrored` asks only of the nodes that
are in the list, linked in both directions, that their ranks are the reverse of
one another. An inserted node gets its forward rank at the third store of
`rcuDlistAddBetween` and its backward rank at the fourth; a removed node keeps
both.

`WriterInv` says for each `wpc` what the two chains hold: the same, between
operations; all but the new node backward, after the third store of an
insertion; all but the removed node forward, between the two stores of a removal;
nothing backward, within `rcuDlistRest`. It also keeps what the next store relies
on, the neighbours that the operation noted when it began (`Inserting`,
`Removing`). From these facts (`Shape`) `ShapeLists` derives that `Content` lists
the nodes in the order of the forward ranks in every one of these phases, and
`NewChains` the same for the state after a store. `Neighbours` is why the next of
a node's previous one is the node itself: two orders that are the reverse of one
another have the same neighbours.

`ReaderInv` is that of the singly linked list, with `Progress` in the ranks of
the walk's direction; what a walk must meet (`steady`) is in both chains, so that
the order it is met in is that of `Content`, reversed on the way back
(`OrderOnWalk`). `IterInv` is the safe iterator's part: the node it goes to next
is still in the chain of its direction, and all nodes of `due` are there too,
with ranks that are not smaller. Nothing is said of the node it stands on, which
may have been given back and linked in elsewhere.

None of the properties is inductive. `ChainsMirror` speaks of states in which no
operation is under way and says nothing about those in between, and
`SafeIterationMeetsAll` depends on the links of nodes that the iterator has not
come to. The steps of the refinement: the third store of an insertion is
`Insert`, the fourth settles the node; the first store of a removal unsettles the
node, the second takes it out; `rcuDlistRest` does the same with all nodes at
once; the iterator's steps change nothing that a reader can see. TLC checked the
invariant before it was proved, on three nodes with ranks up to 3 (65,839
states).

### Sizes

`RCUSizesProofs` proves `SizesTypeCorrect`, `SizesRoundUp`, `SizesPartitioned`
and `SizesTwins` for every width from 3 to 32 bits, all arguments and all hashes.
The invariant `IInv` says that a count is what was asked for, rounded up, or 0
before the first call; with it the four properties are statements about numbers.

* *Words.* `Pow` unfolds as its definition says (`PowUnfolds`), shifts add up
  (`ShiftTwice`), a word is determined by its bits (`BitsInjective`) and every
  set of places is the set of bits of a word (`WordsExist`). Hence `|` and `&`
  have the bits they should (`OrBits`, `AndBits`).
* *Rounding.* If a place holds a one just where one of the n places from it
  upward did at first, then after `v |= v >> n` it does so for 2n places
  (`SpreadDoubles`); five shifts reach 32 places (`SmearBits`). So `Smear` sets all places up to the
  highest one (`SmearFills`), and one more is the next power of two
  (`UpperBound`), or 2^W, which is 0.
* *Masks.* The bits of 2^k - 1 are the k lowest (`MaskBits`), so masking is a
  remainder (`MaskedIsMod`). Then the shared counters of a row are all those
  after the private ones (`SharedCounters`, `OwnCounters`), and a remainder modulo
  2p is the one modulo p or that plus p.

Where one would use induction over places or exponents the proofs take a least
counterexample (`RankLemmas`).

### What is assumed

Constants: readers of a zone, threads, and nodes of tables and lists are finite sets, zones are
natural numbers, bucket counts are powers of two up to 65536, of which the first
is at most `MaxBuckets` (each is a named ASSUME, evaluated by TLC in the runs).
`SizesAssumption` bounds the width as above and the hardware threads by an eighth
of 2^W, so that `nrBucketsPerEpoch` cannot overflow.
The theorems about the table and the lists are about the abstract grace period;
`ZoneRefines` shows that the zone provides it, under `Discipline`.

Only model-checked: liveness (`SyncReturns` of the zone and of nested zones,
`LockReturns`, `ImplementsFairGracePeriod`, `CallsReturn`, `LookupsEnd`,
`RoundsGoOn`), which like enabledness is outside of the prover's logic. Every
invariant, action property and safety refinement that a passing run checks is a
theorem.

## 5. Where the code and its documentation differ

See "findings" in `PROJECT.json`: two writers on one zone, `size` as the number
of insertions, and the append that compares the wrong elements.

Further observations, without a run of their own (all but the last are
behaviours of the models):

* A thread that registers inside a section unlocks in another bucket than it
  locked in (`RCU.cpp` 125 fetches the bucket again). A later `rcuSynchronize`
  spins for ever. `RCUApi.h` 23-24 recommends registration before zones are
  initialized and does not require it.
* `nextBucketId` is incremented before it is compared with the limit (`RCU.cpp`
  45), refused registrations included. After 2^31 calls it is negative and is
  stored as an identifier; with a small `IntMax` and enough calls
  `UniqueBuckets` fails.
* A lookup applies the predicate to every node on the chain, not only to those
  with an equal hash as `RCUHashTableCoreApi.h` 121-123 says.
* A table that was filled and emptied does not shrink (`RCUHashTable.cpp` 401),
  for the reason that `table_load_factor` shows on the expanding side.
* The memory orders of `rcuReadLock` and `rcuSynchronize`, see `RCUZone` above.
  An x86 build does not show it.

Seen while reading and not checked: "will not do any synchronization" above
`rTableCoreTryDetachAutoShrink`, which does when it shrinks;
`rTableTryDetachNoShrink`, which calls a function that does not exist
(`RCUHashTableApi.h` 26-29); `rcuDlistRGetHead`, which takes a forward iterator;
a comparison of `p0` with itself (`RCUTableTests.cpp` 306-308) and a pointer
tested after it was used (423-424) in the tests; the comment "removes and add
back" in `main.cpp` 79, where nothing is added back.

## 6. Not modelled

Releasing a zone or a table (no user may be left by contract), failed
allocation, memory orders weaker than one sequence, load factors that are
not integers, the benchmarks' other loops (mutexes, shared pointers, timing),
build files.

## 7. What could follow

1. The table and the lists over `RCUZone` itself, as `RCUPointer` is. Their
   theorems are about `RCUGracePeriod`, which the zone implements.
2. The zone under weaker memory orders, see section 2.
3. Releasing a zone or a table, with the contract that nobody uses it.
