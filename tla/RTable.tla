-------------------------------- MODULE RTable --------------------------------
(***************************************************************************)
(* The relativistic hash table (RCUHashTable.cpp, RCUHashTableCoreApi.h,   *)
(* the list operations of RcuSinglyLinkedListApi.h it uses): bucket arrays *)
(* and chains of nodes, which readers walk without locks while one writer  *)
(* at a time inserts, detaches, doubles the buckets by unzipping chains or *)
(* halves them by joining chains.                                          *)
(*                                                                         *)
(* Each load of a reader and each store of the writer that a reader can    *)
(* see is an action of its own.  The writer's loads, its stores to memory  *)
(* that no reader can reach yet, and the size counter, which readers do    *)
(* not use, are folded into the store they precede or follow.  The zone is *)
(* RCUGracePeriod, which RCUZone implements.                               *)
(***************************************************************************)
EXTENDS Integers, FiniteSets, SequencesExt

CONSTANTS
  Readers,
  writer,        \* the thread that holds the users' writer lock
  Nodes,         \* the RNodes of the user
  Keys,          \* what the user's predicates compare
  Key,           \* Key[n]: the key in node n
  Hash,          \* Hash[k]: the hash the user passes with key k
  NULL,          \* nullptr
  nrBuckets,     \* initial number of buckets
  expandFactor,
  shrinkFactor,
  minShrinkSize, \* 128: smaller tables do not shrink by themselves
  MaxBuckets,    \* bound: no call doubles a table of this many buckets
  MaxInserts     \* bound: insertions in a behaviour

Powers ==
  {1, 2, 4, 8, 16, 32, 64, 128, 256, 512, 1024, 2048, 4096, 8192, 16384, 32768, 65536}

ASSUME TableAssumption ==
  /\ Key \in [Nodes -> Keys]
  /\ Hash \in [Keys -> Nat]
  /\ NULL \notin Nodes \cup Keys
  /\ IsFiniteSet(Nodes)
  /\ nrBuckets \in Powers /\ MaxBuckets \in Powers /\ nrBuckets <= MaxBuckets
  /\ {expandFactor, shrinkFactor, minShrinkSize, MaxInserts} \subseteq Nat

VARIABLES
  next,        \* next[n]: RcuSlistHead::next of node n
  buckets,     \* the heads of the current and of the old bucket array
  current,     \* pBucketsInfo: which of the two is published
  size,        \* std::atomic<size_t> size
  limbo,       \* nodes detached that their owner may not reuse yet
  members,     \* the content: changed where a store makes it so
  wpc,         \* where the writer is
  iHalf,       \* writer local: the bucket of the loop in expand or shrink
  allFinished, \* writer local: no bucket has needed unzipping in this pass
  releases,    \* does the call under way end with its nodes given back?
  inside,      \* the zone: readers in a section
  syncing,     \* the zone: the writer, while in rcuSynchronize
  waiting,     \* the zone: the sections rcuSynchronize waits for
  rpc,         \* where each reader is
  target,      \* reader local: the key it looks up, or NULL
  array,       \* reader local: the bucket array it loaded
  pos,         \* reader local: the node it has reached
  held,        \* reader local: nodes found in this section
  answers      \* what the lookup may answer, see RTableMap

Zone == INSTANCE RCUGracePeriod WITH Writers <- {writer}

tableVars == <<next, buckets, current, size, limbo, members>>
writerVars == <<wpc, iHalf, allFinished, releases>>
zoneVars == <<inside, syncing, waiting>>
readerVars == <<rpc, target, array, pos, held>>
vars == <<tableVars, writerVars, zoneVars, readerVars, answers>>

-----------------------------------------------------------------------------
(* Bucket arrays and chains.                                                *)

Arrays == {0, 1}

\* The array that is not published: being built, being replaced, or free.
other == 1 - current

free == <<>>

NrBuckets(a) == Cardinality(DOMAIN buckets[a])

\* hash & mask, for a table of m buckets.
BucketOf(n, m) == Hash[Key[n]] % m

\* The nodes from p to the end of its chain, in order.
Chain(p) ==
  LET at[i \in 0 .. Cardinality(Nodes)] ==
        IF i = 0 THEN p ELSE IF at[i - 1] = NULL THEN NULL ELSE next[at[i - 1]]
      length == Cardinality({i \in DOMAIN at : at[i] # NULL})
  IN  [i \in 1 .. length |-> at[i - 1]]

\* The first node of bucket b on the chain from p.
FirstOf(p, b, m) ==
  LET i == SelectInSeq(Chain(p), LAMBDA n : BucketOf(n, m) = b)
  IN  IF i = 0 THEN NULL ELSE Chain(p)[i]

\* The last node before the chain from p first changes bucket; NULL if it
\* never does.
SegmentEnd(p, m) ==
  LET i == SelectInSeq(Chain(p), LAMBDA n : BucketOf(n, m) # BucketOf(p, m))
  IN  IF i = 0 THEN NULL ELSE Chain(p)[i - 1]

BucketOfKey(k) == Hash[k] % NrBuckets(current)

\* The first match on the chain that a writer searches.
Match(k) ==
  LET chain == Chain(buckets[current][BucketOfKey(k)])
      i == SelectInSeq(chain, LAMBDA n : Key[n] = k)
  IN  IF i = 0 THEN NULL ELSE chain[i]

-----------------------------------------------------------------------------

Heads(m) == [0 .. m - 1 -> Nodes \cup {NULL}]

WriterPC ==
  {"idle", "expand", "starts", "unzip", "shrink", "publish", "free"}
    \cup {"published", "passed", "shrunk", "sync"}

TypeOK ==
  /\ next \in [Nodes -> Nodes \cup {NULL}]
  /\ current \in Arrays
  /\ \A a \in Arrays : \E m \in Powers \cup {0} : buckets[a] \in Heads(m)
  /\ buckets[current] # free
  /\ size \in 0 .. MaxInserts
  /\ members \subseteq Nodes
  /\ limbo \subseteq Nodes \ members
  /\ wpc \in WriterPC
  /\ iHalf \in 0 .. MaxBuckets
  /\ allFinished \in BOOLEAN
  /\ releases \in BOOLEAN
  /\ Zone!TypeOK
  /\ rpc \in [Readers -> {"out", "section", "head", "walk"}]
  /\ target \in [Readers -> Keys \cup {NULL}]
  /\ array \in [Readers -> Arrays]
  /\ pos \in [Readers -> Nodes \cup {NULL}]
  /\ held \in [Readers -> SUBSET Nodes]
  /\ answers \in [Readers -> SUBSET (Nodes \cup {NULL})]

Init ==
  /\ next = [n \in Nodes |-> NULL]
  /\ buckets = [a \in Arrays |->
       IF a = 0 THEN [b \in 0 .. nrBuckets - 1 |-> NULL] ELSE free]
  /\ current = 0
  /\ size = 0
  /\ members = {}
  /\ limbo = {}
  /\ wpc = "idle"
  /\ iHalf = 0
  /\ allFinished = TRUE
  /\ releases = FALSE
  /\ Zone!Init
  /\ rpc = [r \in Readers |-> "out"]
  /\ target = [r \in Readers |-> NULL]
  /\ array = [r \in Readers |-> 0]
  /\ pos = [r \in Readers |-> NULL]
  /\ held = [r \in Readers |-> {}]
  /\ answers = [r \in Readers |-> {}]

-----------------------------------------------------------------------------
(* Readers: a section, and lookups in it.                                   *)

Reader(r, from, to) ==
  /\ rpc[r] = from
  /\ rpc' = [rpc EXCEPT ![r] = to]
  /\ UNCHANGED <<tableVars, writerVars>>

ReadLock(r) ==
  /\ Reader(r, "out", "section")
  /\ Zone!ReadLock(r)
  /\ UNCHANGED <<target, array, pos, held, answers>>

\* What was found may not be used after the section.
ReadUnlock(r) ==
  /\ Reader(r, "section", "out")
  /\ Zone!ReadUnlock(r)
  /\ held' = [held EXCEPT ![r] = {}]
  /\ UNCHANGED <<target, array, pos, answers>>

\* The member with key k, if the content were S.
NodeOf(S, k) ==
  IF \E n \in S : Key[n] = k THEN CHOOSE n \in S : Key[n] = k ELSE NULL

\* rTableCoreFind loads the published array ...
FindStart(r, k) ==
  /\ Reader(r, "section", "head")
  /\ target' = [target EXCEPT ![r] = k]
  /\ array' = [array EXCEPT ![r] = current]
  /\ answers' = [answers EXCEPT ![r] = {NodeOf(members, k)}]
  /\ UNCHANGED <<zoneVars, pos, held>>

\* ... then the head of the key's bucket ...
LoadHead(r) ==
  /\ Reader(r, "head", "walk")
  /\ pos' = [pos EXCEPT ![r] =
       buckets[array[r]][Hash[target[r]] % NrBuckets(array[r])]]
  /\ UNCHANGED <<zoneVars, target, array, held, answers>>

\* ... and follows the chain until the predicate holds or the chain ends.
LoadNext(r) ==
  /\ pos[r] # NULL
  /\ Key[pos[r]] # target[r]
  /\ Reader(r, "walk", "walk")
  /\ pos' = [pos EXCEPT ![r] = next[pos[r]]]
  /\ UNCHANGED <<zoneVars, target, array, held, answers>>

FindEnd(r) ==
  /\ pos[r] # NULL => Key[pos[r]] = target[r]
  /\ Reader(r, "walk", "section")
  /\ held' = [held EXCEPT ![r] = @ \cup ({pos[r]} \ {NULL})]
  /\ pos' = [pos EXCEPT ![r] = NULL]
  /\ target' = [target EXCEPT ![r] = NULL]
  /\ answers' = [answers EXCEPT ![r] = {}]
  /\ array' = [array EXCEPT ![r] = 0]
  /\ UNCHANGED zoneVars

-----------------------------------------------------------------------------
(* Writers.  They are serialized: the next call begins when the last one    *)
(* has returned.                                                            *)

Writer(from, to) ==
  /\ wpc = from
  /\ wpc' = to
  /\ UNCHANGED <<zoneVars, readerVars>>

\* The store of this step makes the content S.
ContentBecomes(S) ==
  /\ members' = S
  /\ answers' = [r \in Readers |->
       IF target[r] = NULL THEN {} ELSE answers[r] \cup {NodeOf(S, target[r])}]

\* rcuSlistPrependIfNoMatch, or the prepend of rTableCoreInsertNoExpand.
Prepend(n) ==
  LET b == BucketOfKey(Key[n]) IN
  /\ next' = [next EXCEPT ![n] = buckets[current][b]]
  /\ buckets' = [buckets EXCEPT ![current][b] = n]
  /\ size' = size + 1
  /\ ContentBecomes(members \cup {n})
  /\ UNCHANGED <<current, limbo, iHalf, allFinished, releases>>

\* The users insert no node that is in the table or not yet given back to
\* them; the code does not check it.
MayInsert(n) == size < MaxInserts /\ n \notin members \cup limbo

TryInsertNoExpand(n) ==
  /\ MayInsert(n)
  /\ Match(Key[n]) = NULL
  /\ Writer("idle", "idle")
  /\ Prepend(n)

TryInsert(n) ==
  /\ MayInsert(n)
  /\ Match(Key[n]) = NULL
  /\ LET expands == size + 1 > expandFactor * NrBuckets(current) IN
       /\ expands => NrBuckets(current) < MaxBuckets
       /\ Writer("idle", IF expands THEN "expand" ELSE "idle")
  /\ Prepend(n)

\* rcuSlistRemoveIf on the bucket of key k.
Unlink(n) ==
  LET b == BucketOfKey(Key[n])
      chain == Chain(buckets[current][b])
      i == SelectInSeq(chain, LAMBDA m : m = n)
  IN
  /\ IF i = 1
     THEN /\ buckets' = [buckets EXCEPT ![current][b] = next[n]]
          /\ UNCHANGED next
     ELSE /\ next' = [next EXCEPT ![chain[i - 1]] = next[n]]
          /\ UNCHANGED buckets
  /\ limbo' = limbo \cup {n}
  /\ ContentBecomes(members \ {n})
  /\ UNCHANGED <<current, size, iHalf, allFinished>>

TryDetachNoShrink(k) ==
  /\ Match(k) # NULL
  /\ Writer("idle", "idle")
  /\ Unlink(Match(k))
  /\ UNCHANGED releases

\* shrinkBucketsByFac2IfNecessary; a single bucket is not halved.
Shrinks ==
  /\ size < shrinkFactor * NrBuckets(current)
  /\ size > minShrinkSize
  /\ NrBuckets(current) > 1

\* Tells its caller that the readers have expired if it did shrink.
TryDetachAutoShrink(k) ==
  /\ Match(k) # NULL
  /\ Writer("idle", IF Shrinks THEN "shrink" ELSE "idle")
  /\ Unlink(Match(k))
  /\ releases' = Shrinks

\* Synchronizes unless shrinking has.
TryDetachAndSynchronize(k) ==
  /\ Match(k) # NULL
  /\ Writer("idle", IF Shrinks THEN "shrink" ELSE "sync")
  /\ Unlink(Match(k))
  /\ releases' = TRUE

\* rTableSynchronize after some detaches.
Synchronize ==
  /\ limbo # {}
  /\ Writer("idle", "sync")
  /\ releases' = TRUE
  /\ UNCHANGED <<tableVars, iHalf, allFinished, answers>>

\* rcuSynchronize: from each of these places the writer goes on to ...
Continuation ==
  [published |-> "starts", passed |-> "unzip", shrunk |-> "free", sync |-> "idle"]

SyncStart ==
  /\ wpc \in DOMAIN Continuation
  /\ Zone!SyncStart(writer)
  /\ UNCHANGED <<tableVars, writerVars, readerVars, answers>>

\* Detached nodes go back to their owner, who may delete them or write to
\* them, when its call returns.
GiveBackIf(gives) ==
  /\ limbo' = IF gives THEN {} ELSE limbo
  /\ next' = [n \in Nodes |-> IF gives /\ n \in limbo THEN NULL ELSE next[n]]
  /\ releases' = IF gives THEN FALSE ELSE releases

SyncEnd ==
  /\ Zone!SyncEnd(writer)
  /\ wpc' = Continuation[wpc]
  /\ GiveBackIf(wpc = "sync")
  /\ iHalf' = 0
  /\ allFinished' = TRUE
  /\ UNCHANGED <<buckets, current, size, members, readerVars, answers>>

-----------------------------------------------------------------------------
(* Doubling the buckets: expandBucketsByFac2ReturnOld.                      *)

ExpandBuckets2x ==
  /\ NrBuckets(current) < MaxBuckets
  /\ Writer("idle", "expand")
  /\ UNCHANGED <<tableVars, iHalf, allFinished, releases, answers>>

\* Each bucket of the new array starts at its first node on the old chain,
\* where nodes of both halves are still mixed.
initTwinDstBuckets(m) ==
  [b \in 0 .. 2 * m - 1 |-> FirstOf(buckets[current][b % m], b, 2 * m)]

Publish(from, to, newBuckets) ==
  /\ Writer(from, to)
  /\ buckets' = [buckets EXCEPT ![other] = newBuckets]
  /\ current' = other
  /\ UNCHANGED <<next, size, limbo, members, iHalf, allFinished, releases, answers>>

\* Mutant: unzipping begins without waiting for readers of the old array.
MutantExpandNoSync == Publish("expand", "starts", initTwinDstBuckets(NrBuckets(current)))

PublishExpanded == Publish("expand", "published", initTwinDstBuckets(NrBuckets(current)))

\* The old array, which readers have left, keeps for every bucket the node
\* at which its chain must be cut next, or NULL.
findFirstUnzipStarts ==
  LET starts == [b \in DOMAIN buckets[other] |->
        IF buckets[other][b] = NULL
        THEN NULL
        ELSE SegmentEnd(buckets[other][b], NrBuckets(current))]
  IN
  /\ Writer("starts", IF \A b \in DOMAIN starts : starts[b] = NULL
                      THEN "free" ELSE "unzip")
  /\ buckets' = [buckets EXCEPT ![other] = starts]
  /\ UNCHANGED <<next, current, size, limbo, members, iHalf, allFinished,
                 releases, answers>>

Cut == buckets[other][iHalf]

NextCut == SegmentEnd(next[Cut], NrBuckets(current))

BeyondNextCut == IF NextCut = NULL THEN NULL ELSE next[NextCut]

UnzipWith(cut, continued) ==
  /\ iHalf < NrBuckets(other)
  /\ Cut # NULL
  /\ Writer("unzip", "unzip")
  /\ buckets' = [buckets EXCEPT ![other][iHalf] = cut]
  /\ next' = [next EXCEPT ![Cut] = continued]
  /\ iHalf' = iHalf + 1
  /\ allFinished' = FALSE
  /\ UNCHANGED <<current, size, limbo, members, releases, answers>>

\* Mutant: the chain is cut but not continued.
MutantCutOnly == UnzipWith(NextCut, NULL)

\* Mutant: the last cut of a chain is not recorded as its end.
MutantNeverFinished == UnzipWith(IF NextCut = NULL THEN Cut ELSE NextCut, BeyondNextCut)

\* The chain is cut behind a node and continued with the next node of that
\* node's own bucket; the segment in between ends at the next cut.
unzipOneSegment == UnzipWith(NextCut, BeyondNextCut)

SkipUnzipped ==
  /\ iHalf < NrBuckets(other)
  /\ buckets[other][iHalf] = NULL
  /\ Writer("unzip", "unzip")
  /\ iHalf' = iHalf + 1
  /\ UNCHANGED <<tableVars, allFinished, releases, answers>>

\* Mutant: the next segment is unzipped without a grace period in between.
MutantPassNoSync ==
  /\ iHalf = NrBuckets(other)
  /\ Writer("unzip", IF allFinished THEN "free" ELSE "unzip")
  /\ iHalf' = 0
  /\ allFinished' = TRUE
  /\ UNCHANGED <<tableVars, releases, answers>>

\* One segment per bucket and grace period.
UnzipPassEnd ==
  /\ iHalf = NrBuckets(other)
  /\ Writer("unzip", IF allFinished THEN "free" ELSE "passed")
  /\ UNCHANGED <<tableVars, iHalf, allFinished, releases, answers>>

-----------------------------------------------------------------------------
(* Halving the buckets: shrinkBucketsByFac2ReturnOld.                       *)

\* A table of one bucket is left as it is.
ShrinkBuckets2x ==
  /\ NrBuckets(current) > 1
  /\ Writer("idle", "shrink")
  /\ UNCHANGED <<tableVars, iHalf, allFinished, releases, answers>>

FirstChain == Chain(buckets[current][iHalf])

half == NrBuckets(current) \div 2

Join(last, second) ==
  /\ iHalf < half
  /\ Writer("shrink", IF iHalf + 1 = half THEN "publish" ELSE "shrink")
  /\ next' = IF FirstChain = <<>> \/ buckets[current][iHalf + half] = NULL
             THEN next
             ELSE [next EXCEPT ![last] = second]
  /\ iHalf' = IF iHalf + 1 = half THEN 0 ELSE iHalf + 1
  /\ UNCHANGED <<buckets, current, size, limbo, members, allFinished, releases,
                 answers>>

\* Mutant: the first chain is linked to itself instead of the second one.
MutantLinkToItself == Join(Last(FirstChain), Head(FirstChain))

\* The second half's chain is linked to the end of the first half's.
shrinkTwoBucketsToOne == Join(Last(FirstChain), buckets[current][iHalf + half])

JoinedBuckets ==
  [b \in 0 .. half - 1 |->
     LET first == buckets[current][b]
     IN  IF first # NULL THEN first ELSE buckets[current][b + half]]

\* Mutant: the old array is freed without waiting for its readers.
MutantShrinkNoSync == Publish("publish", "free", JoinedBuckets)

PublishShrunk == Publish("publish", "shrunk", JoinedBuckets)

Free(a) ==
  /\ Writer("free", "idle")
  /\ buckets' = [buckets EXCEPT ![a] = free]
  /\ GiveBackIf(releases)
  /\ iHalf' = 0
  /\ UNCHANGED <<current, size, members, allFinished, answers>>

\* Mutant: the array that was just published is freed.
MutantFreeNew == Free(current)

\* destroyAndFreeBuckets, and the return of the call.
FreeOld == Free(other)

-----------------------------------------------------------------------------

Lookup(r) == LoadHead(r) \/ LoadNext(r) \/ FindEnd(r)

\* The steps that finish a call the writer has begun.
WriterGoesOn ==
  \/ SyncStart \/ SyncEnd
  \/ PublishExpanded \/ findFirstUnzipStarts
  \/ unzipOneSegment \/ SkipUnzipped \/ UnzipPassEnd
  \/ shrinkTwoBucketsToOne \/ PublishShrunk
  \/ FreeOld

Next ==
  \/ \E r \in Readers :
       \/ ReadLock(r) \/ ReadUnlock(r) \/ Lookup(r)
       \/ \E k \in Keys : FindStart(r, k)
  \/ \E n \in Nodes : TryInsertNoExpand(n) \/ TryInsert(n)
  \/ \E k \in Keys :
       \/ TryDetachNoShrink(k) \/ TryDetachAutoShrink(k)
       \/ TryDetachAndSynchronize(k)
  \/ Synchronize \/ ExpandBuckets2x \/ ShrinkBuckets2x
  \/ WriterGoesOn

Spec == Init /\ [][Next]_vars

(***************************************************************************)
(* Threads are scheduled again and again.  A section does finitely many    *)
(* lookups: a reader that can unlock over and over does so.                *)
(***************************************************************************)
Fairness ==
  /\ WF_vars(WriterGoesOn)
  /\ \A r \in Readers : WF_vars(Lookup(r)) /\ SF_vars(ReadUnlock(r))

FairSpec == Spec /\ Fairness

-----------------------------------------------------------------------------
(* Properties.                                                              *)

(***************************************************************************)
(* The table implements RTableMap: while chains are unzipped or joined, a  *)
(* lookup misses no node that was in the table all the time it ran and     *)
(* returns none that was out of it all the time, no key is inserted twice, *)
(* and a node goes back to its owner only when no reader can touch it.     *)
(***************************************************************************)
Map == INSTANCE RTableMap

ImplementsMap == Map!Spec

(***************************************************************************)
(* No reader touches freed memory: the array it loaded is allocated, and   *)
(* the node it stands on and the nodes it has found are not yet given back *)
(* ("it is safe to delete resource of RNode", RCUHashTableCoreApi.h 163).  *)
(***************************************************************************)
NoUseAfterFree ==
  \A r \in Readers :
    /\ rpc[r] = "head" => buckets[array[r]] # free
    /\ {pos[r]} \cup held[r] \subseteq members \cup limbo \cup {NULL}

(***************************************************************************)
(* Every bucket's chain holds the members that hash to the bucket, once    *)
(* each, in every state of a resize, and no others between calls: unzipping*)
(* and joining lose, duplicate and leave behind nothing.                   *)
(***************************************************************************)
ChainsHoldMembers ==
  \A b \in DOMAIN buckets[current] :
    LET chain == Chain(buckets[current][b])
        own == {n \in members : BucketOf(n, NrBuckets(current)) = b}
    IN  /\ own \subseteq Range(chain)
        /\ IsInjective(chain)
        /\ wpc = "idle" => Range(chain) = own

(***************************************************************************)
(* Every call of the writer returns, with readers coming and going: each   *)
(* grace period ends and the unzipping reaches the end of every chain.     *)
(***************************************************************************)
CallsReturn == wpc # "idle" ~> wpc = "idle"

(***************************************************************************)
(* Every lookup ends, whatever the writer does to the chain under it.      *)
(***************************************************************************)
LookupsEnd == \A r \in Readers : target[r] # NULL ~> target[r] = NULL

-----------------------------------------------------------------------------
(* What comments say and the code does not do.                              *)

(***************************************************************************)
(* RCUHashTableTypes.h line 29: "expand when element/buckets-count grows   *)
(* over this factor".  An insertion that doubles the buckets does so       *)
(* because of the number of elements.                                      *)
(***************************************************************************)
ExpandsByElements ==
  [][wpc' = "expand" /\ members' # members =>
       Cardinality(members') > expandFactor * NrBuckets(current)]_vars
=============================================================================
