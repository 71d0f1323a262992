--------------------------- MODULE RcuDlistProofs ---------------------------
(***************************************************************************)
(* Proofs about RcuDlist, for all finite sets of nodes and all readers.    *)
(*                                                                         *)
(* Each of the two chains is described by ranks of its own, as in          *)
(* RcuSlistProofs: links lead upward, past no node of the chain.  Removed  *)
(* nodes may rank differently in the two directions; for nodes in the list *)
(* the ranks of one direction are the reverse of the other's.              *)
(***************************************************************************)
EXTENDS RcuDlist, RankLemmas

-----------------------------------------------------------------------------
(* The inductive invariant.                                                 *)

LinkType == link \in [Directions -> [Nodes \cup {head} -> Nodes \cup {head, NULL}]]

Iterators == [dir : Directions \cup {"none"}, pos : Nodes \cup {head, NULL},
              ahead : Nodes \cup {head, NULL}, gone : BOOLEAN]

VarTypes ==
  /\ LinkType
  /\ Linked \in SUBSET Nodes
  /\ limbo \in SUBSET Nodes
  /\ wpc \in {"idle", "sync", "free", "newPrev", "prevNext", "nextPrev"}
               \cup {"removePrev", "resetNext"}
  /\ prevElem \in Nodes \cup {head, NULL}
  /\ nextElem \in Nodes \cup {head, NULL}
  /\ newElem \in Nodes \cup {NULL}
  /\ it \in Iterators
  /\ due \in SUBSET Nodes
  /\ Zone!TypeOK
  /\ pos \in [Readers -> Nodes \cup {NULL}]
  /\ walk \in [Readers -> Walk!Walks]

InChain(d) == ToSet(Chain(d))

\* The nodes in the list that have been linked in direction d, and all that
\* a walk in this direction may stand on.
LinkedIn(d) == IF d = "forward" THEN Linked ELSE Linked \ {newElem}
Held(d) == LinkedIn(d) \cup limbo

\* Node n leads upward, past no node of S.
Leads(nx, rank, S, n) ==
  IF nx[n] = head
  THEN \A x \in S : rank[x] <= rank[n]
  ELSE /\ rank[n] < rank[nx[n]]
       /\ \A x \in S : rank[n] < rank[x] => rank[nx[n]] <= rank[x]

\* S is the chain of the links nx, L is in the list, T has been removed.
Ordered(nx, rank, S, L, T) ==
  /\ Ranked(rank, L \cup T \cup {head})
  /\ \A n \in L \cup T : rank[head] < rank[n]
  /\ \A n \in L \cup T \cup {head} : Leads(nx, rank, S, n)
  /\ \A n \in S \cup {head} : nx[n] \in S \cup {head}
  /\ \A n \in L : nx[n] \in L \cup {head}
  /\ \A n \in T : nx[n] \in L \cup T \cup {head}

\* The ranks of the two directions are the reverse of one another.
Mirrored(rank, rk, L) ==
  \A x, y \in L : rank[x] <= rank[y] <=> rk[y] <= rk[x]

ChainsInv(rank) ==
  /\ \A d \in Directions : Ordered(link[d], rank[d], InChain(d), LinkedIn(d), limbo)
  /\ Mirrored(rank["forward"], rank["backward"], LinkedIn("backward"))

\* The element is about to be put between prevElem and nextElem.
Inserting ==
  /\ prevElem \in LinkedIn("backward") \cup {head}
  /\ nextElem \in LinkedIn("backward") \cup {head}
  /\ newElem \in Nodes \ (LinkedIn("backward") \cup limbo)
  /\ link["forward"][newElem] = nextElem
  /\ link["backward"][nextElem] = prevElem
  /\ InChain("backward") = LinkedIn("backward")
  /\ InChain("forward") = Linked

\* The node that has been removed from one chain.
Removing == link["backward"][nextElem]

WriterInv ==
  /\ limbo \cap Linked = {}
  /\ wpc = "sync" <=> writer \in syncing
  /\ wpc \in {"idle", "sync", "free", "removePrev", "resetNext"} => newElem = NULL
  /\ wpc \in {"idle", "sync", "free"} =>
       InChain("forward") = Linked /\ InChain("backward") = Linked
  /\ wpc \in {"newPrev", "prevNext"} =>
       Inserting /\ newElem \notin Linked /\ link["forward"][prevElem] = nextElem
  /\ wpc = "prevNext" => link["backward"][newElem] = prevElem
  /\ wpc = "nextPrev" =>
       /\ Inserting /\ newElem \in Linked
       /\ link["forward"][prevElem] = newElem
       /\ link["backward"][newElem] = prevElem
  /\ wpc = "removePrev" =>
       /\ Removing \in Linked
       /\ InChain("forward") = Linked \ {Removing} /\ InChain("backward") = Linked
       /\ link["backward"][Removing] = prevElem
       /\ prevElem \in (Linked \ {Removing}) \cup {head}
       /\ nextElem \in (Linked \ {Removing}) \cup {head}
       /\ Removing # it.ahead /\ Removing \notin due
  /\ wpc = "resetNext" =>
       InChain("forward") = Linked /\ InChain("backward") = {} /\ it = NoIter

\* What the safe iterator has still to meet is ahead of it.
IterInv(rank) ==
  it # NoIter =>
    /\ it.dir \in Directions
    /\ it.ahead \in InChain(it.dir) \cup {head}
    /\ due \subseteq InChain(it.dir)
    /\ \A x \in due : it.ahead # head /\ rank[it.dir][it.ahead] <= rank[it.dir][x]

\* Readers that the writer has not to wait for any more.
Passed(r) == wpc = "free" \/ (wpc = "sync" /\ r \notin waiting[writer])

\* A walk that has come to p has met what it must meet up to there.
Progress(rank, p, w) ==
  /\ \A x \in w.steady : x \in w.seen <=> rank[x] <= rank[p]
  /\ \A x \in w.seen : rank[x] <= rank[p]

Walking(rank, r) ==
  walk[r].dir \in Directions =>
    /\ pos[r] \in walk[r].possible \cap Held(walk[r].dir)
    /\ walk[r].seen \subseteq walk[r].possible \cap Held(walk[r].dir)
    /\ walk[r].steady \subseteq InChain("forward") \cap InChain("backward")
    /\ Progress(rank[walk[r].dir], pos[r], walk[r])

ReaderInv(rank, r) ==
  /\ r \in inside <=> walk[r].dir # "out"
  /\ walk[r].dir = "out" => walk[r] = Walk!Outside
  /\ walk[r].dir # "out" => Linked \subseteq walk[r].possible
  /\ walk[r].dir \in Directions <=> pos[r] # NULL
  /\ walk[r].possible \subseteq Linked \cup limbo
  /\ \A d \in Directions : \A n \in walk[r].possible \cap Held(d) :
       link[d][n] \in walk[r].possible \cup {head}
  /\ Passed(r) => walk[r].possible \cap limbo = {}
  /\ Walking(rank, r)

ListInv ==
  \E rank : ChainsInv(rank) /\ IterInv(rank) /\ \A r \in Readers : ReaderInv(rank, r)

IInv == VarTypes /\ WriterInv /\ ListInv

-----------------------------------------------------------------------------
(* What Chain computes.                                                     *)

\* Chain, along the links nx.
ChainIn(nx) ==
  LET at[i \in 0 .. Cardinality(Nodes) + 1] ==
        IF i = 0 THEN nx[head]
        ELSE IF at[i - 1] \in Nodes THEN nx[at[i - 1]] ELSE NULL
      length == Cardinality({i \in DOMAIN at : at[i] \in Nodes})
  IN  [i \in 1 .. length |-> at[i - 1]]

LEMMA ChainAlong == \A d : Chain(d) = ChainIn(link[d])
  BY DEF Chain, ChainIn

LEMMA ChainAlongPrime == \A d : Chain(d)' = ChainIn(link'[d])
  BY DEF Chain, ChainIn

\* One step along the links.
Follow(nx) == [n \in Nodes \cup {head, NULL} |-> IF n \in Nodes THEN nx[n] ELSE NULL]

\* ChainIn(nx) is the path f, up to where it leaves the nodes.
PathIn(nx, f) ==
  LET M == Cardinality(Nodes) + 1 IN
  /\ IsPath(Nodes \cup {head, NULL}, Follow(nx), nx[head], M, f)
  /\ ChainIn(nx) = [i \in 1 .. Cardinality({i \in 0 .. M : f[i] \in Nodes}) |-> f[i - 1]]

LEMMA NodesNumber == Cardinality(Nodes) \in Nat
  BY DlistAssumption, FS_CardinalityType

LEMMA ChainFollows ==
  ASSUME NEW nx \in [Nodes \cup {head} -> Nodes \cup {head, NULL}]
  PROVE  \E f : PathIn(nx, f)
  <1> DEFINE M == Cardinality(Nodes) + 1
             V == Nodes \cup {head, NULL}
             p == nx[head]
             Step(f, i) == IF i = 0 THEN p ELSE IF f[i - 1] \in Nodes THEN nx[f[i - 1]] ELSE NULL
             at == CHOOSE f : f = [i \in 0 .. M |-> Step(f, i)]
  <1>0. M \in Nat /\ p \in V
    BY NodesNumber
  <1>1. Follow(nx) \in [V -> V]
    BY DEF Follow
  <1>2. PICK h : IsPath(V, Follow(nx), p, M, h)
    <2> HIDE DEF V, p, M
    <2>1. QED
      BY <1>0, <1>1, PathExists
  <1>3. h = [i \in 0 .. M |-> Step(h, i)]
    <2>1. ASSUME NEW i \in 0 .. M PROVE h[i] = Step(h, i)
      <3>1. CASE i = 0
        BY <1>2, <3>1 DEF IsPath
      <3>2. CASE i # 0
        <4>1. i \in 1 .. M /\ i - 1 \in 0 .. M
          BY <1>0, <3>2
        <4>2. h[i] = Follow(nx)[h[i - 1]] /\ h[i - 1] \in V
          BY <1>2, <4>1 DEF IsPath
        <4>3. QED
          BY <3>2, <4>2 DEF Follow
      <3>3. QED
        BY <3>1, <3>2
    <2>2. QED
      BY <1>2, <2>1 DEF IsPath
  <1>4. at = [i \in 0 .. M |-> Step(at, i)]
    BY <1>3
  <1>5. ChainIn(nx)
          = [i \in 1 .. Cardinality({i \in DOMAIN at : at[i] \in Nodes}) |-> at[i - 1]]
    BY DEF ChainIn
  <1> HIDE DEF at
  <1>6. DOMAIN at = 0 .. M /\ \A i \in 0 .. M : at[i] = Step(at, i)
    BY <1>4
  <1>7. \A i \in 0 .. M : at[i] \in V
    <2>1. SUFFICES ASSUME NEW i \in 0 .. M PROVE at[i] \in V
      OBVIOUS
    <2>2. CASE i = 0
      BY <1>0, <1>6, <2>2
    <2>3. CASE i # 0
      BY <1>6, <2>3
    <2>4. QED
      BY <2>2, <2>3
  <1>8. at \in [0 .. M -> V]
    BY <1>4, <1>7
  <1>9. at[0] = p /\ \A i \in 1 .. M : at[i] = Follow(nx)[at[i - 1]]
    BY <1>0, <1>6, <1>7 DEF Follow
  <1>10. QED
    BY <1>5, <1>6, <1>8, <1>9 DEF IsPath, PathIn

\* The sequence c lists the nodes of S.
Lists(c, rank, S) ==
  /\ Len(c) \in Nat /\ c = [i \in 1 .. Len(c) |-> c[i]]
  /\ \A i \in 1 .. Len(c) : c[i] \in S
  /\ \A i, j \in 1 .. Len(c) : i < j => rank[c[i]] < rank[c[j]]
  /\ \A x \in S : \E i \in 1 .. Len(c) : c[i] = x

(***************************************************************************)
(* Following the links lists the chain, in the order of ranks.             *)
(***************************************************************************)
LEMMA ChainLists ==
  ASSUME NEW nx \in [Nodes \cup {head} -> Nodes \cup {head, NULL}],
         NEW rank, NEW L \in SUBSET Nodes, NEW T \in SUBSET Nodes, NEW S \in SUBSET L,
         Ordered(nx, rank, S, L, T)
  PROVE  Lists(ChainIn(nx), rank, S)
  <1> DEFINE M == Cardinality(Nodes) + 1
             c == ChainIn(nx)
  <1>0. M \in Nat /\ head \notin Nodes /\ NULL \notin Nodes \cup {head}
    BY NodesNumber, DlistAssumption
  <1>1. PICK f : PathIn(nx, f)
    BY ChainFollows
  <1>2. /\ Ranked(rank, S) /\ rank[head] \in Int
        /\ \A n \in S : rank[head] < rank[n] /\ rank[n] \in Int
        /\ \A n \in S \cup {head} : Leads(nx, rank, S, n) /\ nx[n] \in S \cup {head}
    BY DEF Ordered, Ranked
  <1>3. IsFiniteSet(S) /\ Cardinality(S) <= M
    <2>1. IsFiniteSet(S) /\ Cardinality(S) <= Cardinality(Nodes)
      BY DlistAssumption, FS_Subset
    <2>2. Cardinality(S) \in Nat
      BY <2>1, FS_CardinalityType
    <2>3. QED
      BY <2>1, <2>2, NodesNumber
  <1>4. /\ \A i \in 0 .. M : f[i] \in Nodes \cup {head, NULL}
        /\ f[0] = nx[head]
        /\ \A i \in 1 .. M : f[i] = Follow(nx)[f[i - 1]] /\ i - 1 \in 0 .. M
    BY <1>0, <1>1 DEF PathIn, IsPath
  <1>5. \A i \in 1 .. M : f[i] = IF f[i - 1] \in Nodes THEN nx[f[i - 1]] ELSE NULL
    BY <1>4 DEF Follow
  <1>6. \A i \in 0 .. M : f[i] \in S \cup {head, NULL}
    <2> DEFINE Bad == {i \in 0 .. M : f[i] \notin S \cup {head, NULL}}
    <2>1. SUFFICES ASSUME Bad # {} PROVE FALSE
      OBVIOUS
    <2>2. PICK i \in Bad : \A j \in Bad : i <= j
      <3>1. Bad \in SUBSET (0 .. M)
        OBVIOUS
      <3> HIDE DEF Bad
      <3>2. QED
        BY <1>0, <2>1, <3>1, LeastIndex
    <2>3. i \in 1 .. M
      BY <1>0, <1>2, <1>4
    <2>4. f[i - 1] \in S \cup {head, NULL}
      BY <1>0, <2>2, <2>3
    <2>5. QED
      BY <1>0, <1>2, <1>5, <2>3, <2>4
  <1>7. \A i \in 0 .. M : f[i] \in Nodes <=> f[i] \in S
    BY <1>0, <1>6
  <1>8. IsWalk(rank, S, M, f)
    <2>1. ASSUME NEW i \in 1 .. M, f[i - 1] \in S
          PROVE  \/ IsSuccessor(rank, S, f[i - 1], f[i])
                 \/ f[i] \notin S /\ IsGreatest(rank, S, f[i - 1])
      <3>1. f[i] = nx[f[i - 1]] /\ f[i] \in S \cup {head} /\ Leads(nx, rank, S, f[i - 1])
        BY <1>2, <1>5, <2>1
      <3>2. CASE f[i] = head
        BY <1>0, <3>1, <3>2 DEF Leads, IsGreatest
      <3>3. CASE f[i] # head
        BY <3>1, <3>3 DEF Leads, IsSuccessor
      <3>4. QED
        BY <3>2, <3>3
    <2>2. ASSUME NEW i \in 1 .. M, f[i - 1] \notin S PROVE f[i] \notin S
      BY <1>0, <1>4, <1>5, <1>7, <2>2
    <2>3. QED
      BY <2>1, <2>2 DEF IsWalk
  <1>9. CASE nx[head] = head
    <2>1. S = {}
      BY <1>2, <1>9 DEF Leads
    <2>2. {i \in 0 .. M : f[i] \in Nodes} = {}
      BY <1>7, <2>1
    <2>3. c = [i \in 1 .. 0 |-> f[i - 1]]
      BY <1>1, <2>2, FS_EmptySet DEF PathIn
    <2> HIDE DEF c
    <2>4. Len(c) = 0
      BY <2>3
    <2>5. Lists(c, rank, S)
      BY <2>1, <2>3, <2>4 DEF Lists
    <2>6. QED
      BY <2>5 DEF c
  <1>10. CASE nx[head] # head
    <2>1. f[0] \in S /\ \A x \in S : rank[f[0]] <= rank[x]
      BY <1>2, <1>4, <1>10 DEF Leads
    <2>2. PICK length \in 1 .. M : Enumerates(rank, S, M, f, length)
      <3> HIDE DEF M
      <3>1. QED
        BY <1>0, <1>2, <1>3, <1>8, <2>1, WalkEnumerates
    <2>3. {i \in 0 .. M : f[i] \in Nodes} = 0 .. length - 1
      BY <1>0, <1>7, <2>2 DEF Enumerates
    <2>4. Cardinality(0 .. length - 1) = length
      BY <1>0, <2>2, FS_Interval
    <2>5. c = [i \in 1 .. length |-> f[i - 1]]
      BY <1>1, <2>3, <2>4 DEF PathIn
    <2> HIDE DEF c
    <2>6. /\ length \in Nat /\ Len(c) = length
          /\ \A i \in 1 .. length : c[i] = f[i - 1]
      BY <1>0, <2>2, <2>5
    <2>7. ASSUME NEW i \in 1 .. length PROVE c[i] \in S
      <3>1. i - 1 \in 0 .. M /\ i - 1 < length
        BY <1>0, <2>2, <2>6
      <3>2. QED
        BY <2>2, <2>6, <3>1 DEF Enumerates
    <2>8. ASSUME NEW i \in 1 .. length, NEW j \in 1 .. length, i < j
          PROVE  rank[c[i]] < rank[c[j]]
      <3>1. i - 1 \in 0 .. length - 1 /\ j - 1 \in 0 .. length - 1 /\ i - 1 < j - 1
        BY <2>6, <2>8
      <3>2. QED
        BY <2>2, <2>6, <3>1 DEF Enumerates
    <2>9. ASSUME NEW x \in S PROVE \E i \in 1 .. length : c[i] = x
      <3>1. PICK k \in 0 .. length - 1 : f[k] = x
        BY <2>1, <2>2 DEF Enumerates
      <3>2. k + 1 \in 1 .. length /\ (k + 1) - 1 = k
        BY <2>6
      <3>3. QED
        BY <2>6, <3>1, <3>2
    <2>10. Lists(c, rank, S)
      BY <2>5, <2>6, <2>7, <2>8, <2>9 DEF Lists
    <2>11. QED
      BY <2>10 DEF c
  <1>11. QED
    BY <1>9, <1>10

(***************************************************************************)
(* A list is as long as its nodes are many, and there is only one.         *)
(***************************************************************************)
LEMMA ListsLength ==
  ASSUME NEW S, NEW rank, Ranked(rank, S), NEW c, Lists(c, rank, S)
  PROVE  Len(c) = Cardinality(S)
  <1>1. /\ Len(c) \in Nat /\ c = [i \in 1 .. Len(c) |-> c[i]]
        /\ \A i \in 1 .. Len(c) : c[i] \in S /\ rank[c[i]] \in Int
        /\ \A i, j \in 1 .. Len(c) : i < j => rank[c[i]] < rank[c[j]]
        /\ \A x \in S : \E i \in 1 .. Len(c) : c[i] = x
    BY DEF Lists, Ranked
  <1>2. c \in [1 .. Len(c) -> S]
    BY <1>1
  <1>3. \A i, j \in 1 .. Len(c) : c[i] = c[j] => i = j
    <2>1. SUFFICES ASSUME NEW i \in 1 .. Len(c), NEW j \in 1 .. Len(c), c[i] = c[j] PROVE i = j
      OBVIOUS
    <2>2. ~(i < j) /\ ~(j < i)
      BY <1>1, <2>1
    <2>3. QED
      BY <1>1, <2>2
  <1>4. c \in Injection(1 .. Len(c), S) /\ c \in Surjection(1 .. Len(c), S)
    <2>1. DOMAIN c = 1 .. Len(c)
      BY <1>2
    <2>2. QED
      BY <1>1, <1>2, <1>3, <2>1 DEF Injection, Surjection, IsInjective
  <1>5. IsFiniteSet(1 .. Len(c)) /\ Cardinality(1 .. Len(c)) = Len(c)
    <2>1. Len(c) \in Nat
      BY <1>1
    <2>2. QED
      BY <2>1, FS_Interval
  <1>6. QED
    BY <1>4, <1>5, FS_Surjection

LEMMA ListsUnique ==
  ASSUME NEW S, NEW rank, NEW rk, Ranked(rank, S), Ranked(rk, S),
         \A x, y \in S : rank[x] <= rank[y] <=> rk[x] <= rk[y],
         NEW c, NEW b, Lists(c, rank, S), Lists(b, rk, S)
  PROVE  c = b
  <1>1. Len(b) = Len(c)
    BY ListsLength
  <1> DEFINE N == Len(c)
             Bad == {i \in 0 .. N : i # 0 /\ c[i] # b[i]}
  <1>2. /\ N \in Nat /\ c = [i \in 1 .. N |-> c[i]] /\ b = [i \in 1 .. N |-> b[i]]
        /\ \A i \in 1 .. N : c[i] \in S /\ b[i] \in S
        /\ \A i, j \in 1 .. N : i < j => rank[c[i]] < rank[c[j]] /\ rk[b[i]] < rk[b[j]]
        /\ \A x \in S : \E i \in 1 .. N : c[i] = x
        /\ \A x \in S : \E i \in 1 .. N : b[i] = x
        /\ \A x \in S : rank[x] \in Int /\ rk[x] \in Int
    BY <1>1 DEF Lists, Ranked
  <1> HIDE DEF N
  <1>3. Bad = {}
    <2>1. SUFFICES ASSUME Bad # {} PROVE FALSE
      OBVIOUS
    <2>2. PICK i \in Bad : \A j \in Bad : i <= j
      <3>1. Bad \in SUBSET (0 .. N)
        OBVIOUS
      <3> HIDE DEF Bad
      <3>2. QED
        BY <1>2, <2>1, <3>1, LeastIndex
    <2>3. i \in 1 .. N /\ c[i] # b[i] /\ c[i] \in S /\ b[i] \in S
      BY <1>2
    <2>4. \A k \in 1 .. N : k < i => c[k] = b[k]
      <3>1. SUFFICES ASSUME NEW k \in 1 .. N, k < i PROVE k \notin Bad
        OBVIOUS
      <3>2. N \in Nat /\ ~(i <= k)
        BY <1>2, <2>3, <3>1
      <3>3. QED
        BY <2>2, <3>2
    <2>5. PICK j \in 1 .. N : c[j] = b[i]
      BY <1>2, <2>3
    <2>6. PICK k \in 1 .. N : b[k] = c[i]
      BY <1>2, <2>3
    <2>7. i < j
      <3>1. j # i
        BY <2>3, <2>5
      <3>2. ~(j < i)
        <4>1. SUFFICES ASSUME j < i PROVE FALSE
          OBVIOUS
        <4>2. b[j] = b[i]
          BY <2>4, <2>5, <4>1
        <4>3. rk[b[j]] < rk[b[i]] /\ rk[b[i]] \in Int
          BY <1>2, <2>3, <4>1
        <4>4. QED
          BY <4>2, <4>3
      <3>3. QED
        BY <1>2, <2>3, <3>1, <3>2
    <2>8. i < k
      <3>1. k # i
        BY <2>3, <2>6
      <3>2. ~(k < i)
        <4>1. SUFFICES ASSUME k < i PROVE FALSE
          OBVIOUS
        <4>2. c[k] = c[i]
          BY <2>4, <2>6, <4>1
        <4>3. rank[c[k]] < rank[c[i]] /\ rank[c[i]] \in Int
          BY <1>2, <2>3, <4>1
        <4>4. QED
          BY <4>2, <4>3
      <3>3. QED
        BY <1>2, <2>3, <3>1, <3>2
    <2>9. rank[c[i]] < rank[b[i]] /\ rk[b[i]] < rk[c[i]]
      BY <1>2, <2>3, <2>5, <2>6, <2>7, <2>8
    <2>10. /\ rank[b[i]] \in Int /\ rank[c[i]] \in Int /\ rk[b[i]] \in Int /\ rk[c[i]] \in Int
           /\ rank[c[i]] <= rank[b[i]] <=> rk[c[i]] <= rk[b[i]]
      BY <1>2, <2>3
    <2>11. QED
      BY <2>9, <2>10
  <1>4. \A i \in 1 .. N : c[i] = b[i]
    <2>1. SUFFICES ASSUME NEW i \in 1 .. N, c[i] # b[i] PROVE FALSE
      OBVIOUS
    <2>2. i \in 0 .. N /\ i # 0
      <3>1. N \in Nat
        BY <1>2
      <3>2. QED
        BY <2>1, <3>1
    <2>3. QED
      BY <1>3, <2>1, <2>2
  <1>5. QED
    BY <1>2, <1>4

(***************************************************************************)
(* A list in reverse.                                                      *)
(***************************************************************************)
LEMMA ReverseLists ==
  ASSUME NEW S, NEW rank, NEW rk, Ranked(rank, S), Ranked(rk, S), Mirrored(rank, rk, S),
         NEW c, Lists(c, rk, S)
  PROVE  Lists(Reverse(c), rank, S)
  <1> DEFINE N == Len(c)
             b == Reverse(c)
  <1>1. /\ N \in Nat
        /\ \A i \in 1 .. N : c[i] \in S
        /\ \A i, j \in 1 .. N : i < j => rk[c[i]] < rk[c[j]]
        /\ \A x \in S : \E i \in 1 .. N : c[i] = x
        /\ \A x \in S : rank[x] \in Int /\ rk[x] \in Int
    BY DEF Lists, Ranked
  <1>2. b = [i \in 1 .. N |-> c[(N - i) + 1]]
    BY DEF Reverse
  <1> HIDE DEF N, b
  <1>3. Len(b) = N /\ \A i \in 1 .. N : b[i] = c[(N - i) + 1]
    BY <1>1, <1>2
  <1>4. \A i \in 1 .. N : (N - i) + 1 \in 1 .. N /\ (N - ((N - i) + 1)) + 1 = i
    BY <1>1
  <1>5. ASSUME NEW i \in 1 .. N, NEW j \in 1 .. N, i < j
        PROVE  rank[b[i]] < rank[b[j]]
    <2>1. (N - j) + 1 < (N - i) + 1
      BY <1>1, <1>5
    <2>2. rk[b[j]] < rk[b[i]] /\ b[i] \in S /\ b[j] \in S
      BY <1>1, <1>3, <1>4, <2>1
    <2>3. rank[b[j]] <= rank[b[i]] <=> rk[b[i]] <= rk[b[j]]
      BY <2>2 DEF Mirrored
    <2>4. {rank[b[i]], rank[b[j]], rk[b[i]], rk[b[j]]} \subseteq Int
      BY <1>1, <2>2
    <2>5. QED
      BY <2>2, <2>3, <2>4
  <1>6. ASSUME NEW x \in S PROVE \E i \in 1 .. N : b[i] = x
    <2>1. PICK k \in 1 .. N : c[k] = x
      BY <1>1
    <2>2. (N - k) + 1 \in 1 .. N /\ b[(N - k) + 1] = c[k]
      BY <1>3, <1>4
    <2>3. QED
      BY <2>1, <2>2
  <1>7. \A i \in 1 .. N : b[i] \in S
    BY <1>1, <1>3, <1>4
  <1>8. b = [i \in 1 .. Len(b) |-> b[i]]
    BY <1>2, <1>3
  <1>9. Lists(b, rank, S)
    BY <1>1, <1>3, <1>5, <1>6, <1>7, <1>8 DEF Lists
  <1>10. QED
    BY <1>9 DEF b

\* What is known of a list.
LEMMA ListsIs ==
  ASSUME NEW S \in SUBSET Nodes, NEW rank, Ranked(rank, S), NEW c, Lists(c, rank, S)
  PROVE  /\ c \in Seq(Nodes) /\ IsInjective(c) /\ ToSet(c) = S
         /\ DOMAIN c = 1 .. Len(c)
         /\ \A m, n : (\E i, j \in DOMAIN c : i < j /\ c[i] = m /\ c[j] = n)
                        <=> m \in S /\ n \in S /\ rank[m] < rank[n]
  <1>1. /\ Len(c) \in Nat /\ c = [i \in 1 .. Len(c) |-> c[i]]
        /\ \A i \in 1 .. Len(c) : c[i] \in S
        /\ \A i, j \in 1 .. Len(c) : i < j => rank[c[i]] < rank[c[j]]
        /\ \A x \in S : \E i \in 1 .. Len(c) : c[i] = x
        /\ \A x \in S : rank[x] \in Int
    BY DEF Lists, Ranked
  <1>2. DOMAIN c = 1 .. Len(c)
    BY <1>1
  <1>3. \A i \in 1 .. Len(c) : c[i] \in Nodes
    BY <1>1
  <1>4. c \in Seq(Nodes)
    BY <1>1, <1>3
  <1>5. \A i, j \in 1 .. Len(c) : rank[c[i]] < rank[c[j]] => i < j
    <2>1. SUFFICES ASSUME NEW i \in 1 .. Len(c), NEW j \in 1 .. Len(c), ~(i < j)
                   PROVE ~(rank[c[i]] < rank[c[j]])
      OBVIOUS
    <2>2. rank[c[i]] \in Int /\ rank[c[j]] \in Int
      BY <1>1
    <2>3. CASE i = j
      BY <2>2, <2>3
    <2>4. CASE j < i
      BY <1>1, <2>2, <2>4
    <2>5. QED
      BY <1>1, <2>1, <2>3, <2>4
  <1>6. \A i, j \in 1 .. Len(c) : c[i] = c[j] => i = j
    <2>1. SUFFICES ASSUME NEW i \in 1 .. Len(c), NEW j \in 1 .. Len(c), c[i] = c[j] PROVE i = j
      OBVIOUS
    <2>2. rank[c[i]] \in Int /\ rank[c[j]] \in Int
      BY <1>1
    <2>3. ~(i < j) /\ ~(j < i)
      BY <1>1, <2>1, <2>2
    <2>4. QED
      BY <1>1, <2>3
  <1>7. IsInjective(c)
    BY <1>2, <1>6 DEF IsInjective
  <1>8. ToSet(c) = S
    BY <1>1, <1>2 DEF ToSet
  <1>9. ASSUME NEW m, NEW n
        PROVE  (\E i, j \in DOMAIN c : i < j /\ c[i] = m /\ c[j] = n)
                 <=> m \in S /\ n \in S /\ rank[m] < rank[n]
    <2>1. ASSUME NEW i \in DOMAIN c, NEW j \in DOMAIN c, i < j, c[i] = m, c[j] = n
          PROVE  m \in S /\ n \in S /\ rank[m] < rank[n]
      BY <1>1, <1>2, <2>1
    <2>2. ASSUME m \in S, n \in S, rank[m] < rank[n]
          PROVE  \E i, j \in DOMAIN c : i < j /\ c[i] = m /\ c[j] = n
      <3>1. PICK i \in 1 .. Len(c) : c[i] = m
        BY <1>1, <2>2
      <3>2. PICK j \in 1 .. Len(c) : c[j] = n
        BY <1>1, <2>2
      <3>3. i < j
        BY <1>5, <2>2, <3>1, <3>2
      <3>4. QED
        BY <1>2, <3>1, <3>2, <3>3
    <2>3. QED
      BY <2>1, <2>2
  <1>10. QED
    BY <1>2, <1>4, <1>7, <1>8, <1>9

\* Content, along the links lk.
ContentIn(lk) ==
  IF Len(ChainIn(lk["forward"])) >= Len(ChainIn(lk["backward"]))
  THEN ChainIn(lk["forward"]) ELSE Reverse(ChainIn(lk["backward"]))

LEMMA ContentAlong == Content = ContentIn(link) /\ Content' = ContentIn(link')
  <1>1. Content = ContentIn(link)
    BY ChainAlong DEF Content, ContentIn
  <1>2. Content' = ContentIn(link')
    BY ChainAlongPrime DEF Content, ContentIn
  <1>3. QED
    BY <1>1, <1>2

\* The links lk make the chains F and B of a list of the nodes L, of which
\* those of K have been linked in both directions.
Shape(lk, rank, F, B, L, K, T) ==
  /\ Ordered(lk["forward"], rank["forward"], F, L, T)
  /\ Ordered(lk["backward"], rank["backward"], B, K, T)
  /\ Mirrored(rank["forward"], rank["backward"], K)
  /\ L \in SUBSET Nodes /\ T \in SUBSET Nodes
  /\ B \subseteq K /\ K \subseteq L /\ L = F \cup B
  /\ B \subseteq F \/ F \subseteq B

(***************************************************************************)
(* Whatever the writer is about to do, Content lists the nodes in the      *)
(* order of the forward ranks.                                             *)
(***************************************************************************)
LEMMA ShapeLists ==
  ASSUME NEW lk \in [Directions -> [Nodes \cup {head} -> Nodes \cup {head, NULL}]],
         NEW rank, NEW F, NEW B, NEW L, NEW K, NEW T, Shape(lk, rank, F, B, L, K, T)
  PROVE  /\ Lists(ChainIn(lk["forward"]), rank["forward"], F)
         /\ Lists(ChainIn(lk["backward"]), rank["backward"], B)
         /\ Lists(ContentIn(lk), rank["forward"], L)
         /\ Ranked(rank["forward"], L) /\ Ranked(rank["backward"], K)
  <1> DEFINE nx == lk["forward"]
             ny == lk["backward"]
             rf == rank["forward"]
             rb == rank["backward"]
  <1>1. /\ Ordered(nx, rf, F, L, T) /\ Ordered(ny, rb, B, K, T) /\ Mirrored(rf, rb, K)
        /\ L \in SUBSET Nodes /\ T \in SUBSET Nodes /\ K \in SUBSET Nodes
        /\ F \in SUBSET L /\ B \in SUBSET K /\ K \subseteq L /\ L = F \cup B
        /\ B \subseteq F \/ F \subseteq B
    BY DEF Shape
  <1>2. /\ nx \in [Nodes \cup {head} -> Nodes \cup {head, NULL}]
        /\ ny \in [Nodes \cup {head} -> Nodes \cup {head, NULL}]
    BY DEF Directions
  <1> HIDE DEF nx, ny, rf, rb
  <1>3. Lists(ChainIn(nx), rf, F) /\ Lists(ChainIn(ny), rb, B)
    BY <1>1, <1>2, ChainLists
  <1>4. Ranked(rf, L) /\ Ranked(rf, F) /\ Ranked(rb, B) /\ Ranked(rb, K)
    BY <1>1 DEF Ordered, Ranked
  <1>5. Len(ChainIn(nx)) = Cardinality(F) /\ Len(ChainIn(ny)) = Cardinality(B)
    BY <1>3, <1>4, ListsLength
  <1>6. IsFiniteSet(F) /\ IsFiniteSet(B) /\ Cardinality(F) \in Nat /\ Cardinality(B) \in Nat
    <2>1. F \in SUBSET Nodes /\ B \in SUBSET Nodes
      BY <1>1
    <2>2. QED
      BY <2>1, DlistAssumption, FS_Subset, FS_CardinalityType
  <1> DEFINE c == IF Len(ChainIn(nx)) >= Len(ChainIn(ny)) THEN ChainIn(nx)
                  ELSE Reverse(ChainIn(ny))
  <1>7. CASE B \subseteq F
    <2>1. Cardinality(B) <= Cardinality(F)
      BY <1>6, <1>7, FS_Subset
    <2>2. c = ChainIn(nx)
      BY <1>5, <1>6, <2>1
    <2>3. L = F
      BY <1>1, <1>7
    <2>4. QED
      BY <1>3, <1>4, <2>2, <2>3 DEF ContentIn, nx, ny, rf, rb
  <1>8. CASE ~(B \subseteq F)
    <2>1. F \in SUBSET B /\ F # B
      BY <1>1, <1>8
    <2>2. Cardinality(F) <= Cardinality(B) /\ Cardinality(F) # Cardinality(B)
      BY <1>6, <2>1, FS_Subset
    <2>3. c = Reverse(ChainIn(ny))
      BY <1>5, <1>6, <2>2
    <2>4. L = B /\ K = B
      BY <1>1, <2>1
    <2>5. Lists(c, rf, L)
      <3>1. Ranked(rf, B) /\ Ranked(rb, B) /\ Mirrored(rf, rb, B)
        BY <1>1, <1>4, <2>4
      <3> HIDE DEF c
      <3>2. Lists(Reverse(ChainIn(ny)), rf, B)
        BY <1>3, <3>1, ReverseLists
      <3>3. QED
        BY <2>3, <2>4, <3>2
    <2>6. QED
      BY <1>3, <1>4, <2>5 DEF ContentIn, nx, ny, rf, rb
  <1>9. QED
    BY <1>7, <1>8

-----------------------------------------------------------------------------
(* What stores do to one chain.                                             *)

\* Element n has been inserted behind p, its ranks fit in with the old ones.
Inserted(ny, rank, rk, L, T, p, n) ==
  /\ Ordered(ny, rk, L \cup {n}, L \cup {n}, T)
  /\ \A x, y \in L \cup T : rank[x] <= rank[y] <=> rk[x] <= rk[y]
  /\ \A x \in L : /\ rk[x] <= rk[n] <=> rank[x] <= rank[p]
                  /\ rk[n] <= rk[x] <=> rank[p] < rank[x]

(***************************************************************************)
(* A new element comes next to its predecessor in rank.                    *)
(***************************************************************************)
LEMMA InsertOrder ==
  ASSUME NEW nx \in [Nodes \cup {head} -> Nodes \cup {head, NULL}],
         NEW L \in SUBSET Nodes, NEW T \in SUBSET Nodes, NEW p \in L \cup {head},
         NEW n \in Nodes \ (L \cup T), nx[n] = nx[p],
         NEW rank, Ordered(nx, rank, L, L, T),
         NEW ny, ny = [nx EXCEPT ![p] = n]
  PROVE  \E rk : Inserted(ny, rank, rk, L, T, p, n)
  <1> DEFINE D == L \cup T \cup {head}
             rk == [x \in D \cup {n} |-> IF x = n THEN 2 * rank[p] + 1 ELSE 2 * rank[x]]
  <1>1. head \notin Nodes /\ n # head /\ n \notin D /\ p \in D
    BY DlistAssumption
  <1>2. /\ \A x \in D : rk[x] = 2 * rank[x] /\ rank[x] \in Int
        /\ rk[n] = 2 * rank[p] + 1 /\ rank[p] \in Int
    BY <1>1 DEF Ordered, Ranked
  <1> HIDE DEF rk
  <1>3. /\ ny[p] = n /\ ny[n] = nx[p]
        /\ \A x \in D \ {p} : ny[x] = nx[x]
    BY <1>1
  <1>4. /\ \A x, y \in D : rank[x] <= rank[y] <=> rk[x] <= rk[y]
        /\ \A x, y \in D : rank[x] < rank[y] <=> rk[x] < rk[y]
        /\ \A x \in D : rk[x] <= rk[n] <=> rank[x] <= rank[p]
        /\ \A x \in D : rk[n] < rk[x] <=> rank[p] < rank[x]
        /\ \A x \in D : rk[n] <= rk[x] <=> rank[p] < rank[x]
        /\ \A x \in D : rk[x] < rk[n] <=> rank[x] <= rank[p]
        /\ \A x \in D \cup {n} : rk[x] \in Int
        /\ \A x \in D : rk[x] # rk[n]
    <2> HIDE DEF D
    <2>1. ASSUME NEW x \in D, NEW y \in D
          PROVE  /\ rank[x] <= rank[y] <=> rk[x] <= rk[y]
                 /\ rank[x] < rank[y] <=> rk[x] < rk[y]
      BY <1>2
    <2>2. ASSUME NEW x \in D
          PROVE  /\ rk[x] <= rk[n] <=> rank[x] <= rank[p]
                 /\ rk[n] < rk[x] <=> rank[p] < rank[x]
                 /\ rk[n] <= rk[x] <=> rank[p] < rank[x]
                 /\ rk[x] < rk[n] <=> rank[x] <= rank[p]
                 /\ rk[x] \in Int /\ rk[x] # rk[n]
      BY <1>2
    <2>3. rk[n] \in Int
      BY <1>2
    <2>4. QED
      BY <2>1, <2>2, <2>3
  <1>5. Ranked(rk, L \cup {n} \cup T \cup {head})
    <2>1. \A x, y \in D : rk[x] = rk[y] => x = y
      BY <1>2 DEF Ordered, Ranked
    <2>2. QED
      BY <1>4, <2>1 DEF Ranked
  <1>6. \A x \in L \cup {n} \cup T : rk[head] < rk[x]
    <2>1. rank[head] <= rank[p]
      BY <1>2 DEF Ordered
    <2>2. QED
      BY <1>4, <2>1 DEF Ordered
  <1>7. /\ \A x \in L \cup {head} : nx[x] \in L \cup {head}
        /\ \A x \in T : nx[x] \in L \cup T \cup {head}
        /\ \A x \in D : Leads(nx, rank, L, x)
    BY DEF Ordered
  <1>8. ASSUME NEW x \in D, x # p PROVE Leads(ny, rk, L \cup {n}, x)
    <2>1. ny[x] = nx[x] /\ nx[x] \in D /\ Leads(nx, rank, L, x)
      BY <1>3, <1>7, <1>8
    <2>2. rank[x] # rank[p] /\ rank[x] \in Int /\ rank[p] \in Int
      BY <1>1, <1>2, <1>8 DEF Ordered, Ranked
    <2>3. p \in L \/ rank[p] < rank[x]
      BY <1>8 DEF Ordered
    <2>4. CASE nx[x] = head
      <3>1. \A y \in L : rk[y] <= rk[x]
        BY <1>4, <2>1, <2>4 DEF Leads
      <3>2. rank[p] < rank[x]
        BY <2>1, <2>2, <2>3, <2>4 DEF Leads
      <3>3. rk[n] <= rk[x]
        BY <1>4, <3>2
      <3>4. QED
        BY <2>1, <2>4, <3>1, <3>3 DEF Leads
    <2>5. CASE nx[x] # head
      <3>1. nx[x] \in D /\ rank[x] < rank[nx[x]] /\ rk[x] < rk[nx[x]]
        BY <1>4, <2>1, <2>5 DEF Leads
      <3>2. \A y \in L : rk[x] < rk[y] => rk[nx[x]] <= rk[y]
        BY <1>4, <2>1, <2>5, <3>1 DEF Leads
      <3>3. rk[x] < rk[n] => rk[nx[x]] <= rk[n]
        <4>1. SUFFICES ASSUME rk[x] < rk[n] PROVE rank[nx[x]] <= rank[p]
          BY <1>4, <3>1
        <4>2. rank[x] < rank[p]
          BY <1>4, <2>2, <4>1
        <4>3. p \in L
          BY <2>2, <2>3, <4>2
        <4>4. QED
          BY <2>1, <2>5, <4>2, <4>3 DEF Leads
      <3>4. QED
        BY <2>1, <2>5, <3>1, <3>2, <3>3 DEF Leads
    <2>6. QED
      BY <2>4, <2>5
  <1>9. Leads(ny, rk, L \cup {n}, p)
    <2>1. rk[p] < rk[n] /\ \A y \in L : rk[p] < rk[y] => rk[n] <= rk[y]
      BY <1>1, <1>2, <1>4
    <2>2. rk[n] <= rk[n]
      BY <1>4
    <2>3. QED
      BY <1>1, <1>3, <2>1, <2>2 DEF Leads
  <1>10. Leads(ny, rk, L \cup {n}, n)
    <2>1. nx[p] \in L \cup {head} /\ Leads(nx, rank, L, p)
      BY <1>7
    <2>2. CASE nx[p] = head
      <3>1. \A y \in L : rk[y] <= rk[n]
        BY <1>4, <2>1, <2>2 DEF Leads
      <3>2. rk[n] <= rk[n]
        BY <1>4
      <3>3. QED
        BY <1>3, <2>2, <3>1, <3>2 DEF Leads
    <2>3. CASE nx[p] # head
      <3>1. nx[p] \in D /\ rank[p] < rank[nx[p]]
            /\ \A y \in L : rank[p] < rank[y] => rank[nx[p]] <= rank[y]
        BY <2>1, <2>3 DEF Leads
      <3>2. rk[n] < rk[nx[p]]
        BY <1>4, <3>1
      <3>3. \A y \in L : rk[n] < rk[y] => rk[nx[p]] <= rk[y]
        BY <1>4, <3>1
      <3>4. ~(rk[n] < rk[n])
        BY <1>4
      <3>5. QED
        BY <1>3, <2>3, <3>2, <3>3, <3>4 DEF Leads
    <2>4. QED
      BY <2>2, <2>3
  <1>11. /\ \A x \in L \cup {n} \cup {head} : ny[x] \in L \cup {n} \cup {head}
         /\ \A x \in T : ny[x] \in L \cup {n} \cup T \cup {head}
    BY <1>3, <1>7
  <1>12. Ordered(ny, rk, L \cup {n}, L \cup {n}, T)
    BY <1>5, <1>6, <1>8, <1>9, <1>10, <1>11 DEF Ordered
  <1>13. Inserted(ny, rank, rk, L, T, p, n)
    BY <1>4, <1>12 DEF Inserted
  <1>14. QED
    BY <1>13

(***************************************************************************)
(* A node that is bypassed still leads back into the chain.                *)
(***************************************************************************)
LEMMA BypassOrder ==
  ASSUME NEW nx \in [Nodes \cup {head} -> Nodes \cup {head, NULL}],
         NEW L \in SUBSET Nodes, NEW T \in SUBSET Nodes, NEW S \in SUBSET L,
         NEW n \in S, NEW p \in S \cup {head}, nx[p] = n,
         NEW ny, ny = [nx EXCEPT ![p] = nx[n]],
         NEW rank, Ordered(nx, rank, S, L, T)
  PROVE  Ordered(ny, rank, S \ {n}, L, T)
  <1>1. head \notin Nodes /\ n # head
    BY DlistAssumption
  <1>2. /\ \A x \in L \cup T \cup {head} : rank[x] \in Int /\ Leads(nx, rank, S, x)
        /\ \A x, y \in L \cup T \cup {head} : rank[x] = rank[y] => x = y
        /\ \A x \in L \cup T : rank[head] < rank[x]
        /\ \A x \in S \cup {head} : nx[x] \in S \cup {head}
        /\ \A x \in L : nx[x] \in L \cup {head}
        /\ \A x \in T : nx[x] \in L \cup T \cup {head}
    BY DEF Ordered, Ranked
  <1>3. /\ rank[p] < rank[n]
        /\ \A x \in S : rank[p] < rank[x] => rank[n] <= rank[x]
    BY <1>1, <1>2 DEF Leads
  <1>4. p # n
    BY <1>2, <1>3
  <1>5. ny[p] = nx[n] /\ \A x \in L \cup T \cup {head} : x # p => ny[x] = nx[x]
    OBVIOUS
  <1>6. Leads(nx, rank, S, n) /\ nx[n] \in S \cup {head}
    BY <1>2
  <1>7. nx[n] # n
    BY <1>1, <1>2, <1>6 DEF Leads
  <1>8. Leads(ny, rank, S \ {n}, p)
    <2>1. \A x \in S \ {n} : rank[p] < rank[x] => rank[n] < rank[x]
      BY <1>2, <1>3
    <2>2. CASE nx[n] = head
      BY <1>2, <1>5, <1>6, <2>1, <2>2 DEF Leads
    <2>3. CASE nx[n] # head
      <3>1. rank[n] < rank[nx[n]] /\ \A x \in S : rank[n] < rank[x] => rank[nx[n]] <= rank[x]
        BY <1>6, <2>3 DEF Leads
      <3>2. rank[p] < rank[nx[n]]
        BY <1>2, <1>3, <1>6, <2>3, <3>1
      <3>3. QED
        BY <1>5, <2>1, <2>3, <3>1, <3>2 DEF Leads
    <2>4. QED
      BY <2>2, <2>3
  <1>9. ASSUME NEW x \in L \cup T \cup {head}, x # p PROVE Leads(ny, rank, S \ {n}, x)
    BY <1>2, <1>5, <1>9 DEF Leads
  <1>10. ASSUME NEW x \in S \cup {head}, x # p PROVE nx[x] # n
    <2>1. SUFFICES ASSUME nx[x] = n PROVE FALSE
      OBVIOUS
    <2>2. /\ rank[x] < rank[n]
          /\ \A y \in S : rank[x] < rank[y] => rank[n] <= rank[y]
      BY <1>1, <1>2, <2>1 DEF Leads
    <2>3. rank[x] # rank[p] /\ rank[x] \in Int /\ rank[p] \in Int /\ rank[n] \in Int
      BY <1>2, <1>10
    <2>4. CASE rank[x] < rank[p]
      <3>1. p \in S
        BY <1>2, <1>10, <2>3, <2>4
      <3>2. QED
        BY <1>3, <2>2, <2>3, <2>4, <3>1
    <2>5. CASE rank[p] < rank[x]
      <3>1. x \in S
        BY <1>2, <1>10, <2>3, <2>5
      <3>2. QED
        BY <1>3, <2>2, <2>3, <2>5, <3>1
    <2>6. QED
      BY <2>3, <2>4, <2>5
  <1>11. \A x \in (S \ {n}) \cup {head} : ny[x] \in (S \ {n}) \cup {head}
    BY <1>2, <1>5, <1>6, <1>7, <1>10
  <1>12. /\ \A x \in L : ny[x] \in L \cup {head}
         /\ \A x \in T : ny[x] \in L \cup T \cup {head}
    BY <1>2, <1>5, <1>6
  <1>13. Ranked(rank, L \cup T \cup {head})
    BY DEF Ordered
  <1>14. QED
    BY <1>2, <1>8, <1>9, <1>11, <1>12, <1>13 DEF Ordered

(***************************************************************************)
(* A chain cut off at the head.                                            *)
(***************************************************************************)
LEMMA CutOrder ==
  ASSUME NEW nx \in [Nodes \cup {head} -> Nodes \cup {head, NULL}],
         NEW L \in SUBSET Nodes, NEW T \in SUBSET Nodes, NEW S,
         NEW ny, ny = [nx EXCEPT ![head] = head],
         NEW rank, Ordered(nx, rank, S, L, T)
  PROVE  Ordered(ny, rank, {}, L, T)
  <1>1. head \notin Nodes
    BY DlistAssumption
  <1>2. ny[head] = head /\ \A x \in L \cup T : ny[x] = nx[x]
    BY <1>1
  <1>3. \A x \in L \cup T \cup {head} : Leads(ny, rank, {}, x)
    BY <1>2 DEF Ordered, Leads
  <1>4. QED
    BY <1>2, <1>3 DEF Ordered

(***************************************************************************)
(* The nodes that a chain has lost leave the list.                         *)
(***************************************************************************)
LEMMA RetireOrder ==
  ASSUME NEW nx, NEW S, NEW L, NEW T, NEW rank, S \subseteq L, Ordered(nx, rank, S, L, T)
  PROVE  Ordered(nx, rank, S, S, T \cup (L \ S))
  <1>1. S \cup (T \cup (L \ S)) = L \cup T
    OBVIOUS
  <1>2. \A x \in T \cup (L \ S) : nx[x] \in L \cup T \cup {head}
    BY DEF Ordered
  <1>3. QED
    BY <1>1, <1>2 DEF Ordered

(***************************************************************************)
(* Links of other nodes do not matter.                                     *)
(***************************************************************************)
LEMMA KeptOrder ==
  ASSUME NEW nx, NEW ny, NEW S, NEW L, NEW T, NEW rank, S \subseteq L,
         \A x \in L \cup T \cup {head} : ny[x] = nx[x], Ordered(nx, rank, S, L, T)
  PROVE  Ordered(ny, rank, S, L, T)
  BY DEF Ordered, Leads

(***************************************************************************)
(* When both chains hold the same nodes, a node is behind the one before   *)
(* it.                                                                     *)
(***************************************************************************)
LEMMA Neighbours ==
  ASSUME NEW nx, NEW ny, NEW rank, NEW rk, NEW S \in SUBSET Nodes, NEW T,
         Ordered(nx, rank, S, S, T), Ordered(ny, rk, S, S, T),
         \A x, y \in S : rank[x] <= rank[y] <=> rk[y] <= rk[x],
         NEW m \in S \cup {head}
  PROVE  ny[nx[m]] = m
  <1> DEFINE q == nx[m]
             y == ny[q]
  <1>1. /\ \A x \in S \cup {head} : rank[x] \in Int /\ rk[x] \in Int
        /\ \A x, z \in S \cup {head} : rank[x] = rank[z] => x = z
        /\ \A x \in S : rank[head] < rank[x] /\ rk[head] < rk[x]
        /\ head \notin S
    BY DlistAssumption DEF Ordered, Ranked
  <1>2. q \in S \cup {head} /\ Leads(nx, rank, S, m)
    BY DEF Ordered
  <1>3. y \in S \cup {head} /\ Leads(ny, rk, S, q)
    BY <1>2 DEF Ordered
  <1>4. q = head => \A x \in S : rank[x] <= rank[m]
    BY <1>2 DEF Leads
  <1>5. q # head => rank[m] < rank[q] /\ \A x \in S : rank[m] < rank[x] => rank[q] <= rank[x]
    BY <1>2 DEF Leads
  <1>6. y = head => \A x \in S : rk[x] <= rk[q]
    BY <1>3 DEF Leads
  <1>7. y # head => rk[q] < rk[y] /\ \A x \in S : rk[q] < rk[x] => rk[y] <= rk[x]
    BY <1>3 DEF Leads
  <1> HIDE DEF q, y
  <1>8. \A x, z \in S : rank[x] < rank[z] <=> rk[z] < rk[x]
    BY <1>1
  <1>9. CASE m = head
    <2>1. SUFFICES ASSUME y # head PROVE FALSE
      BY <1>9 DEF y, q
    <2>2. y \in S /\ rk[q] < rk[y]
      BY <1>3, <1>7, <2>1
    <2>3. q # head
      BY <1>1, <1>4, <1>9, <2>2
    <2>4. q \in S /\ rank[q] <= rank[y]
      BY <1>1, <1>2, <1>5, <1>9, <2>2, <2>3
    <2>5. QED
      BY <1>1, <2>2, <2>4
  <1>10. CASE m # head
    <2>1. m \in S
      BY <1>10
    <2>2. rk[q] < rk[m]
      <3>1. CASE q = head
        BY <1>1, <2>1, <3>1
      <3>2. CASE q # head
        BY <1>2, <1>5, <1>8, <2>1, <3>2
      <3>3. QED
        BY <3>1, <3>2
    <2>3. rk[m] \in Int /\ rk[q] \in Int
      BY <1>1, <1>2
    <2>4. y # head
      BY <1>6, <2>1, <2>2, <2>3
    <2>5. y \in S /\ rk[q] < rk[y] /\ rk[y] <= rk[m]
      BY <1>3, <1>7, <2>1, <2>2, <2>4
    <2>6. rank[m] <= rank[y] /\ rank[y] \in Int /\ rank[m] \in Int
      BY <1>1, <2>1, <2>5
    <2>7. ~(rank[m] < rank[y])
      <3>1. SUFFICES ASSUME rank[m] < rank[y] PROVE FALSE
        OBVIOUS
      <3>2. CASE q = head
        BY <1>4, <2>5, <2>6, <3>1, <3>2
      <3>3. CASE q # head
        <4>1. rank[q] <= rank[y] /\ q \in S
          BY <1>2, <1>5, <2>5, <3>1, <3>3
        <4>2. rk[y] <= rk[q] /\ rk[y] \in Int
          BY <1>1, <2>5, <4>1
        <4>3. QED
          BY <2>3, <2>5, <4>2
      <3>4. QED
        BY <3>2, <3>3
    <2>8. rank[y] = rank[m]
      BY <2>6, <2>7
    <2>9. y = m
      BY <1>1, <2>1, <2>5, <2>8
    <2>10. QED
      BY <2>9 DEF y, q
  <1>11. QED
    BY <1>9, <1>10

-----------------------------------------------------------------------------
(* The list of a state.                                                     *)

LEMMA ShapeNow ==
  ASSUME IInv, NEW rank, ChainsInv(rank)
  PROVE  Shape(link, rank, InChain("forward"), InChain("backward"),
               Linked, LinkedIn("backward"), limbo)
  <1>1. /\ Ordered(link["forward"], rank["forward"], InChain("forward"), Linked, limbo)
        /\ Ordered(link["backward"], rank["backward"], InChain("backward"),
                   LinkedIn("backward"), limbo)
        /\ Mirrored(rank["forward"], rank["backward"], LinkedIn("backward"))
    BY DEF ChainsInv, Directions, LinkedIn
  <1>2. Linked \in SUBSET Nodes /\ limbo \in SUBSET Nodes
    BY DEF IInv, VarTypes
  <1>3. LinkedIn("backward") = Linked \ {newElem}
    BY DEF LinkedIn
  <1>4. \/ wpc \in {"idle", "sync", "free"} \/ wpc \in {"newPrev", "prevNext"}
        \/ wpc = "nextPrev" \/ wpc = "removePrev" \/ wpc = "resetNext"
    BY DEF IInv, VarTypes
  <1>5. NULL \notin Nodes
    BY DlistAssumption
  <1> DEFINE F == InChain("forward")
             B == InChain("backward")
  <1> HIDE DEF F, B
  <1>6. /\ B \subseteq Linked \ {newElem} /\ Linked = F \cup B
        /\ B \subseteq F \/ F \subseteq B
    <2>1. CASE wpc \in {"idle", "sync", "free"}
      BY <1>2, <1>5, <2>1 DEF IInv, WriterInv, F, B
    <2>2. CASE wpc \in {"newPrev", "prevNext"} \/ wpc = "nextPrev"
      BY <1>2, <1>3, <2>2 DEF IInv, WriterInv, Inserting, F, B
    <2>3. CASE wpc = "removePrev" \/ wpc = "resetNext"
      BY <1>2, <1>5, <2>3 DEF IInv, WriterInv, F, B
    <2>4. QED
      BY <1>4, <2>1, <2>2, <2>3
  <1>7. QED
    BY <1>1, <1>2, <1>3, <1>6 DEF Shape, F, B

LEMMA ListNow ==
  ASSUME IInv, NEW rank, ChainsInv(rank)
  PROVE  /\ Lists(Chain("forward"), rank["forward"], InChain("forward"))
         /\ Lists(Chain("backward"), rank["backward"], InChain("backward"))
         /\ Lists(Content, rank["forward"], Linked)
         /\ Ranked(rank["forward"], Linked) /\ Ranked(rank["backward"], LinkedIn("backward"))
  <1>1. link \in [Directions -> [Nodes \cup {head} -> Nodes \cup {head, NULL}]]
    BY DEF IInv, VarTypes, LinkType
  <1>2. QED
    BY <1>1, ShapeNow, ShapeLists, ChainAlong, ContentAlong

LEMMA OrderNow ==
  ASSUME IInv, NEW rank, ChainsInv(rank)
  PROVE  \A m, n : Walk!Precedes(m, n)
                     <=> m \in Linked /\ n \in Linked /\ rank["forward"][m] < rank["forward"][n]
  <1>1. Lists(Content, rank["forward"], Linked) /\ Ranked(rank["forward"], Linked)
        /\ Linked \in SUBSET Nodes
    BY ListNow DEF IInv, VarTypes
  <1> DEFINE c == Content
             rf == rank["forward"]
  <1> HIDE DEF c, rf
  <1>2. \A m, n : (\E i, j \in DOMAIN c : i < j /\ c[i] = m /\ c[j] = n)
                    <=> m \in Linked /\ n \in Linked /\ rf[m] < rf[n]
    BY <1>1, ListsIs DEF c, rf
  <1>3. SUFFICES ASSUME NEW m, NEW n
                 PROVE (\E i, j \in DOMAIN c : i < j /\ c[i] = m /\ c[j] = n)
                         <=> m \in Linked /\ n \in Linked /\ rf[m] < rf[n]
    BY DEF Walk!Precedes, c, rf
  <1>4. QED
    BY <1>2

(***************************************************************************)
(* The list after a step that leaves the chains in order.                  *)
(***************************************************************************)
LEMMA NewChains ==
  ASSUME LinkType', NEW rk, NEW F, NEW B, NEW L, NEW K, NEW T, Shape(link', rk, F, B, L, K, T)
  PROVE  /\ InChain("forward")' = F /\ InChain("backward")' = B /\ Linked' = L
         /\ Lists(Content', rk["forward"], L) /\ Ranked(rk["forward"], L)
         /\ Content' \in Seq(Nodes) /\ IsInjective(Content')
         /\ \A m, n : Walk!Precedes(m, n)'
                        <=> m \in L /\ n \in L /\ rk["forward"][m] < rk["forward"][n]
  <1>1. link' \in [Directions -> [Nodes \cup {head} -> Nodes \cup {head, NULL}]]
    BY DEF LinkType
  <1>2. /\ Lists(ChainIn(link'["forward"]), rk["forward"], F)
        /\ Lists(ChainIn(link'["backward"]), rk["backward"], B)
        /\ Lists(ContentIn(link'), rk["forward"], L)
        /\ Ranked(rk["forward"], L) /\ Ranked(rk["backward"], K)
    BY <1>1, ShapeLists
  <1>3. L \in SUBSET Nodes /\ F \in SUBSET L /\ B \in SUBSET K /\ K \in SUBSET Nodes
    BY DEF Shape
  <1>4. F \in SUBSET Nodes /\ B \in SUBSET Nodes
        /\ Ranked(rk["forward"], F) /\ Ranked(rk["backward"], B)
    BY <1>2, <1>3 DEF Ranked
  <1>5. ToSet(ChainIn(link'["forward"])) = F /\ ToSet(ChainIn(link'["backward"])) = B
    BY <1>2, <1>4, ListsIs
  <1>6. InChain("forward")' = F /\ InChain("backward")' = B
    BY <1>5, ChainAlongPrime DEF InChain
  <1> DEFINE c == ContentIn(link')
             rf == rk["forward"]
  <1>7. Content' = c
    BY ContentAlong
  <1> HIDE DEF c, rf
  <1>8. Lists(c, rf, L) /\ Ranked(rf, L)
    BY <1>2 DEF c, rf
  <1>9. /\ c \in Seq(Nodes) /\ IsInjective(c) /\ ToSet(c) = L
        /\ \A m, n : (\E i, j \in DOMAIN c : i < j /\ c[i] = m /\ c[j] = n)
                       <=> m \in L /\ n \in L /\ rf[m] < rf[n]
    BY <1>3, <1>8, ListsIs
  <1>10. Linked' = L
    BY <1>7, <1>9 DEF Linked
  <1>11. \A m, n : Walk!Precedes(m, n)' <=> m \in L /\ n \in L /\ rf[m] < rf[n]
    <2>1. SUFFICES ASSUME NEW m, NEW n
                   PROVE (\E i, j \in DOMAIN c : i < j /\ c[i] = m /\ c[j] = n)
                           <=> m \in L /\ n \in L /\ rf[m] < rf[n]
      BY <1>7 DEF Walk!Precedes
    <2>2. QED
      BY <1>9
  <1>12. QED
    BY <1>6, <1>7, <1>8, <1>9, <1>10, <1>11 DEF rf

LEMMA SameContent ==
  ASSUME UNCHANGED link
  PROVE  /\ Content' = Content /\ Linked' = Linked /\ Unsettled' = Unsettled
         /\ \A d : Chain(d)' = Chain(d) /\ InChain(d)' = InChain(d)
         /\ Walk!Settled' = Walk!Settled
  <1>1. \A d : Chain(d)' = Chain(d)
    BY ChainAlong, ChainAlongPrime
  <1>2. Content' = Content
    BY <1>1 DEF Content
  <1>3. Linked' = Linked /\ Unsettled' = Unsettled
    BY <1>1, <1>2 DEF Linked, Unsettled
  <1>4. QED
    BY <1>1, <1>2, <1>3 DEF InChain, Walk!Settled, Walk!Linked

\* RListWalk sees the same list.
LEMMA WalkLinked ==
  /\ Walk!Linked = Linked /\ Walk!Linked' = Linked'
  /\ Walk!Settled = Linked \cap InChain("forward") \cap InChain("backward")
  /\ Walk!Settled' = Linked' \cap InChain("forward")' \cap InChain("backward")'
  /\ Unsettled = Linked \ (InChain("forward") \cap InChain("backward"))
  /\ Unsettled' = Linked' \ (InChain("forward")' \cap InChain("backward")')
  <1>1. Walk!Linked = Linked /\ Walk!Linked' = Linked'
    BY DEF Walk!Linked, Walk!ToSet, Linked, ToSet
  <1>2. /\ Unsettled = Linked \ (InChain("forward") \cap InChain("backward"))
        /\ Unsettled' = Linked' \ (InChain("forward")' \cap InChain("backward")')
    BY DEF Unsettled, InChain
  <1>3. QED
    BY <1>1, <1>2 DEF Walk!Settled

\* The two ways to write the links of a direction.
LEMMA LinkFields ==
  link.forward = link["forward"] /\ link.backward = link["backward"]
  OBVIOUS

-----------------------------------------------------------------------------
(* Readers.                                                                 *)

LEMMA SettledNow ==
  ASSUME IInv
  PROVE  /\ Walk!Settled = InChain("forward") \cap InChain("backward")
         /\ InChain("forward") \in SUBSET Linked
         /\ InChain("backward") \in SUBSET LinkedIn("backward")
  <1>1. PICK rank : ChainsInv(rank)
    BY DEF IInv, ListInv
  <1>2. /\ InChain("backward") \subseteq LinkedIn("backward")
        /\ Linked = InChain("forward") \cup InChain("backward")
    BY <1>1, ShapeNow DEF Shape
  <1>3. QED
    BY <1>2, WalkLinked

LEMMA OutsideFields ==
  /\ Walk!Outside \in Walk!Walks /\ Walk!Outside.dir = "out"
  /\ Walk!Outside.seen = {} /\ Walk!Outside.steady = {} /\ Walk!Outside.possible = {}
  BY DEF Walk!Outside, Walk!Walks, Walk!Directions

LEMMA InitIInv == Init => IInv
  <1> SUFFICES ASSUME Init PROVE IInv
    OBVIOUS
  <1> DEFINE zero == [x \in {head} |-> 0]
             rank == [d \in Directions |-> zero]
  <1>1. /\ head \notin Nodes /\ NULL \notin Nodes \cup {head}
        /\ "forward" \in Directions /\ "backward" \in Directions
    BY DlistAssumption DEF Directions
  <1>2. LinkType /\ \A d \in Directions : link[d][head] = head
    BY <1>1 DEF Init, LinkType
  <1>3. \A d \in Directions : Ordered(link[d], zero, {}, {}, {})
    BY <1>2 DEF Ordered, Ranked, Leads
  <1>4. link \in [Directions -> [Nodes \cup {head} -> Nodes \cup {head, NULL}]]
    BY <1>2 DEF LinkType
  <1> HIDE DEF zero
  <1>5. rank["forward"] = zero /\ rank["backward"] = zero
    BY <1>1
  <1>6. Shape(link, rank, {}, {}, {}, {}, {})
    BY <1>1, <1>3, <1>5 DEF Shape, Mirrored
  <1>7. \A d \in Directions : rank[d] = zero
    OBVIOUS
  <1> HIDE DEF rank
  <1>8. /\ Lists(ChainIn(link["forward"]), rank["forward"], {})
        /\ Lists(ChainIn(link["backward"]), rank["backward"], {})
        /\ Lists(ContentIn(link), rank["forward"], {})
        /\ Ranked(rank["forward"], {}) /\ Ranked(rank["backward"], {})
    BY <1>4, <1>6, ShapeLists
  <1>9. InChain("forward") = {} /\ InChain("backward") = {} /\ Linked = {}
    <2>1. /\ ToSet(ChainIn(link["forward"])) = {} /\ ToSet(ChainIn(link["backward"])) = {}
          /\ ToSet(ContentIn(link)) = {}
      BY <1>8, ListsIs
    <2>2. QED
      BY <2>1, ChainAlong, ContentAlong DEF InChain, Linked
  <1>10. \A d \in Directions : InChain(d) = {}
    BY <1>9 DEF Directions
  <1>11. limbo = {} /\ wpc = "idle" /\ newElem = NULL /\ it = NoIter /\ due = {}
    BY DEF Init
  <1>12. ChainsInv(rank)
    BY <1>3, <1>7, <1>9, <1>10, <1>11 DEF ChainsInv, LinkedIn, Mirrored
  <1>13. \A r \in Readers : ReaderInv(rank, r)
    BY <1>9, <1>11, OutsideFields DEF Init, Zone!Init, ReaderInv, Walking, Passed, Directions
  <1>14. IterInv(rank)
    BY <1>11 DEF IterInv
  <1>15. ListInv
    BY <1>12, <1>13, <1>14 DEF ListInv
  <1>16. VarTypes
    <2>1. it \in Iterators
      BY <1>11 DEF NoIter, Iterators
    <2>2. walk \in [Readers -> Walk!Walks]
      BY OutsideFields DEF Init
    <2>3. QED
      BY <1>2, <1>9, <1>11, <2>1, <2>2 DEF Init, VarTypes, Zone!Init, Zone!TypeOK
  <1>17. WriterInv
    BY <1>9, <1>11 DEF WriterInv, Init, Zone!Init
  <1>18. QED
    BY <1>15, <1>16, <1>17 DEF IInv

LEMMA HeldSame ==
  ASSUME UNCHANGED <<link, limbo, newElem>>
  PROVE  \A d : LinkedIn(d)' = LinkedIn(d) /\ Held(d)' = Held(d) /\ InChain(d)' = InChain(d)
  BY SameContent DEF LinkedIn, Held

\* A step that does not concern reader s.
LEMMA ReaderKept ==
  ASSUME NEW rank, NEW s \in Readers, ReaderInv(rank, s), UNCHANGED <<link, limbo, newElem>>,
         walk'[s] = walk[s], pos'[s] = pos[s], s \in inside' <=> s \in inside,
         Passed(s)' => Passed(s)
  PROVE  ReaderInv(rank, s)'
  <1>1. Linked' = Linked /\ link' = link /\ limbo' = limbo
        /\ \A d : Held(d)' = Held(d) /\ InChain(d)' = InChain(d)
    BY SameContent, HeldSame
  <1>2. Walking(rank, s)'
    BY <1>1 DEF ReaderInv, Walking, Progress
  <1>3. QED
    BY <1>1, <1>2 DEF ReaderInv

\* What does not depend on readers.
LEMMA ChainsKept ==
  ASSUME NEW rank, ChainsInv(rank), IterInv(rank), UNCHANGED <<link, limbo, newElem, it, due>>
  PROVE  ChainsInv(rank)' /\ IterInv(rank)'
  <1>1. \A d : LinkedIn(d)' = LinkedIn(d) /\ InChain(d)' = InChain(d)
    BY HeldSame
  <1>2. QED
    BY <1>1 DEF ChainsInv, IterInv

LEMMA WriterKept ==
  ASSUME WriterInv, UNCHANGED <<link, limbo, wpc, prevElem, nextElem, newElem, it, due, syncing>>
  PROVE  WriterInv'
  <1>1. Linked' = Linked /\ LinkedIn("backward")' = LinkedIn("backward")
        /\ InChain("forward")' = InChain("forward")
        /\ InChain("backward")' = InChain("backward")
    BY SameContent, HeldSame
  <1>2. QED
    BY <1>1 DEF WriterInv, Inserting, Removing

\* A step of reader r that does not change the list.
LEMMA ReaderMoves ==
  ASSUME IInv, NEW r \in Readers,
         UNCHANGED <<link, limbo, wpc, prevElem, nextElem, newElem, it, due, syncing>>,
         Zone!TypeOK',
         \A s \in Readers \ {r} :
           walk'[s] = walk[s] /\ pos'[s] = pos[s] /\ (s \in inside' <=> s \in inside),
         \A s \in Readers \ {r} : s \in waiting[writer] => s \in waiting'[writer],
         pos' \in [Readers -> Nodes \cup {NULL}], walk' \in [Readers -> Walk!Walks],
         \A rank : ChainsInv(rank) /\ ReaderInv(rank, r) => ReaderInv(rank, r)'
  PROVE  IInv'
  <1>1. PICK rank : /\ ChainsInv(rank) /\ IterInv(rank)
                    /\ \A s \in Readers : ReaderInv(rank, s)
    BY DEF IInv, ListInv
  <1>2. \A s \in Readers : ReaderInv(rank, s)'
    <2>1. ASSUME NEW s \in Readers, s # r PROVE ReaderInv(rank, s)'
      <3>1. Passed(s)' => Passed(s)
        BY <2>1 DEF Passed
      <3>2. QED
        BY <1>1, <2>1, <3>1, ReaderKept
    <2>2. QED
      BY <1>1, <2>1
  <1>3. ChainsInv(rank)' /\ IterInv(rank)'
    BY <1>1, ChainsKept
  <1>4. ListInv'
    BY <1>2, <1>3 DEF ListInv
  <1>5. VarTypes'
    BY SameContent DEF IInv, VarTypes, LinkType
  <1>6. WriterInv'
    BY WriterKept DEF IInv
  <1>7. QED
    BY <1>4, <1>5, <1>6 DEF IInv

LEMMA ReadLockStep ==
  ASSUME IInv, NEW r \in Readers, ReadLock(r)
  PROVE  IInv'
  <1> DEFINE w == [dir |-> "in", seen |-> {}, steady |-> {}, possible |-> Linked]
  <1>1. /\ UNCHANGED <<link, limbo, wpc, prevElem, nextElem, newElem, it, due, syncing>>
        /\ UNCHANGED <<waiting, pos>>
        /\ r \notin inside /\ inside' = inside \cup {r}
        /\ Zone!TypeOK /\ Zone!TypeOK'
    BY DEF ReadLock, Zone!ReadLock, Zone!TypeOK, ReaderStep, listVars, locals, iterVars,
       IInv, VarTypes
  <1>2. walk' = [walk EXCEPT ![r] = w]
    <2>1. Walk!Entered = w
      BY WalkLinked DEF Walk!Entered
    <2> HIDE DEF w
    <2>2. QED
      BY <2>1 DEF ReadLock
  <1>3. w \in Walk!Walks
    BY DEF Walk!Walks, Walk!Directions, IInv, VarTypes
  <1>4. /\ w.dir = "in" /\ w.seen = {} /\ w.steady = {} /\ w.possible = Linked
    OBVIOUS
  <1> HIDE DEF w
  <1>5. /\ walk' \in [Readers -> Walk!Walks] /\ walk'[r] = w
        /\ \A s \in Readers \ {r} : walk'[s] = walk[s]
    BY <1>2, <1>3 DEF IInv, VarTypes
  <1>6. pos' \in [Readers -> Nodes \cup {NULL}]
    BY <1>1 DEF IInv, VarTypes
  <1>7. ASSUME NEW rank, ChainsInv(rank), ReaderInv(rank, r)
        PROVE  ReaderInv(rank, r)'
    <2>1. pos[r] = NULL
      BY <1>1, <1>7 DEF ReaderInv, Directions
    <2>2. Linked' = Linked /\ \A d : Held(d)' = Held(d)
      BY <1>1, SameContent, HeldSame
    <2>3. Linked \cap limbo = {}
      BY DEF IInv, WriterInv
    <2>4. ASSUME NEW d \in Directions, NEW n \in Linked \cap Held(d)
          PROVE  link[d][n] \in Linked \cup {head}
      <3>1. n \in LinkedIn(d) /\ LinkedIn(d) \subseteq Linked
        BY <2>3, <2>4 DEF Held, LinkedIn
      <3>2. QED
        BY <1>7, <3>1 DEF ChainsInv, Ordered
    <2>5. w.dir \notin Directions
      BY <1>4 DEF Directions
    <2>6. Walking(rank, r)'
      BY <1>5, <2>5 DEF Walking
    <2>7. QED
      BY <1>1, <1>4, <1>5, <2>1, <2>2, <2>3, <2>4, <2>5, <2>6 DEF ReaderInv
  <1>8. QED
    BY <1>1, <1>5, <1>6, <1>7, ReaderMoves

LEMMA ReadUnlockStep ==
  ASSUME IInv, NEW r \in Readers, ReadUnlock(r)
  PROVE  IInv'
  <1>1. /\ UNCHANGED <<link, limbo, wpc, prevElem, nextElem, newElem, it, due, syncing>>
        /\ r \in inside /\ inside' = inside \ {r}
        /\ waiting' = [v \in {writer} |-> waiting[v] \ {r}]
        /\ Zone!TypeOK
    BY DEF ReadUnlock, Zone!ReadUnlock, ReaderStep, listVars, locals, iterVars, IInv, VarTypes
  <1>2. Zone!TypeOK'
    BY <1>1 DEF Zone!TypeOK
  <1>3. walk' = [walk EXCEPT ![r] = Walk!Outside] /\ pos' = [pos EXCEPT ![r] = NULL]
    BY DEF ReadUnlock
  <1>4. /\ walk' \in [Readers -> Walk!Walks] /\ walk'[r] = Walk!Outside
        /\ pos' \in [Readers -> Nodes \cup {NULL}] /\ pos'[r] = NULL
        /\ \A s \in Readers \ {r} : walk'[s] = walk[s] /\ pos'[s] = pos[s]
    BY <1>3, OutsideFields DEF IInv, VarTypes
  <1>5. \A s \in Readers \ {r} : s \in waiting[writer] => s \in waiting'[writer]
    BY <1>1
  <1>6. ASSUME NEW rank, ChainsInv(rank), ReaderInv(rank, r)
        PROVE  ReaderInv(rank, r)'
    BY <1>1, <1>4, OutsideFields DEF ReaderInv, Walking, Directions
  <1>7. QED
    BY <1>1, <1>2, <1>4, <1>5, <1>6, ReaderMoves

\* The fields of walks.
LEMMA WalkFields ==
  ASSUME NEW w \in Walk!Walks, IInv
  PROVE  /\ \A d \in Directions : LET v == Walk!Begun(w, d) IN
              /\ v \in Walk!Walks /\ v.dir = d /\ v.seen = {}
              /\ v.steady = InChain("forward") \cap InChain("backward")
              /\ v.possible = w.possible
         /\ LET v == Walk!Ended(w) IN
              /\ v \in Walk!Walks /\ v.dir = "in" /\ v.seen = {}
              /\ v.steady = {} /\ v.possible = w.possible
         /\ \A n \in Nodes : LET v == Walk!Met(w, n) IN
              /\ v \in Walk!Walks /\ v.dir = w.dir /\ v.seen = w.seen \cup {n}
              /\ v.steady = w.steady /\ v.possible = w.possible
  <1>1. Walk!Settled \in SUBSET Nodes
        /\ Walk!Settled = InChain("forward") \cap InChain("backward")
    BY SettledNow DEF IInv, VarTypes
  <1>2. QED
    BY <1>1 DEF Walk!Walks, Walk!Directions, Directions, Walk!Begun, Walk!Ended, Walk!Met

\* Reader r may go on with the walk w by loading the link of p.
MayLoad(rank, r, p, w) ==
  /\ w \in Walk!Walks
  /\ w.dir \in Directions
  /\ w.possible = walk[r].possible
  /\ w.seen \subseteq w.possible \cap Held(w.dir)
  /\ w.steady \subseteq InChain("forward") \cap InChain("backward")
  /\ p \in (w.possible \cap Held(w.dir)) \cup {head}
  /\ link[w.dir][p] \in w.possible \cup {head}
  /\ w.possible \subseteq Linked \cup limbo
  /\ Progress(rank[w.dir], p, w)

LEMMA ChainHeld ==
  ASSUME IInv, NEW d \in Directions
  PROVE  InChain(d) \subseteq LinkedIn(d) /\ InChain(d) \subseteq Held(d)
         /\ LinkedIn(d) \subseteq Linked
  BY SettledNow DEF LinkedIn, Held, Directions

LEMMA BeginMayLoad ==
  ASSUME IInv, NEW r \in Readers, NEW d \in Directions, Begin(r, d), NEW rank,
         ChainsInv(rank), ReaderInv(rank, r)
  PROVE  MayLoad(rank, r, head, Walk!Begun(walk[r], d))
  <1> DEFINE w == Walk!Begun(walk[r], d)
  <1>1. r \in inside /\ walk[r] \in Walk!Walks
    BY DEF Begin, IInv, VarTypes
  <1>2. /\ w \in Walk!Walks /\ w.dir = d /\ w.seen = {}
        /\ w.steady = InChain("forward") \cap InChain("backward")
        /\ w.possible = walk[r].possible
    BY <1>1, WalkFields
  <1> HIDE DEF w
  <1>3. Ordered(link[d], rank[d], InChain(d), LinkedIn(d), limbo)
    BY DEF ChainsInv
  <1>4. w.steady \subseteq InChain(d) /\ InChain(d) \subseteq LinkedIn(d)
        /\ LinkedIn(d) \subseteq Linked
    BY <1>2, ChainHeld DEF Directions
  <1>5. \A x \in w.steady : ~(rank[d][x] <= rank[d][head])
    BY <1>3, <1>4 DEF Ordered, Ranked
  <1>6. link[d][head] \in InChain(d) \cup {head}
    BY <1>3 DEF Ordered
  <1>7. Linked \subseteq w.possible /\ w.possible \subseteq Linked \cup limbo
    BY <1>1, <1>2 DEF ReaderInv
  <1>8. Progress(rank[d], head, w)
    BY <1>2, <1>5 DEF Progress
  <1>9. MayLoad(rank, r, head, w)
    BY <1>2, <1>4, <1>6, <1>7, <1>8 DEF MayLoad
  <1>10. QED
    BY <1>9 DEF w

LEMMA AdvanceMayLoad ==
  ASSUME IInv, NEW r \in Readers, Advance(r), NEW rank, ReaderInv(rank, r)
  PROVE  MayLoad(rank, r, pos[r], walk[r])
  <1>1. pos[r] # NULL /\ walk[r] \in Walk!Walks /\ walk[r].dir \in Directions
    BY DEF Advance, IInv, VarTypes, ReaderInv
  <1>2. QED
    BY <1>1 DEF MayLoad, ReaderInv, Walking

(***************************************************************************)
(* The load yields a node not met before, with nothing left out that the   *)
(* walk has to meet.                                                       *)
(***************************************************************************)
LEMMA LoadMeets ==
  ASSUME IInv, NEW r \in Readers, NEW rank, NEW p, NEW w,
         ChainsInv(rank), MayLoad(rank, r, p, w),
         NEW n, n = link[w.dir][p], NEW rk, rk = rank[w.dir]
  PROVE  IF n = head THEN w.steady \subseteq w.seen
         ELSE /\ rk[p] < rk[n] /\ n \in w.possible \ w.seen /\ n \in Held(w.dir)
              /\ \A x \in w.steady : x \in w.seen <=> rk[x] < rk[n]
              /\ \A x \in w.seen : rk[x] < rk[n]
  <1> DEFINE d == w.dir
             H == Held(d)
             S == InChain(d)
             nx == link[d]
  <1>1. d \in Directions /\ Ordered(nx, rk, S, LinkedIn(d), limbo)
    BY DEF ChainsInv, MayLoad
  <1>2. H = LinkedIn(d) \cup limbo /\ S \subseteq H
    BY <1>1, ChainHeld DEF Held
  <1>3. w.steady \subseteq S
    BY <1>1 DEF MayLoad, Directions
  <1>4. /\ w.seen \subseteq H /\ p \in H \cup {head} /\ n \in w.possible \cup {head}
        /\ \A x \in w.steady : x \in w.seen <=> rk[x] <= rk[p]
        /\ \A x \in w.seen : rk[x] <= rk[p]
    BY DEF MayLoad, Progress
  <1>5. n = nx[p]
    OBVIOUS
  <1> HIDE DEF d, H, S, nx
  <1>6. /\ \A x \in H \cup {head} : rk[x] \in Int
        /\ Leads(nx, rk, S, p) /\ n \in H \cup {head}
    BY <1>1, <1>2, <1>4, <1>5 DEF Ordered, Ranked
  <1>7. CASE n = head
    BY <1>3, <1>4, <1>5, <1>6, <1>7 DEF Leads
  <1>8. CASE n # head
    <2>1. rk[p] < rk[n] /\ \A x \in S : rk[p] < rk[x] => rk[n] <= rk[x]
      BY <1>5, <1>6, <1>8 DEF Leads
    <2>2. n \in w.possible /\ n \in H /\ rk[n] \in Int /\ rk[p] \in Int
      BY <1>4, <1>6, <1>8
    <2>3. ASSUME NEW x \in w.steady PROVE x \in w.seen <=> rk[x] < rk[n]
      <3>1. rk[x] \in Int /\ x \in S
        BY <1>2, <1>3, <1>6
      <3>2. rk[x] <= rk[p] <=> rk[x] < rk[n]
        BY <2>1, <2>2, <3>1
      <3>3. QED
        BY <1>4, <3>2
    <2>4. ASSUME NEW x \in w.seen PROVE rk[x] < rk[n]
      <3>1. rk[x] \in Int /\ rk[x] <= rk[p]
        BY <1>4, <1>6
      <3>2. QED
        BY <2>1, <2>2, <3>1
    <2>5. n \notin w.seen
      BY <2>2, <2>4
    <2>6. QED
      BY <1>8, <2>1, <2>2, <2>3, <2>4, <2>5 DEF H, d
  <1>9. QED
    BY <1>7, <1>8

LEMMA LoadStep ==
  ASSUME IInv, NEW r \in Readers, NEW p, NEW w, Load(r, p, w), r \in inside,
         \A rank : ChainsInv(rank) /\ ReaderInv(rank, r) => MayLoad(rank, r, p, w)
  PROVE  IInv'
  <1> DEFINE n == link[w.dir][p]
             v == IF n = head THEN Walk!Ended(w) ELSE Walk!Met(w, n)
             q == IF n = head THEN NULL ELSE n
  <1>1. /\ UNCHANGED <<link, limbo, wpc, prevElem, nextElem, newElem, it, due>>
        /\ UNCHANGED <<inside, syncing, waiting>>
    BY DEF Load, ReaderStep, listVars, locals, iterVars, zoneVars
  <1>2. walk' = [walk EXCEPT ![r] = v] /\ pos' = [pos EXCEPT ![r] = q]
    BY DEF Load
  <1>3. PICK rank : ChainsInv(rank) /\ ReaderInv(rank, r)
    BY DEF IInv, ListInv
  <1>4. MayLoad(rank, r, p, w)
    BY <1>3
  <1>5. w \in Walk!Walks /\ w.dir \in Directions /\ Linked \in SUBSET Nodes
        /\ limbo \in SUBSET Nodes /\ w.possible \in SUBSET Nodes
    BY <1>4 DEF MayLoad, IInv, VarTypes
  <1>6. head \notin Nodes /\ NULL \notin Nodes
    BY DlistAssumption
  <1>7. n \in Nodes \cup {head}
    BY <1>4, <1>5 DEF MayLoad
  <1> HIDE DEF n
  <1>8. /\ v \in Walk!Walks
        /\ v.possible = walk[r].possible
        /\ n = head => v.dir = "in" /\ v.seen = {} /\ v.steady = {}
        /\ n # head => /\ v.dir = w.dir /\ v.seen = w.seen \cup {n}
                       /\ v.steady = w.steady
    <2>1. CASE n = head
      BY <1>4, <1>5, <2>1, WalkFields DEF MayLoad
    <2>2. CASE n # head
      BY <1>4, <1>5, <1>7, <2>2, WalkFields DEF MayLoad
    <2>3. QED
      BY <2>1, <2>2
  <1> HIDE DEF v
  <1>9. /\ walk' \in [Readers -> Walk!Walks] /\ walk'[r] = v
        /\ pos' \in [Readers -> Nodes \cup {NULL}] /\ pos'[r] = q
        /\ \A s \in Readers \ {r} : walk'[s] = walk[s] /\ pos'[s] = pos[s]
    BY <1>2, <1>7, <1>8 DEF IInv, VarTypes
  <1>10. Zone!TypeOK'
    BY <1>1 DEF Zone!TypeOK, IInv, VarTypes
  <1>11. Linked' = Linked /\ \A d : Held(d)' = Held(d) /\ InChain(d)' = InChain(d)
    BY <1>1, SameContent, HeldSame
  <1>12. ASSUME NEW rk, ChainsInv(rk), ReaderInv(rk, r)
         PROVE  ReaderInv(rk, r)'
    <2>1. MayLoad(rk, r, p, w)
      BY <1>12
    <2>2. n = link[w.dir][p]
      BY DEF n
    <2>3. ASSUME n # head
          PROVE  /\ n \in v.possible \cap Held(v.dir)
                 /\ v.seen \subseteq v.possible \cap Held(v.dir)
                 /\ v.steady \subseteq InChain("forward") \cap InChain("backward")
                 /\ Progress(rk[v.dir], n, v)
      <3> DEFINE o == rk[w.dir]
      <3>1. /\ n \in w.possible \ w.seen /\ n \in Held(w.dir)
            /\ \A x \in w.steady : x \in w.seen <=> o[x] < o[n]
            /\ \A x \in w.seen : o[x] < o[n]
        BY <1>12, <2>1, <2>2, <2>3, LoadMeets
      <3>2. Ordered(link[w.dir], o, InChain(w.dir), LinkedIn(w.dir), limbo)
        BY <1>5, <1>12 DEF ChainsInv
      <3> HIDE DEF o
      <3>3. /\ \A x \in Held(w.dir) : o[x] \in Int
            /\ \A x, y \in Held(w.dir) : o[x] = o[y] => x = y
        BY <3>2 DEF Ordered, Ranked, Held
      <3>4. w.seen \subseteq w.possible \cap Held(w.dir)
            /\ w.steady \subseteq InChain("forward") \cap InChain("backward")
        BY <2>1 DEF MayLoad
      <3>5. w.steady \subseteq Held(w.dir)
        BY <1>5, <3>4, ChainHeld DEF Directions
      <3>6. ASSUME NEW x \in v.steady PROVE x \in v.seen <=> o[x] <= o[n]
        <4>1. x \in w.steady /\ o[x] \in Int /\ o[n] \in Int
          BY <1>8, <2>3, <3>1, <3>3, <3>5
        <4>2. o[x] <= o[n] <=> o[x] < o[n] \/ x = n
          BY <3>1, <3>3, <3>5, <4>1
        <4>3. QED
          BY <1>8, <2>3, <3>1, <4>1, <4>2
      <3>7. ASSUME NEW x \in v.seen PROVE o[x] <= o[n]
        <4>1. o[n] \in Int /\ (x \in w.seen \/ x = n)
          BY <1>8, <2>3, <3>1, <3>3
        <4>2. CASE x = n
          BY <4>1, <4>2
        <4>3. CASE x \in w.seen
          <5>1. o[x] < o[n] /\ o[x] \in Int
            BY <3>1, <3>3, <3>4, <4>3
          <5>2. QED
            BY <4>1, <5>1
        <4>4. QED
          BY <4>1, <4>2, <4>3
      <3>8. Progress(o, n, v)
        BY <3>6, <3>7 DEF Progress
      <3>9. v.dir = w.dir /\ v.possible = w.possible
        BY <1>8, <2>1, <2>3 DEF MayLoad
      <3>10. QED
        BY <1>8, <2>3, <3>1, <3>4, <3>8, <3>9 DEF o
    <2>4. /\ v.dir \in Directions <=> n # head
          /\ v.dir # "out"
          /\ v.dir \in Directions <=> q # NULL
      BY <1>5, <1>6, <1>7, <1>8 DEF Directions
    <2>5. ASSUME n # head PROVE q = n
      BY <2>5
    <2>6. Walking(rk, r)'
      <3>1. SUFFICES ASSUME walk'[r].dir \in Directions PROVE Walking(rk, r)'
        BY DEF Walking
      <3>2. n # head /\ pos'[r] = n /\ walk'[r] = v
        BY <1>9, <2>4, <2>5, <3>1
      <3>3. Progress(rk[v.dir], n, v) => Progress(rk[walk[r].dir], pos[r], walk[r])'
        BY <3>2 DEF Progress
      <3>4. QED
        BY <1>11, <2>3, <3>2, <3>3 DEF Walking
    <2>7. /\ \A d \in Directions : \A x \in v.possible \cap Held(d) :
               link[d][x] \in v.possible \cup {head}
          /\ Linked \subseteq v.possible
          /\ v.possible \subseteq Linked \cup limbo
          /\ Passed(r)' => v.possible \cap limbo = {}
          /\ r \in inside'
      BY <1>1, <1>8, <1>12 DEF ReaderInv, Passed
    <2>8. QED
      BY <1>1, <1>9, <1>11, <2>4, <2>6, <2>7 DEF ReaderInv
  <1>13. QED
    BY <1>1, <1>9, <1>10, <1>12, ReaderMoves

LEMMA LoadSteps ==
  ASSUME IInv, NEW r \in Readers, Advance(r) \/ \E d \in Directions : Begin(r, d)
  PROVE  IInv'
  <1>1. ASSUME NEW d \in Directions, Begin(r, d) PROVE IInv'
    BY <1>1, BeginMayLoad, LoadStep DEF Begin
  <1>2. CASE Advance(r)
    <2>1. r \in inside
      BY <1>2, OutsideFields DEF Advance, IInv, ListInv, ReaderInv, Directions
    <2>2. QED
      BY <1>2, <2>1, AdvanceMayLoad, LoadStep DEF Advance
  <1>3. QED
    BY <1>1, <1>2

-----------------------------------------------------------------------------
(* The writer's stores.                                                     *)

\* A walk after a store of the writer, L being the list and S settled.
Observed(w, L, S) == [w EXCEPT !.possible = @ \cup L, !.steady = @ \cap S]

\* The ranks rk keep the order that the ranks have.
SameOrder(rank, rk) ==
  \A d \in Directions : \A x, y \in Held(d) :
    rank[d][x] <= rank[d][y] <=> rk[d][x] <= rk[d][y]

\* A store leads to the list L; nobody stands where it does not lead on.
Stored(rk, F, B, L) ==
  /\ LinkType'
  /\ Shape(link', rk, F, B, L, L \ {newElem'}, limbo')
  /\ Linked \cup limbo \subseteq L \cup limbo'
  /\ LinkedIn("backward") \cup limbo \subseteq (L \ {newElem'}) \cup limbo'
  /\ limbo' \subseteq LinkedIn("backward") \cup limbo
  /\ L \cap limbo' = {}
  /\ \A d \in Directions : \A n \in limbo' :
       link'[d][n] = link[d][n] \/ link'[d][n] \in L \cup {head}

LEMMA StoredReaders ==
  ASSUME IInv, NEW rank, ChainsInv(rank), NEW r \in Readers, ReaderInv(rank, r),
         NEW rk, NEW F, NEW B, NEW L, Stored(rk, F, B, L), SameOrder(rank, rk),
         UNCHANGED <<zoneVars, pos>>, Walk!Observe, wpc' \notin {"sync", "free"}
  PROVE  ReaderInv(rk, r)' /\ walk'[r] \in Walk!Walks
  <1>1. /\ Linked' = L /\ InChain("forward")' = F /\ InChain("backward")' = B
        /\ \A d \in Directions : InChain(d)' \subseteq LinkedIn(d)'
        /\ LinkedIn("forward")' = L /\ LinkedIn("backward")' = L \ {newElem'}
        /\ L \in SUBSET Nodes
    <2>1. Linked' = L /\ InChain("forward")' = F /\ InChain("backward")' = B
      BY NewChains DEF Stored
    <2>2. LinkedIn("forward")' = L /\ LinkedIn("backward")' = L \ {newElem'}
      BY <2>1 DEF LinkedIn
    <2>3. F \subseteq L /\ B \subseteq L \ {newElem'} /\ L \in SUBSET Nodes
      BY DEF Stored, Shape
    <2>4. QED
      BY <2>1, <2>2, <2>3 DEF Directions
  <1>2. /\ LinkedIn("forward") = Linked
        /\ \A d \in Directions : d = "forward" \/ d = "backward"
    BY DEF Directions, LinkedIn
  <1>3. /\ \A d \in Directions : Held(d) \subseteq Held(d)' /\ limbo' \subseteq Held(d)
        /\ Linked \cup limbo \subseteq L \cup limbo'
    <2>1. Held("forward") \subseteq Held("forward")'
          /\ Held("backward") \subseteq Held("backward")'
      BY <1>1, <1>2 DEF Stored, Held
    <2>2. limbo' \subseteq Held("forward") /\ limbo' \subseteq Held("backward")
      BY <1>2 DEF Stored, Held, LinkedIn
    <2>3. QED
      BY <1>2, <2>1, <2>2 DEF Stored
  <1>4. Walk!Settled' = L \cap F \cap B
    BY <1>1, WalkLinked
  <1>5. /\ UNCHANGED <<inside, pos>>
        /\ walk'[r] = IF walk[r].dir = "out" THEN Walk!Outside
                      ELSE Observed(walk[r], L, L \cap F \cap B)
    BY <1>1, <1>4, WalkLinked DEF zoneVars, Walk!Observe, Observed
  <1>6. ~Passed(r)'
    BY DEF Passed
  <1>7. CASE walk[r].dir = "out"
    <2>1. walk'[r] = Walk!Outside
      BY <1>5, <1>7
    <2>2. r \notin inside /\ pos[r] = NULL
      BY <1>7 DEF ReaderInv, Directions
    <2>3. QED
      BY <1>5, <2>1, <2>2, OutsideFields DEF ReaderInv, Walking, Directions
  <1>8. CASE walk[r].dir # "out"
    <2>0. PICK w, v : w = walk[r] /\ v = walk'[r]
      OBVIOUS
    <2>1. w \in Walk!Walks /\ v = Observed(w, L, L \cap F \cap B)
      BY <1>5, <1>8, <2>0 DEF IInv, VarTypes
    <2>2. /\ v \in Walk!Walks /\ v.dir = w.dir /\ v.seen = w.seen
          /\ v.possible = w.possible \cup L /\ v.steady = w.steady \cap (L \cap F \cap B)
      <3>1. PICK S : S = L \cap F \cap B
        OBVIOUS
      <3>2. w \in Walk!Walks /\ L \in SUBSET Nodes /\ v = Observed(w, L, S)
        BY <1>1, <2>1, <3>1
      <3>3. /\ v \in Walk!Walks /\ v.dir = w.dir /\ v.seen = w.seen
            /\ v.possible = w.possible \cup L /\ v.steady = w.steady \cap S
        BY <3>2 DEF Observed, Walk!Walks, Walk!Directions
      <3>4. QED
        BY <3>1, <3>3
    <2>3. ASSUME NEW d \in Directions, NEW n \in v.possible \cap Held(d)'
          PROVE  link'[d][n] \in v.possible \cup {head}
      <3>1. CASE n \in LinkedIn(d)'
        <4>1. \A x \in LinkedIn(d)' : link'[d][x] \in LinkedIn(d)' \cup {head}
          BY <1>1, <1>2 DEF Stored, Shape, Ordered
        <4>2. LinkedIn(d)' \subseteq L
          BY <1>1, <1>2
        <4>3. QED
          BY <2>2, <3>1, <4>1, <4>2
      <3>2. CASE n \notin LinkedIn(d)'
        <4>1. n \in limbo' /\ n \in w.possible /\ n \in Held(d)
          BY <1>3, <2>2, <2>3, <3>2 DEF Held, Stored
        <4>2. link[d][n] \in w.possible \cup {head}
          BY <2>0, <4>1 DEF ReaderInv
        <4>3. link'[d][n] = link[d][n] \/ link'[d][n] \in L \cup {head}
          BY <4>1 DEF Stored
        <4>4. QED
          BY <2>2, <4>2, <4>3
      <3>3. QED
        BY <3>1, <3>2
    <2>4. Walking(rk, r)'
      <3>1. SUFFICES ASSUME walk'[r].dir \in Directions PROVE Walking(rk, r)'
        BY DEF Walking
      <3>0. PICK d, p : d = w.dir /\ p = pos[r]
        OBVIOUS
      <3> DEFINE o == rank[d]
                 ok == rk[d]
      <3>2. d \in Directions /\ v.dir = d
        BY <2>0, <2>2, <3>0, <3>1
      <3>3. /\ p \in w.possible \cap Held(d) /\ w.seen \subseteq w.possible \cap Held(d)
            /\ w.steady \subseteq InChain("forward") \cap InChain("backward")
            /\ Progress(o, p, w)
        BY <2>0, <3>0, <3>2 DEF ReaderInv, Walking
      <3>4. w.steady \subseteq Held(d)
        BY <1>2, <3>2, <3>3, ChainHeld
      <3>5. \A x, y \in Held(d) : o[x] <= o[y] <=> ok[x] <= ok[y]
        BY <3>2 DEF SameOrder
      <3>6. Held(d) \subseteq Held(d)'
        BY <1>3, <3>2
      <3> HIDE DEF o, ok
      <3>7. Progress(ok, p, v)
        BY <2>2, <3>3, <3>4, <3>5 DEF Progress
      <3>8. pos'[r] = p
        BY <1>5, <3>0
      <3>9. /\ p \in v.possible \cap Held(d)'
            /\ v.seen \subseteq v.possible \cap Held(d)'
            /\ v.steady \subseteq InChain("forward")' \cap InChain("backward")'
        BY <1>1, <2>2, <3>3, <3>6
      <3>10. Progress(rk[v.dir], p, v)
        BY <3>2, <3>7 DEF ok
      <3>11. Progress(rk[walk[r].dir], pos[r], walk[r])'
        BY <2>0, <3>8, <3>10 DEF Progress
      <3>12. QED
        BY <2>0, <3>2, <3>8, <3>9, <3>11 DEF Walking
    <2>5. v.possible \subseteq L \cup limbo' /\ L \subseteq v.possible
      BY <1>3, <2>0, <2>2 DEF ReaderInv
    <2>6. v.dir # "out" /\ r \in inside' /\ (v.dir \in Directions <=> pos'[r] # NULL)
      BY <1>5, <1>8, <2>0, <2>2 DEF ReaderInv
    <2>7. QED
      BY <1>1, <1>6, <2>0, <2>1, <2>2, <2>3, <2>4, <2>5, <2>6 DEF ReaderInv
  <1>9. QED
    BY <1>7, <1>8

\* The order that readers know is the order of Content.
LEMMA StoredRelist ==
  ASSUME IInv, NEW rank, ChainsInv(rank),
         NEW rk, NEW F, NEW B, NEW L, Stored(rk, F, B, L), SameOrder(rank, rk)
  PROVE  Walk!Relist(L) /\ (L = Linked => Content' = Content)
  <1> DEFINE o == rank["forward"]
             ok == rk["forward"]
             c == Content
             b == Content'
  <1>1. /\ Lists(b, ok, L) /\ Ranked(ok, L)
        /\ b \in Seq(Nodes) /\ IsInjective(b)
        /\ \A m, n : Walk!Precedes(m, n)' <=> m \in L /\ n \in L /\ ok[m] < ok[n]
    BY NewChains DEF Stored
  <1>2. Linked' = L
    BY NewChains DEF Stored
  <1>3. Lists(c, o, Linked) /\ Ranked(o, Linked)
    BY ListNow
  <1>4. \A m, n : Walk!Precedes(m, n) <=> m \in Linked /\ n \in Linked /\ o[m] < o[n]
    BY OrderNow
  <1>5. \A x, y \in Linked : o[x] <= o[y] <=> ok[x] <= ok[y]
    <2>1. "forward" \in Directions /\ Linked \subseteq Held("forward")
      BY DEF Directions, Held, LinkedIn
    <2>2. QED
      BY <2>1 DEF SameOrder
  <1> HIDE DEF o, ok, c
  <1>6. L = Linked => b = c
    <2>1. SUFFICES ASSUME L = Linked PROVE b = c
      OBVIOUS
    <2> HIDE DEF b
    <2>2. QED
      BY <1>1, <1>3, <1>5, <2>1, ListsUnique
  <1>7. \A m, n \in Linked \cap L : Walk!Precedes(m, n) <=> Walk!Precedes(m, n)'
    <2>1. SUFFICES ASSUME NEW m \in Linked \cap L, NEW n \in Linked \cap L
                   PROVE  Walk!Precedes(m, n) <=> Walk!Precedes(m, n)'
      OBVIOUS
    <2>2. {o[m], o[n], ok[m], ok[n]} \subseteq Int
      BY <1>1, <1>3, <2>1 DEF Ranked
    <2>3. o[n] <= o[m] <=> ok[n] <= ok[m]
      BY <1>5, <2>1
    <2>4. o[m] < o[n] <=> ok[m] < ok[n]
      BY <2>2, <2>3
    <2>5. QED
      BY <1>1, <1>4, <2>1, <2>4
  <1>8. Walk!ToSet(Content') = L /\ Walk!IsInjective(Content')
    BY <1>1, <1>2 DEF Linked, Walk!ToSet, ToSet, Walk!IsInjective, IsInjective
  <1>9. Walk!Relist(L)
    BY <1>1, <1>7, <1>8, WalkLinked DEF Walk!Relist
  <1>10. QED
    BY <1>6, <1>9 DEF c

\* A store after which nothing is given back.
LEMMA StoreStep ==
  ASSUME IInv, NEW rank, ChainsInv(rank), \A r \in Readers : ReaderInv(rank, r),
         NEW rk, NEW F, NEW B, NEW L, Stored(rk, F, B, L), SameOrder(rank, rk),
         UNCHANGED <<zoneVars, pos>>, Walk!Observe,
         wpc' \in {"idle", "newPrev", "prevNext", "nextPrev", "removePrev", "resetNext"},
         prevElem' \in Nodes \cup {head, NULL}, nextElem' \in Nodes \cup {head, NULL},
         newElem' \in Nodes \cup {NULL}, it' \in Iterators, due' \in SUBSET Nodes,
         IterInv(rk)', WriterInv'
  PROVE  IInv'
  <1>1. /\ Linked' = L /\ L \in SUBSET Nodes /\ limbo' \in SUBSET Nodes
        /\ InChain("forward")' = F /\ InChain("backward")' = B
    <2>1. Linked' = L /\ InChain("forward")' = F /\ InChain("backward")' = B
      BY NewChains DEF Stored
    <2>2. L \in SUBSET Nodes /\ limbo' \in SUBSET Nodes
      BY DEF Stored, Shape
    <2>3. QED
      BY <2>1, <2>2
  <1>2. \A r \in Readers : ReaderInv(rk, r)' /\ walk'[r] \in Walk!Walks
    BY StoredReaders
  <1>3. ChainsInv(rk)'
    <2>1. /\ Ordered(link'["forward"], rk["forward"], F, L, limbo')
          /\ Ordered(link'["backward"], rk["backward"], B, L \ {newElem'}, limbo')
          /\ Mirrored(rk["forward"], rk["backward"], L \ {newElem'})
      BY DEF Stored, Shape
    <2>2. LinkedIn("forward")' = L /\ LinkedIn("backward")' = L \ {newElem'}
      BY <1>1 DEF LinkedIn
    <2>3. \A d \in Directions :
            Ordered(link'[d], rk[d], InChain(d)', LinkedIn(d)', limbo')
      BY <1>1, <2>1, <2>2 DEF Directions
    <2>4. QED
      BY <2>1, <2>2, <2>3 DEF ChainsInv
  <1>4. ListInv'
    BY <1>2, <1>3 DEF ListInv
  <1>5. walk' \in [Readers -> Walk!Walks]
    <2>1. walk' = [r \in Readers |-> walk'[r]]
      BY DEF Walk!Observe
    <2>2. QED
      BY <1>2, <2>1
  <1>6. Zone!TypeOK' /\ pos' \in [Readers -> Nodes \cup {NULL}]
    BY DEF IInv, VarTypes, Zone!TypeOK, zoneVars
  <1>7. VarTypes'
    BY <1>1, <1>5, <1>6 DEF VarTypes, Stored
  <1>8. QED
    BY <1>4, <1>7 DEF IInv

\* The links after a store.
OneLink(d, p, n) ==
  /\ link'[d] = [link[d] EXCEPT ![p] = n] /\ link'[d][p] = n
  /\ \A x \in Nodes \cup {head} : x # p => link'[d][x] = link[d][x]
  /\ \A e \in Directions : e # d => link'[e] = link[e]

LEMMA StoreFields ==
  ASSUME IInv, NEW from, NEW to, NEW d \in Directions, NEW p \in Nodes \cup {head},
         NEW n \in Nodes \cup {head}, Store(from, to, d, p, n)
  PROVE  /\ wpc = from /\ wpc' = to /\ UNCHANGED <<zoneVars, pos, syncing>> /\ Walk!Observe
         /\ LinkType' /\ OneLink(d, p, n)
  <1>1. /\ wpc = from /\ wpc' = to /\ UNCHANGED <<zoneVars, pos>> /\ Walk!Observe
        /\ link' = [link EXCEPT ![d][p] = n]
    BY DEF Store
  <1>2. link \in [Directions -> [Nodes \cup {head} -> Nodes \cup {head, NULL}]]
    BY DEF IInv, VarTypes, LinkType
  <1>3. link'[d] = [link[d] EXCEPT ![p] = n] /\ \A e \in Directions : e # d => link'[e] = link[e]
    BY <1>1, <1>2
  <1>4. link'[d][p] = n /\ \A x \in Nodes \cup {head} : x # p => link'[d][x] = link[d][x]
    BY <1>2, <1>3
  <1>5. LinkType'
    BY <1>1, <1>2 DEF LinkType
  <1>6. syncing' = syncing
    BY <1>1 DEF zoneVars
  <1>7. QED
    BY <1>1, <1>3, <1>4, <1>5, <1>6 DEF OneLink

\* What does not change unless the store says so.
LEMMA StateTypes ==
  ASSUME IInv
  PROVE  /\ link["forward"] \in [Nodes \cup {head} -> Nodes \cup {head, NULL}]
         /\ link["backward"] \in [Nodes \cup {head} -> Nodes \cup {head, NULL}]
         /\ Linked \in SUBSET Nodes /\ limbo \in SUBSET Nodes /\ limbo \cap Linked = {}
         /\ head \notin Nodes /\ NULL \notin Nodes \cup {head}
         /\ it \in Iterators /\ due \in SUBSET Nodes
         /\ prevElem \in Nodes \cup {head, NULL} /\ nextElem \in Nodes \cup {head, NULL}
         /\ newElem \in Nodes \cup {NULL}
         /\ "forward" \in Directions /\ "backward" \in Directions
         /\ \A d \in Directions : d = "forward" \/ d = "backward"
         /\ wpc # "sync" => writer \notin syncing
  BY DlistAssumption DEF IInv, VarTypes, LinkType, WriterInv, Directions

\* Between two operations both chains hold the whole list.
LEMMA IdleNow ==
  ASSUME IInv, wpc \in {"idle", "sync", "free"}, NEW rank, ChainsInv(rank)
  PROVE  /\ InChain("forward") = Linked /\ InChain("backward") = Linked
         /\ newElem = NULL /\ LinkedIn("backward") = Linked /\ LinkedIn("forward") = Linked
         /\ Ordered(link["forward"], rank["forward"], Linked, Linked, limbo)
         /\ Ordered(link["backward"], rank["backward"], Linked, Linked, limbo)
         /\ Mirrored(rank["forward"], rank["backward"], Linked)
  <1>1. InChain("forward") = Linked /\ InChain("backward") = Linked /\ newElem = NULL
    BY DEF IInv, WriterInv
  <1>2. LinkedIn("backward") = Linked /\ LinkedIn("forward") = Linked
    BY <1>1, StateTypes DEF LinkedIn
  <1>3. QED
    BY <1>1, <1>2, StateTypes DEF ChainsInv

\* A node is between its neighbours.
LEMMA Between ==
  ASSUME IInv, wpc \in {"idle", "sync", "free"}, NEW m \in Linked \cup {head}
  PROVE  /\ link["forward"][m] \in Linked \cup {head}
         /\ link["backward"][m] \in Linked \cup {head}
         /\ link["backward"][link["forward"][m]] = m
         /\ link["forward"][link["backward"][m]] = m
         /\ m \in Linked => link["forward"][m] # m /\ link["backward"][m] # m
  <1>1. PICK rank : ChainsInv(rank)
    BY DEF IInv, ListInv
  <1>2. PICK nx, ny, o, ok : /\ nx = link["forward"] /\ ny = link["backward"]
                             /\ o = rank["forward"] /\ ok = rank["backward"]
    OBVIOUS
  <1>3. Ordered(nx, o, Linked, Linked, limbo) /\ Ordered(ny, ok, Linked, Linked, limbo)
        /\ \A x, y \in Linked : o[x] <= o[y] <=> ok[y] <= ok[x]
    BY <1>1, <1>2, IdleNow DEF Mirrored
  <1>4. \A x, y \in Linked : ok[x] <= ok[y] <=> o[y] <= o[x]
    BY <1>3
  <1>5. Linked \in SUBSET Nodes /\ head \notin Linked
    BY StateTypes
  <1>6. ny[nx[m]] = m
    BY <1>3, <1>5, Neighbours
  <1>7. nx[ny[m]] = m
    BY <1>3, <1>4, <1>5, Neighbours
  <1>8. nx[m] \in Linked \cup {head} /\ ny[m] \in Linked \cup {head}
    BY <1>3 DEF Ordered
  <1>9. m \in Linked => nx[m] # m /\ ny[m] # m
    BY <1>3, <1>5 DEF Ordered, Ranked, Leads
  <1>10. QED
    BY <1>2, <1>6, <1>7, <1>8, <1>9

\* A store that leaves the safe iterator its nodes.
LEMMA IterKept ==
  ASSUME IInv, NEW rank, IterInv(rank), NEW rk, SameOrder(rank, rk),
         it' # NoIter => /\ it # NoIter /\ it'.dir = it.dir /\ it'.ahead = it.ahead
                         /\ \A d \in Directions :
                              it.ahead \in InChain(d) => it.ahead \in InChain(d)'
                         /\ due' \subseteq due
                         /\ \A d \in Directions : due' \cap InChain(d) \subseteq InChain(d)'
  PROVE  IterInv(rk)'
  <1>1. SUFFICES ASSUME it' # NoIter PROVE IterInv(rk)'
    BY DEF IterInv
  <1>2. PICK d, a : d = it.dir /\ a = it.ahead
    OBVIOUS
  <1>3. /\ d \in Directions /\ a \in InChain(d) \cup {head} /\ due \subseteq InChain(d)
        /\ \A x \in due : a # head /\ rank[d][a] <= rank[d][x]
    BY <1>1, <1>2 DEF IterInv
  <1>4. InChain(d) \subseteq Held(d)
    BY <1>3, ChainHeld
  <1>5. \A x \in due : rk[d][a] <= rk[d][x]
    BY <1>3, <1>4 DEF SameOrder
  <1>6. /\ it'.dir = d /\ it'.ahead = a /\ due' \subseteq due
        /\ a \in InChain(d)' \cup {head} /\ due' \subseteq InChain(d)'
    BY <1>1, <1>2, <1>3
  <1>7. QED
    BY <1>3, <1>5, <1>6 DEF IterInv

LEMMA OrderSame == \A rank : SameOrder(rank, rank)
  BY DEF SameOrder

-----------------------------------------------------------------------------
(* Insertion.                                                               *)

LEMMA AddBetweenStep ==
  ASSUME IInv, NEW p \in Linked \cup {head}, NEW q \in Linked \cup {head}, NEW n \in Nodes,
         link["forward"][p] = q, link["backward"][q] = p, AddBetween(p, q, n)
  PROVE  IInv' /\ Content' = Content
  <1>1. /\ Store("idle", "newPrev", "forward", n, q) /\ n \notin Linked \cup limbo
        /\ prevElem' = p /\ nextElem' = q /\ newElem' = n
        /\ limbo' = limbo /\ it' = it /\ due' = due
    BY DEF AddBetween, Arguments, iterVars
  <1>2. q \in Nodes \cup {head} /\ p \in Nodes \cup {head}
    BY StateTypes
  <1>3. /\ wpc = "idle" /\ wpc' = "newPrev" /\ UNCHANGED <<zoneVars, pos, syncing>>
        /\ Walk!Observe /\ LinkType'
        /\ link'["forward"][n] = q /\ link'["backward"] = link["backward"]
        /\ \A x \in Nodes \cup {head} : x # n => link'["forward"][x] = link["forward"][x]
    <2>1. "forward" \in Directions /\ "backward" \in Directions /\ n \in Nodes \cup {head}
      BY StateTypes
    <2>2. /\ wpc = "idle" /\ wpc' = "newPrev" /\ UNCHANGED <<zoneVars, pos, syncing>>
          /\ Walk!Observe /\ LinkType' /\ OneLink("forward", n, q)
      BY <1>1, <1>2, <2>1, StoreFields
    <2>3. QED
      BY <2>1, <2>2 DEF OneLink
  <1>4. PICK rank : /\ ChainsInv(rank) /\ IterInv(rank)
                    /\ \A r \in Readers : ReaderInv(rank, r)
    BY DEF IInv, ListInv
  <1>5. /\ InChain("forward") = Linked /\ InChain("backward") = Linked
        /\ LinkedIn("backward") = Linked
        /\ Ordered(link["forward"], rank["forward"], Linked, Linked, limbo)
        /\ Ordered(link["backward"], rank["backward"], Linked, Linked, limbo)
        /\ Mirrored(rank["forward"], rank["backward"], Linked)
    BY <1>3, <1>4, IdleNow
  <1>6. Ordered(link'["forward"], rank["forward"], Linked, Linked, limbo)
    <2>1. \A x \in Linked \cup limbo \cup {head} : link'["forward"][x] = link["forward"][x]
      BY <1>1, <1>3, StateTypes
    <2>2. QED
      BY <1>5, <2>1, KeptOrder
  <1>7. Linked \ {newElem'} = Linked
    BY <1>1
  <1>8. Shape(link', rank, Linked, Linked, Linked, Linked \ {newElem'}, limbo')
    BY <1>1, <1>3, <1>5, <1>6, <1>7, StateTypes DEF Shape
  <1>9. \A d \in Directions : \A x \in limbo' : link'[d][x] = link[d][x]
    BY <1>1, <1>3, StateTypes
  <1>10. Stored(rank, Linked, Linked, Linked) /\ SameOrder(rank, rank)
    BY <1>1, <1>3, <1>5, <1>7, <1>8, <1>9, StateTypes, OrderSame DEF Stored
  <1>11. InChain("forward")' = Linked /\ InChain("backward")' = Linked /\ Linked' = Linked
         /\ LinkedIn("backward")' = Linked
    <2>1. InChain("forward")' = Linked /\ InChain("backward")' = Linked /\ Linked' = Linked
      BY <1>3, <1>8, NewChains
    <2>2. QED
      BY <1>7, <2>1 DEF LinkedIn
  <1>12. IterInv(rank)'
    BY <1>1, <1>4, <1>5, <1>11, StateTypes, OrderSame, IterKept
  <1>13. WriterInv'
    <2>1. Inserting' /\ newElem' \notin Linked' /\ link'["forward"][prevElem'] = nextElem'
      BY <1>1, <1>2, <1>3, <1>11, StateTypes DEF Inserting
    <2>2. limbo' \cap Linked' = {} /\ writer \notin syncing'
      BY <1>1, <1>3, <1>11, StateTypes
    <2>3. QED
      BY <1>3, <2>1, <2>2 DEF WriterInv
  <1>14. IInv'
    <2>1. /\ it' \in Iterators /\ due' \in SUBSET Nodes /\ prevElem' \in Nodes \cup {head, NULL}
          /\ nextElem' \in Nodes \cup {head, NULL} /\ newElem' \in Nodes \cup {NULL}
          /\ UNCHANGED <<zoneVars, pos>>
      BY <1>1, <1>2, <1>3, StateTypes
    <2>2. QED
      BY <1>3, <1>4, <1>10, <1>12, <1>13, <2>1, StoreStep
  <1>15. Content' = Content
    BY <1>4, <1>10, StoredRelist
  <1>16. QED
    BY <1>14, <1>15

LEMMA InsertionStep ==
  ASSUME IInv, Insertion
  PROVE  IInv' /\ Content' = Content /\ Walk!Observe /\ UNCHANGED limbo
  <1>1. PICK n \in Nodes : \E p \in Linked \cup {head} :
                             rcuDlistInsertAfter(p, n) \/ rcuDlistInsertBefore(p, n)
    BY DEF Insertion, rcuDlistAppend, rcuDlistPrepend
  <1>2. PICK p \in Linked \cup {head} : rcuDlistInsertAfter(p, n) \/ rcuDlistInsertBefore(p, n)
    BY <1>1
  <1>3. wpc = "idle" /\ Walk!Observe /\ UNCHANGED limbo
    BY <1>2 DEF rcuDlistInsertAfter, rcuDlistInsertBefore, AddBetween, Store
  <1>4. CASE rcuDlistInsertAfter(p, n)
    <2>1. PICK q : q = link["forward"][p]
      OBVIOUS
    <2>2. q \in Linked \cup {head} /\ link["backward"][q] = p
      BY <1>3, <2>1, Between
    <2>3. AddBetween(p, q, n)
      BY <1>4, <2>1 DEF rcuDlistInsertAfter
    <2>4. QED
      BY <1>3, <2>1, <2>2, <2>3, AddBetweenStep
  <1>5. CASE rcuDlistInsertBefore(p, n)
    <2>1. PICK q : q = link["backward"][p]
      OBVIOUS
    <2>2. q \in Linked \cup {head} /\ link["forward"][q] = p
      BY <1>3, <2>1, Between
    <2>3. AddBetween(q, p, n)
      BY <1>5, <2>1 DEF rcuDlistInsertBefore
    <2>4. QED
      BY <1>3, <2>1, <2>2, <2>3, AddBetweenStep
  <1>6. QED
    BY <1>2, <1>4, <1>5

\* While an element is being inserted, the chain backward lacks it.
LEMMA InsertingNow ==
  ASSUME IInv, wpc \in {"newPrev", "prevNext", "nextPrev"}, NEW rank, ChainsInv(rank),
         NEW K, K = LinkedIn("backward")
  PROVE  /\ InChain("forward") = Linked /\ InChain("backward") = K /\ K = Linked \ {newElem}
         /\ newElem \in Nodes \ (K \cup limbo)
         /\ prevElem \in K \cup {head} /\ nextElem \in K \cup {head}
         /\ link["forward"][newElem] = nextElem /\ link["backward"][nextElem] = prevElem
         /\ Ordered(link["forward"], rank["forward"], Linked, Linked, limbo)
         /\ Ordered(link["backward"], rank["backward"], K, K, limbo)
         /\ Mirrored(rank["forward"], rank["backward"], K)
  <1>1. Inserting
    BY DEF IInv, WriterInv
  <1>2. LinkedIn("backward") = Linked \ {newElem} /\ LinkedIn("forward") = Linked
    BY DEF LinkedIn
  <1>3. QED
    BY <1>1, <1>2, StateTypes DEF Inserting, ChainsInv

LEMMA StoreNewPrevStep ==
  ASSUME IInv, StoreNewPrev
  PROVE  IInv' /\ Content' = Content /\ Walk!Observe /\ UNCHANGED limbo
  <1>1. /\ Store("newPrev", "prevNext", "backward", newElem, prevElem)
        /\ limbo' = limbo /\ it' = it /\ due' = due
        /\ prevElem' = prevElem /\ nextElem' = nextElem /\ newElem' = newElem
    BY DEF StoreNewPrev, locals, iterVars
  <1>2. wpc = "newPrev"
    BY <1>1 DEF Store
  <1>3. PICK rank : /\ ChainsInv(rank) /\ IterInv(rank)
                    /\ \A r \in Readers : ReaderInv(rank, r)
    BY DEF IInv, ListInv
  <1>4. newElem \notin Linked /\ link["forward"][prevElem] = nextElem
    BY <1>2 DEF IInv, WriterInv
  <1>5. LinkedIn("backward") = Linked
    BY <1>4 DEF LinkedIn
  <1>6. /\ InChain("forward") = Linked /\ InChain("backward") = Linked
        /\ newElem \in Nodes \ (Linked \cup limbo)
        /\ prevElem \in Linked \cup {head} /\ nextElem \in Linked \cup {head}
        /\ link["forward"][newElem] = nextElem /\ link["backward"][nextElem] = prevElem
        /\ Ordered(link["forward"], rank["forward"], Linked, Linked, limbo)
        /\ Ordered(link["backward"], rank["backward"], Linked, Linked, limbo)
        /\ Mirrored(rank["forward"], rank["backward"], Linked)
    BY <1>2, <1>3, <1>5, InsertingNow
  <1>7. /\ wpc' = "prevNext" /\ UNCHANGED <<zoneVars, pos, syncing>>
        /\ Walk!Observe /\ LinkType'
        /\ link'["backward"][newElem] = prevElem /\ link'["forward"] = link["forward"]
        /\ \A x \in Nodes \cup {head} : x # newElem => link'["backward"][x] = link["backward"][x]
    <2>1. /\ "forward" \in Directions /\ "backward" \in Directions
          /\ newElem \in Nodes \cup {head} /\ prevElem \in Nodes \cup {head}
      BY <1>6, StateTypes
    <2>2. /\ wpc' = "prevNext" /\ UNCHANGED <<zoneVars, pos, syncing>>
          /\ Walk!Observe /\ LinkType' /\ OneLink("backward", newElem, prevElem)
      BY <1>1, <2>1, StoreFields
    <2>3. QED
      BY <2>1, <2>2 DEF OneLink
  <1>8. Ordered(link'["backward"], rank["backward"], Linked, Linked, limbo)
    <2>1. \A x \in Linked \cup limbo \cup {head} : link'["backward"][x] = link["backward"][x]
      BY <1>6, <1>7, StateTypes
    <2>2. QED
      BY <1>6, <2>1, KeptOrder
  <1>9. Linked \ {newElem'} = Linked
    BY <1>1, <1>4
  <1>10. Shape(link', rank, Linked, Linked, Linked, Linked \ {newElem'}, limbo')
    BY <1>1, <1>6, <1>7, <1>8, <1>9, StateTypes DEF Shape
  <1>11. \A d \in Directions : \A x \in limbo' : link'[d][x] = link[d][x]
    BY <1>1, <1>6, <1>7, StateTypes
  <1>12. Stored(rank, Linked, Linked, Linked) /\ SameOrder(rank, rank)
    BY <1>1, <1>5, <1>7, <1>9, <1>10, <1>11, StateTypes, OrderSame DEF Stored
  <1>13. InChain("forward")' = Linked /\ InChain("backward")' = Linked /\ Linked' = Linked
         /\ LinkedIn("backward")' = Linked
    <2>1. InChain("forward")' = Linked /\ InChain("backward")' = Linked /\ Linked' = Linked
      BY <1>7, <1>10, NewChains
    <2>2. QED
      BY <1>9, <2>1 DEF LinkedIn
  <1>14. IterInv(rank)'
    BY <1>1, <1>3, <1>6, <1>13, StateTypes, OrderSame, IterKept
  <1>15. WriterInv'
    <2>1. /\ Inserting' /\ newElem' \notin Linked' /\ link'["forward"][prevElem'] = nextElem'
          /\ link'["backward"][newElem'] = prevElem'
      BY <1>1, <1>4, <1>6, <1>7, <1>13, StateTypes DEF Inserting
    <2>2. limbo' \cap Linked' = {} /\ writer \notin syncing'
      BY <1>1, <1>2, <1>7, <1>13, StateTypes
    <2>3. QED
      BY <1>7, <2>1, <2>2 DEF WriterInv
  <1>16. IInv'
    <2>1. /\ it' \in Iterators /\ due' \in SUBSET Nodes /\ prevElem' \in Nodes \cup {head, NULL}
          /\ nextElem' \in Nodes \cup {head, NULL} /\ newElem' \in Nodes \cup {NULL}
          /\ UNCHANGED <<zoneVars, pos>>
      BY <1>1, <1>7, StateTypes
    <2>2. QED
      BY <1>3, <1>7, <1>12, <1>14, <1>15, <2>1, StoreStep
  <1>17. Content' = Content
    BY <1>3, <1>12, StoredRelist
  <1>18. QED
    BY <1>1, <1>7, <1>16, <1>17

\* The ranks rank, with those of one direction replaced.
Reranked(rank, d, o) == [e \in Directions |-> IF e = d THEN o ELSE rank[e]]

LEMMA RerankedFields ==
  ASSUME NEW rank, NEW o
  PROVE  /\ Reranked(rank, "forward", o)["forward"] = o
         /\ Reranked(rank, "forward", o)["backward"] = rank["backward"]
         /\ Reranked(rank, "backward", o)["backward"] = o
         /\ Reranked(rank, "backward", o)["forward"] = rank["forward"]
  BY DEF Reranked, Directions

LEMMA StorePrevNextStep ==
  ASSUME IInv, StorePrevNext
  PROVE  /\ IInv' /\ Walk!Observe /\ UNCHANGED limbo
         /\ newElem \in Nodes \ (Linked \cup limbo) /\ Linked' = Linked \cup {newElem}
         /\ Walk!Relist(Linked \cup {newElem})
         /\ InChain("forward") = Linked /\ InChain("backward") = Linked
         /\ InChain("forward")' = Linked' /\ InChain("backward")' = Linked
  <1>1. /\ Store("prevNext", "nextPrev", "forward", prevElem, newElem)
        /\ limbo' = limbo /\ it' = it /\ due' = due
        /\ prevElem' = prevElem /\ nextElem' = nextElem /\ newElem' = newElem
    BY DEF StorePrevNext, locals, iterVars
  <1>2. wpc = "prevNext"
    BY <1>1 DEF Store
  <1>3. PICK rank : /\ ChainsInv(rank) /\ IterInv(rank)
                    /\ \A r \in Readers : ReaderInv(rank, r)
    BY DEF IInv, ListInv
  <1>4. /\ newElem \notin Linked /\ link["forward"][prevElem] = nextElem
        /\ link["backward"][newElem] = prevElem
    BY <1>2 DEF IInv, WriterInv
  <1>5. LinkedIn("backward") = Linked
    BY <1>4 DEF LinkedIn
  <1>6. /\ InChain("forward") = Linked /\ InChain("backward") = Linked
        /\ newElem \in Nodes \ (Linked \cup limbo)
        /\ prevElem \in Linked \cup {head} /\ nextElem \in Linked \cup {head}
        /\ link["forward"][newElem] = nextElem /\ link["backward"][nextElem] = prevElem
        /\ Ordered(link["forward"], rank["forward"], Linked, Linked, limbo)
        /\ Ordered(link["backward"], rank["backward"], Linked, Linked, limbo)
        /\ Mirrored(rank["forward"], rank["backward"], Linked)
    BY <1>2, <1>3, <1>5, InsertingNow
  <1>7. /\ wpc' = "nextPrev" /\ UNCHANGED <<zoneVars, pos, syncing>>
        /\ Walk!Observe /\ LinkType'
        /\ link'["forward"] = [link["forward"] EXCEPT ![prevElem] = newElem]
        /\ link'["forward"][prevElem] = newElem /\ link'["backward"] = link["backward"]
        /\ \A x \in Nodes \cup {head} : x # prevElem => link'["forward"][x] = link["forward"][x]
    <2>1. /\ "forward" \in Directions /\ "backward" \in Directions
          /\ newElem \in Nodes \cup {head} /\ prevElem \in Nodes \cup {head}
      BY <1>6, StateTypes
    <2>2. /\ wpc' = "nextPrev" /\ UNCHANGED <<zoneVars, pos, syncing>>
          /\ Walk!Observe /\ LinkType' /\ OneLink("forward", prevElem, newElem)
      BY <1>1, <2>1, StoreFields
    <2>3. QED
      BY <2>1, <2>2 DEF OneLink
  <1> DEFINE L == Linked \cup {newElem}
  <1>8. PICK o : Inserted(link'["forward"], rank["forward"], o, Linked, limbo, prevElem, newElem)
    <2>1. PICK nx, ny, of : /\ nx = link["forward"] /\ ny = link'["forward"]
                            /\ of = rank["forward"]
      OBVIOUS
    <2>2. /\ nx \in [Nodes \cup {head} -> Nodes \cup {head, NULL}]
          /\ Linked \in SUBSET Nodes /\ limbo \in SUBSET Nodes
          /\ nx[newElem] = nx[prevElem] /\ Ordered(nx, of, Linked, Linked, limbo)
          /\ ny = [nx EXCEPT ![prevElem] = newElem]
      BY <1>4, <1>6, <1>7, <2>1, StateTypes
    <2>3. \E o : Inserted(ny, of, o, Linked, limbo, prevElem, newElem)
      BY <1>6, <2>2, InsertOrder
    <2>4. QED
      BY <2>1, <2>3
  <1> DEFINE of == rank["forward"]
             ob == rank["backward"]
  <1>9. /\ Ordered(link'["forward"], o, L, L, limbo)
        /\ \A x, y \in Linked \cup limbo : of[x] <= of[y] <=> o[x] <= o[y]
    BY <1>8 DEF Inserted
  <1> HIDE DEF of, ob
  <1>10. PICK rk : rk["forward"] = o /\ rk["backward"] = ob
    BY RerankedFields DEF ob
  <1>11. Mirrored(o, ob, Linked)
    BY <1>6, <1>9 DEF Mirrored, of, ob
  <1>12. L \ {newElem'} = Linked /\ L \in SUBSET Nodes /\ Linked \subseteq L
    BY <1>1, <1>4, <1>6, StateTypes
  <1> HIDE DEF L
  <1>13. L = L \cup Linked
    BY <1>12
  <1>14. Shape(link', rk, L, Linked, L, L \ {newElem'}, limbo')
    <2>1. Ordered(link'["backward"], ob, Linked, Linked, limbo)
      BY <1>6, <1>7 DEF ob
    <2>2. QED
      BY <1>1, <1>9, <1>10, <1>11, <1>12, <1>13, <2>1, StateTypes DEF Shape
  <1>15. L \cap limbo' = {}
    BY <1>1, <1>6, StateTypes DEF L
  <1>16. \A d \in Directions : \A x \in limbo' : link'[d][x] = link[d][x]
    BY <1>1, <1>6, <1>7, StateTypes
  <1>17. Stored(rk, L, Linked, L)
    BY <1>1, <1>5, <1>7, <1>12, <1>14, <1>15, <1>16 DEF Stored
  <1>18. SameOrder(rank, rk)
    <2>1. /\ Held("forward") = Linked \cup limbo
          /\ \A x, y \in Linked \cup limbo : rank["forward"][x] <= rank["forward"][y]
                                               <=> rk["forward"][x] <= rk["forward"][y]
      BY <1>9, <1>10 DEF Held, LinkedIn, of
    <2>2. rk["backward"] = rank["backward"]
      BY <1>10 DEF ob
    <2>3. QED
      BY <2>1, <2>2, StateTypes DEF SameOrder
  <1>19. InChain("forward")' = L /\ InChain("backward")' = Linked /\ Linked' = L
         /\ LinkedIn("backward")' = Linked
    <2>1. InChain("forward")' = L /\ InChain("backward")' = Linked /\ Linked' = L
      BY <1>7, <1>14, NewChains
    <2>2. QED
      BY <1>12, <2>1 DEF LinkedIn
  <1>20. IterInv(rk)'
    BY <1>1, <1>3, <1>6, <1>12, <1>18, <1>19, StateTypes, IterKept
  <1>21. WriterInv'
    <2>1. /\ Inserting' /\ newElem' \in Linked' /\ link'["forward"][prevElem'] = newElem'
          /\ link'["backward"][newElem'] = prevElem'
      BY <1>1, <1>4, <1>6, <1>7, <1>19, StateTypes DEF Inserting, L
    <2>2. limbo' \cap Linked' = {} /\ writer \notin syncing'
      BY <1>2, <1>7, <1>15, <1>19, StateTypes
    <2>3. QED
      BY <1>7, <2>1, <2>2 DEF WriterInv
  <1>22. IInv'
    <2>1. /\ it' \in Iterators /\ due' \in SUBSET Nodes /\ prevElem' \in Nodes \cup {head, NULL}
          /\ nextElem' \in Nodes \cup {head, NULL} /\ newElem' \in Nodes \cup {NULL}
          /\ UNCHANGED <<zoneVars, pos>>
      BY <1>1, <1>7, StateTypes
    <2>2. QED
      BY <1>3, <1>7, <1>17, <1>18, <1>20, <1>21, <2>1, StoreStep
  <1>23. Walk!Relist(L)
    BY <1>3, <1>17, <1>18, StoredRelist
  <1>24. QED
    BY <1>1, <1>6, <1>7, <1>19, <1>22, <1>23 DEF L

(***************************************************************************)
(* The new element finds the same place in both chains.                    *)
(***************************************************************************)
LEMMA InsertMirrors ==
  ASSUME NEW K \in SUBSET Nodes, NEW T, NEW n \in Nodes \ K, NEW q \in K \cup {head},
         NEW nx, NEW of, Ordered(nx, of, K \cup {n}, K \cup {n}, T), nx[n] = q,
         NEW nz, NEW ob, Ordered(nz, ob, K, K, T), Mirrored(of, ob, K),
         NEW ny, NEW o, Inserted(ny, ob, o, K, T, q, n)
  PROVE  Mirrored(of, o, K \cup {n})
  <1>1. /\ \A x \in K \cup {n} : of[x] \in Int
        /\ \A x \in K \cup {head} : ob[x] \in Int
        /\ \A x \in K : ob[head] < ob[x]
        /\ \A x, y \in K \cup {n} : of[x] = of[y] => x = y
        /\ head \notin K
    BY DlistAssumption DEF Ordered, Ranked
  <1>2. /\ \A x, y \in K : ob[x] <= ob[y] <=> o[x] <= o[y]
        /\ \A x \in K : /\ o[x] <= o[n] <=> ob[x] <= ob[q]
                        /\ o[n] <= o[x] <=> ob[q] < ob[x]
        /\ o[n] \in Int
    BY DEF Inserted, Ordered, Ranked
  <1>3. IF q = head THEN \A x \in K : of[x] <= of[n]
        ELSE /\ of[n] < of[q]
             /\ \A x \in K : of[n] < of[x] => of[q] <= of[x]
    BY DEF Ordered, Leads
  <1>4. \A x, y \in K : of[x] <= of[y] <=> ob[y] <= ob[x]
    BY DEF Mirrored
  <1>5. ASSUME NEW x \in K
        PROVE  /\ of[x] <= of[n] <=> o[n] <= o[x]
               /\ of[n] <= of[x] <=> o[x] <= o[n]
    <2>1. /\ of[x] \in Int /\ of[n] \in Int /\ ob[x] \in Int /\ ob[q] \in Int
          /\ of[x] # of[n]
      BY <1>1
    <2>2. CASE q = head
      BY <1>1, <1>2, <1>3, <2>1, <2>2
    <2>3. CASE q # head
      <3>1. q \in K /\ of[q] \in Int /\ of[n] < of[q] /\ (of[n] < of[x] => of[q] <= of[x])
        BY <1>1, <1>3, <2>3
      <3>2. of[q] <= of[x] <=> ob[x] <= ob[q]
        BY <1>4, <3>1
      <3>3. (o[x] <= o[n] <=> ob[x] <= ob[q]) /\ (o[n] <= o[x] <=> ob[q] < ob[x])
        BY <1>2
      <3>4. of[n] <= of[x] <=> of[q] <= of[x]
        BY <2>1, <3>1
      <3>5. of[x] <= of[n] <=> ~(of[q] <= of[x])
        BY <2>1, <3>1
      <3>6. ob[q] < ob[x] <=> ~(ob[x] <= ob[q])
        BY <2>1
      <3>7. QED
        BY <3>2, <3>3, <3>4, <3>5, <3>6
    <2>4. QED
      BY <2>2, <2>3
  <1>6. of[n] <= of[n] /\ o[n] <= o[n]
    BY <1>1, <1>2
  <1>7. \A x, y \in K : of[x] <= of[y] <=> o[y] <= o[x]
    BY <1>2, <1>4
  <1>8. QED
    BY <1>5, <1>6, <1>7 DEF Mirrored

LEMMA StoreNextPrevStep ==
  ASSUME IInv, StoreNextPrev
  PROVE  /\ IInv' /\ Content' = Content /\ Walk!Observe /\ UNCHANGED limbo
         /\ InChain("forward")' = Linked' /\ InChain("backward")' = Linked'
  <1>1. /\ Store("nextPrev", "idle", "backward", nextElem, newElem)
        /\ limbo' = limbo /\ it' = it /\ due' = due
        /\ prevElem' = NULL /\ nextElem' = NULL /\ newElem' = NULL
    BY DEF StoreNextPrev, Arguments, iterVars
  <1>2. wpc = "nextPrev"
    BY <1>1 DEF Store
  <1>3. PICK rank : /\ ChainsInv(rank) /\ IterInv(rank)
                    /\ \A r \in Readers : ReaderInv(rank, r)
    BY DEF IInv, ListInv
  <1>4. newElem \in Linked
    BY <1>2 DEF IInv, WriterInv
  <1>5. PICK K, n, q, L : K = LinkedIn("backward") /\ n = newElem /\ q = nextElem /\ L = Linked
    OBVIOUS
  <1>6. /\ InChain("forward") = L /\ InChain("backward") = K /\ K = L \ {n}
        /\ n \in Nodes \ (K \cup limbo) /\ q \in K \cup {head} /\ L = K \cup {n}
        /\ link["forward"][n] = q /\ link["backward"][q] = prevElem
        /\ Ordered(link["forward"], rank["forward"], L, L, limbo)
        /\ Ordered(link["backward"], rank["backward"], K, K, limbo)
        /\ Mirrored(rank["forward"], rank["backward"], K)
    BY <1>2, <1>3, <1>4, <1>5, InsertingNow
  <1>7. /\ L \in SUBSET Nodes /\ K \in SUBSET Nodes /\ K \subseteq L
        /\ link["backward"][n] = prevElem
    BY <1>2, <1>5, <1>6, StateTypes DEF IInv, WriterInv
  <1>8. /\ wpc' = "idle" /\ UNCHANGED <<zoneVars, pos, syncing>>
        /\ Walk!Observe /\ LinkType'
        /\ link'["backward"] = [link["backward"] EXCEPT ![q] = n]
        /\ link'["backward"][q] = n /\ link'["forward"] = link["forward"]
        /\ \A x \in Nodes \cup {head} : x # q => link'["backward"][x] = link["backward"][x]
    <2>1. /\ "forward" \in Directions /\ "backward" \in Directions
          /\ n \in Nodes \cup {head} /\ q \in Nodes \cup {head}
      BY <1>6, <1>7, StateTypes
    <2>2. /\ wpc' = "idle" /\ UNCHANGED <<zoneVars, pos, syncing>>
          /\ Walk!Observe /\ LinkType' /\ OneLink("backward", q, n)
      BY <1>1, <1>5, <2>1, StoreFields
    <2>3. QED
      BY <2>1, <2>2 DEF OneLink
  <1>9. PICK o : Inserted(link'["backward"], rank["backward"], o, K, limbo, q, n)
    <2>1. PICK nx, ny, ob : /\ nx = link["backward"] /\ ny = link'["backward"]
                            /\ ob = rank["backward"]
      OBVIOUS
    <2>2. /\ nx \in [Nodes \cup {head} -> Nodes \cup {head, NULL}]
          /\ limbo \in SUBSET Nodes
          /\ nx[n] = nx[q] /\ Ordered(nx, ob, K, K, limbo)
          /\ ny = [nx EXCEPT ![q] = n]
      BY <1>6, <1>7, <1>8, <2>1, StateTypes
    <2>3. \E o : Inserted(ny, ob, o, K, limbo, q, n)
      BY <1>6, <1>7, <2>2, InsertOrder
    <2>4. QED
      BY <2>1, <2>3
  <1>10. PICK of, ob : of = rank["forward"] /\ ob = rank["backward"]
    OBVIOUS
  <1>11. /\ Ordered(link'["backward"], o, L, L, limbo)
         /\ \A x, y \in K \cup limbo : ob[x] <= ob[y] <=> o[x] <= o[y]
    BY <1>6, <1>9, <1>10 DEF Inserted
  <1>12. PICK rk : rk["backward"] = o /\ rk["forward"] = of
    BY <1>10, RerankedFields
  <1>13. Mirrored(of, o, L)
    <2>1. PICK nx, ny, nz : /\ nx = link["forward"] /\ ny = link'["backward"]
                            /\ nz = link["backward"]
      OBVIOUS
    <2>2. /\ Ordered(nx, of, K \cup {n}, K \cup {n}, limbo) /\ nx[n] = q
          /\ Ordered(nz, ob, K, K, limbo) /\ Mirrored(of, ob, K)
          /\ Inserted(ny, ob, o, K, limbo, q, n) /\ n \in Nodes \ K
      BY <1>6, <1>9, <1>10, <2>1
    <2>3. Mirrored(of, o, K \cup {n})
      BY <1>6, <1>7, <2>2, InsertMirrors
    <2>4. QED
      BY <1>6, <2>3
  <1>14. L \ {newElem'} = L
    BY <1>1, <1>7, StateTypes
  <1>15. Shape(link', rk, L, L, L, L \ {newElem'}, limbo')
    BY <1>1, <1>6, <1>7, <1>8, <1>10, <1>11, <1>12, <1>13, <1>14, StateTypes DEF Shape
  <1>16. \A d \in Directions : \A x \in limbo' :
           link'[d][x] = link[d][x] \/ link'[d][x] \in L \cup {head}
    <2>1. \A x \in limbo : link'["backward"][x] = link["backward"][x] \/ link'["backward"][x] \in L
      BY <1>6, <1>8, StateTypes
    <2>2. QED
      BY <1>1, <1>8, <2>1, StateTypes
  <1>17. Stored(rk, L, L, L)
    <2>1. /\ Linked \cup limbo \subseteq L \cup limbo' /\ L \cap limbo' = {}
          /\ LinkedIn("backward") \cup limbo \subseteq (L \ {newElem'}) \cup limbo'
          /\ limbo' \subseteq LinkedIn("backward") \cup limbo
      BY <1>1, <1>5, <1>7, <1>14, StateTypes
    <2>2. QED
      BY <1>8, <1>15, <1>16, <2>1 DEF Stored
  <1>18. SameOrder(rank, rk)
    <2>1. /\ Held("backward") = K \cup limbo
          /\ \A x, y \in K \cup limbo : rank["backward"][x] <= rank["backward"][y]
                                          <=> rk["backward"][x] <= rk["backward"][y]
      BY <1>5, <1>10, <1>11, <1>12 DEF Held
    <2>2. rk["forward"] = rank["forward"]
      BY <1>10, <1>12
    <2>3. QED
      BY <2>1, <2>2, StateTypes DEF SameOrder
  <1>19. InChain("forward")' = L /\ InChain("backward")' = L /\ Linked' = L
         /\ LinkedIn("backward")' = L
    <2>1. InChain("forward")' = L /\ InChain("backward")' = L /\ Linked' = L
      BY <1>8, <1>15, NewChains
    <2>2. QED
      BY <1>14, <2>1 DEF LinkedIn
  <1>20. IterInv(rk)'
    <2>1. \A d \in Directions : InChain(d) \subseteq InChain(d)'
      BY <1>6, <1>7, <1>19, StateTypes
    <2>2. QED
      BY <1>1, <1>3, <1>18, <2>1, IterKept
  <1>21. WriterInv'
    <2>1. limbo' \cap Linked' = {} /\ writer \notin syncing'
      BY <1>1, <1>2, <1>5, <1>8, <1>19, StateTypes
    <2>2. QED
      BY <1>1, <1>8, <1>19, <2>1 DEF WriterInv
  <1>22. IInv'
    <2>1. /\ it' \in Iterators /\ due' \in SUBSET Nodes /\ prevElem' \in Nodes \cup {head, NULL}
          /\ nextElem' \in Nodes \cup {head, NULL} /\ newElem' \in Nodes \cup {NULL}
          /\ UNCHANGED <<zoneVars, pos>>
      BY <1>1, <1>8, StateTypes
    <2>2. QED
      BY <1>3, <1>8, <1>17, <1>18, <1>20, <1>21, <2>1, StoreStep
  <1>23. Content' = Content
    BY <1>3, <1>5, <1>17, <1>18, StoredRelist
  <1>24. QED
    BY <1>1, <1>8, <1>19, <1>22, <1>23

-----------------------------------------------------------------------------
(* Removal.                                                                 *)

LEMMA RemoveStep ==
  ASSUME IInv, NEW n \in Nodes, rcuDlistRemove(n)
  PROVE  /\ IInv' /\ Content' = Content /\ Walk!Observe /\ UNCHANGED limbo /\ n \in Linked
         /\ InChain("forward") = Linked /\ InChain("backward") = Linked
         /\ InChain("forward")' = Linked \ {n} /\ InChain("backward")' = Linked
  <1>1. PICK p, q, L : p = link["backward"][n] /\ q = link["forward"][n] /\ L = Linked
    OBVIOUS
  <1>2. /\ Store("idle", "removePrev", "forward", p, q) /\ n \in L /\ n # it.ahead
        /\ limbo' = limbo /\ due' = due \ {n}
        /\ prevElem' = p /\ nextElem' = q /\ newElem' = NULL
        /\ it' = IF n = it.pos THEN [it EXCEPT !.gone = TRUE] ELSE it
    BY <1>1 DEF rcuDlistRemove, RemoveBetween, Arguments
  <1>3. wpc = "idle"
    BY <1>2 DEF Store
  <1>4. PICK rank : /\ ChainsInv(rank) /\ IterInv(rank)
                    /\ \A r \in Readers : ReaderInv(rank, r)
    BY DEF IInv, ListInv
  <1>5. /\ InChain("forward") = L /\ InChain("backward") = L
        /\ LinkedIn("backward") = L /\ L \in SUBSET Nodes
        /\ Ordered(link["forward"], rank["forward"], L, L, limbo)
        /\ Ordered(link["backward"], rank["backward"], L, L, limbo)
        /\ Mirrored(rank["forward"], rank["backward"], L)
    BY <1>1, <1>3, <1>4, IdleNow, StateTypes
  <1>6. /\ p \in (L \ {n}) \cup {head} /\ q \in (L \ {n}) \cup {head}
        /\ link["forward"][p] = n /\ link["backward"][q] = n
    BY <1>1, <1>2, <1>3, Between, StateTypes
  <1>7. /\ wpc' = "removePrev" /\ UNCHANGED <<zoneVars, pos, syncing>>
        /\ Walk!Observe /\ LinkType'
        /\ link'["forward"] = [link["forward"] EXCEPT ![p] = q]
        /\ link'["forward"][p] = q /\ link'["backward"] = link["backward"]
        /\ \A x \in Nodes \cup {head} : x # p => link'["forward"][x] = link["forward"][x]
    <2>1. /\ "forward" \in Directions /\ "backward" \in Directions
          /\ p \in Nodes \cup {head} /\ q \in Nodes \cup {head}
      BY <1>5, <1>6, StateTypes
    <2>2. /\ wpc' = "removePrev" /\ UNCHANGED <<zoneVars, pos, syncing>>
          /\ Walk!Observe /\ LinkType' /\ OneLink("forward", p, q)
      BY <1>2, <2>1, StoreFields
    <2>3. QED
      BY <2>1, <2>2 DEF OneLink
  <1>8. Ordered(link'["forward"], rank["forward"], L \ {n}, L, limbo)
    <2>1. PICK nx, ny, of : /\ nx = link["forward"] /\ ny = link'["forward"]
                            /\ of = rank["forward"]
      OBVIOUS
    <2>2. /\ nx \in [Nodes \cup {head} -> Nodes \cup {head, NULL}]
          /\ limbo \in SUBSET Nodes /\ L \in SUBSET L /\ p \in L \cup {head}
          /\ nx[p] = n /\ Ordered(nx, of, L, L, limbo) /\ ny = [nx EXCEPT ![p] = nx[n]]
      BY <1>1, <1>5, <1>6, <1>7, <2>1, StateTypes
    <2>3. Ordered(ny, of, L \ {n}, L, limbo)
      BY <1>2, <1>5, <2>2, BypassOrder
    <2>4. QED
      BY <2>1, <2>3
  <1>9. L \ {newElem'} = L
    BY <1>2, <1>5, StateTypes
  <1>10. Shape(link', rank, L \ {n}, L, L, L \ {newElem'}, limbo')
    BY <1>2, <1>5, <1>7, <1>8, <1>9, StateTypes DEF Shape
  <1>11. \A d \in Directions : \A x \in limbo' : link'[d][x] = link[d][x]
    BY <1>1, <1>2, <1>6, <1>7, StateTypes
  <1>12. Stored(rank, L \ {n}, L, L) /\ SameOrder(rank, rank)
    <2>1. /\ Linked \cup limbo \subseteq L \cup limbo' /\ L \cap limbo' = {}
          /\ LinkedIn("backward") \cup limbo \subseteq (L \ {newElem'}) \cup limbo'
          /\ limbo' \subseteq LinkedIn("backward") \cup limbo
      BY <1>1, <1>2, <1>5, <1>9, StateTypes
    <2>2. QED
      BY <1>7, <1>10, <1>11, <2>1, OrderSame DEF Stored
  <1>13. InChain("forward")' = L \ {n} /\ InChain("backward")' = L /\ Linked' = L
    BY <1>7, <1>10, NewChains
  <1>14. it' \in Iterators /\ it'.dir = it.dir /\ it'.ahead = it.ahead
         /\ (it' # NoIter => it # NoIter) /\ it.pos \in Nodes \cup {head, NULL}
    <2>1. it \in Iterators
      BY StateTypes
    <2>2. it = NoIter => n # it.pos
      BY StateTypes DEF NoIter
    <2>3. QED
      BY <1>2, <2>1, <2>2 DEF Iterators
  <1>15. IterInv(rank)'
    <2>1. \A d \in Directions :
            /\ it.ahead \in InChain(d) => it.ahead \in InChain(d)'
            /\ due' \cap InChain(d) \subseteq InChain(d)'
      BY <1>2, <1>5, <1>13, StateTypes
    <2>2. due' \subseteq due
      BY <1>2
    <2>3. QED
      BY <1>4, <1>14, <2>1, <2>2, OrderSame, IterKept
  <1>16. WriterInv'
    <2>1. Removing' = n
      BY <1>2, <1>6, <1>7 DEF Removing
    <2>2. limbo' \cap Linked' = {} /\ writer \notin syncing'
      BY <1>1, <1>2, <1>3, <1>7, <1>13, StateTypes
    <2>3. link'["backward"][n] = p
      BY <1>1, <1>7
    <2>4. QED
      BY <1>2, <1>6, <1>7, <1>13, <1>14, <2>1, <2>2, <2>3 DEF WriterInv
  <1>17. IInv'
    <2>1. /\ due' \in SUBSET Nodes /\ prevElem' \in Nodes \cup {head, NULL}
          /\ nextElem' \in Nodes \cup {head, NULL} /\ newElem' \in Nodes \cup {NULL}
          /\ UNCHANGED <<zoneVars, pos>>
      BY <1>2, <1>5, <1>6, <1>7, StateTypes
    <2>2. QED
      BY <1>4, <1>7, <1>12, <1>14, <1>15, <1>16, <2>1, StoreStep
  <1>18. Content' = Content
    BY <1>1, <1>4, <1>12, StoredRelist
  <1>19. QED
    BY <1>1, <1>2, <1>5, <1>7, <1>13, <1>17, <1>18

LEMMA StoreRemovePrevStep ==
  ASSUME IInv, StoreRemovePrev
  PROVE  /\ IInv' /\ Walk!Observe /\ Removing \in Linked
         /\ Walk!Relist(Linked \ {Removing}) /\ limbo' = limbo \cup {Removing}
         /\ InChain("forward") = Linked \ {Removing} /\ InChain("backward") = Linked
         /\ InChain("forward")' = Linked' /\ InChain("backward")' = Linked'
  <1>1. /\ Store("removePrev", "idle", "backward", nextElem, prevElem) /\ TakenOut
        /\ it' = it /\ due' = due
        /\ prevElem' = NULL /\ nextElem' = NULL /\ newElem' = NULL
    BY DEF StoreRemovePrev, Arguments, iterVars
  <1>2. wpc = "removePrev"
    BY <1>1 DEF Store
  <1>3. PICK rank : /\ ChainsInv(rank) /\ IterInv(rank)
                    /\ \A r \in Readers : ReaderInv(rank, r)
    BY DEF IInv, ListInv
  <1>4. PICK p, q, n, L : p = prevElem /\ q = nextElem /\ n = Removing /\ L = Linked
    OBVIOUS
  <1>5. /\ n \in L /\ InChain("forward") = L \ {n} /\ InChain("backward") = L
        /\ link["backward"][q] = n /\ link["backward"][n] = p
        /\ p \in (L \ {n}) \cup {head} /\ q \in (L \ {n}) \cup {head}
        /\ n # it.ahead /\ n \notin due /\ newElem = NULL
    BY <1>2, <1>4 DEF IInv, WriterInv, Removing
  <1>6. /\ LinkedIn("backward") = L /\ LinkedIn("forward") = L
        /\ L \in SUBSET Nodes
    BY <1>4, <1>5, StateTypes DEF LinkedIn
  <1>7. /\ Ordered(link["forward"], rank["forward"], L \ {n}, L, limbo)
        /\ Ordered(link["backward"], rank["backward"], L, L, limbo)
        /\ Mirrored(rank["forward"], rank["backward"], L)
    BY <1>3, <1>5, <1>6, StateTypes DEF ChainsInv
  <1>8. /\ wpc' = "idle" /\ UNCHANGED <<zoneVars, pos, syncing>>
        /\ Walk!Observe /\ LinkType'
        /\ link'["backward"] = [link["backward"] EXCEPT ![q] = p]
        /\ link'["backward"][q] = p /\ link'["forward"] = link["forward"]
        /\ \A x \in Nodes \cup {head} : x # q => link'["backward"][x] = link["backward"][x]
    <2>1. /\ "forward" \in Directions /\ "backward" \in Directions
          /\ p \in Nodes \cup {head} /\ q \in Nodes \cup {head}
      BY <1>5, <1>6, StateTypes
    <2>2. /\ wpc' = "idle" /\ UNCHANGED <<zoneVars, pos, syncing>>
          /\ Walk!Observe /\ LinkType' /\ OneLink("backward", q, p)
      BY <1>1, <1>4, <2>1, StoreFields
    <2>3. QED
      BY <2>1, <2>2 DEF OneLink
  <1>9. PICK M, T : M = L \ {n} /\ T = limbo \cup {n}
    OBVIOUS
  <1>10. M \subseteq L /\ limbo \cup (L \ M) = T
    BY <1>5, <1>9
  <1>11. Ordered(link'["backward"], rank["backward"], M, M, T)
    <2>1. PICK nx, ny, ob : /\ nx = link["backward"] /\ ny = link'["backward"]
                            /\ ob = rank["backward"]
      OBVIOUS
    <2>2. /\ nx \in [Nodes \cup {head} -> Nodes \cup {head, NULL}]
          /\ limbo \in SUBSET Nodes /\ L \in SUBSET L /\ q \in L \cup {head}
          /\ nx[q] = n /\ Ordered(nx, ob, L, L, limbo) /\ ny = [nx EXCEPT ![q] = nx[n]]
      BY <1>5, <1>7, <1>8, <2>1, StateTypes
    <2>3. Ordered(ny, ob, M, L, limbo)
      BY <1>5, <1>6, <1>9, <2>2, BypassOrder
    <2>4. QED
      BY <1>10, <2>1, <2>3, RetireOrder
  <1>12. Ordered(link'["forward"], rank["forward"], M, M, T)
    <2>1. Ordered(link'["forward"], rank["forward"], M, L, limbo)
      BY <1>7, <1>8, <1>9
    <2>2. QED
      BY <1>10, <2>1, RetireOrder
  <1>13. M \ {newElem'} = M /\ M \in SUBSET Nodes /\ T \in SUBSET Nodes
    BY <1>1, <1>5, <1>6, <1>9, StateTypes
  <1>14. Shape(link', rank, M, M, M, M \ {newElem'}, T)
    BY <1>7, <1>9, <1>11, <1>12, <1>13 DEF Shape, Mirrored
  <1>15. InChain("forward")' = M /\ InChain("backward")' = M /\ Linked' = M
    BY <1>8, <1>14, NewChains
  <1>16. limbo' = T
    BY <1>1, <1>4, <1>10, <1>15 DEF TakenOut
  <1>17. \A d \in Directions : \A x \in limbo' :
           link'[d][x] = link[d][x] \/ link'[d][x] \in M \cup {head}
    <2>1. \A x \in T : x \in Nodes \cup {head}
      BY <1>13
    <2>2. p \in M \cup {head}
      BY <1>5, <1>9
    <2>3. QED
      BY <1>8, <1>16, <2>1, <2>2, StateTypes
  <1>18. Stored(rank, M, M, M) /\ SameOrder(rank, rank)
    <2>1. /\ Linked \cup limbo \subseteq M \cup limbo' /\ M \cap limbo' = {}
          /\ LinkedIn("backward") \cup limbo \subseteq (M \ {newElem'}) \cup limbo'
          /\ limbo' \subseteq LinkedIn("backward") \cup limbo
      BY <1>4, <1>5, <1>6, <1>9, <1>13, <1>16, StateTypes
    <2>2. QED
      BY <1>8, <1>14, <1>16, <1>17, <2>1, OrderSame DEF Stored
  <1>19. IterInv(rank)'
    <2>1. \A d \in Directions :
            /\ it.ahead \in InChain(d) => it.ahead \in InChain(d)'
            /\ due' \cap InChain(d) \subseteq InChain(d)'
      BY <1>1, <1>5, <1>9, <1>15, StateTypes
    <2>2. QED
      BY <1>1, <1>3, <2>1, OrderSame, IterKept
  <1>20. WriterInv'
    <2>1. limbo' \cap Linked' = {} /\ writer \notin syncing'
      BY <1>2, <1>8, <1>15, <1>18, StateTypes DEF Stored
    <2>2. QED
      BY <1>1, <1>8, <1>15, <2>1 DEF WriterInv
  <1>21. IInv'
    <2>1. /\ it' \in Iterators /\ due' \in SUBSET Nodes /\ prevElem' \in Nodes \cup {head, NULL}
          /\ nextElem' \in Nodes \cup {head, NULL} /\ newElem' \in Nodes \cup {NULL}
          /\ UNCHANGED <<zoneVars, pos>>
      BY <1>1, <1>8, StateTypes
    <2>2. QED
      BY <1>3, <1>8, <1>18, <1>19, <1>20, <2>1, StoreStep
  <1>22. Walk!Relist(M)
    BY <1>3, <1>18, StoredRelist
  <1>23. QED
    BY <1>4, <1>5, <1>8, <1>9, <1>15, <1>16, <1>21, <1>22

LEMMA RestStep ==
  ASSUME IInv, Rest
  PROVE  /\ IInv' /\ Content' = Content /\ Walk!Observe /\ UNCHANGED limbo
         /\ InChain("forward") = Linked /\ InChain("backward") = Linked
         /\ InChain("backward")' = {}
  <1>1. /\ Store("idle", "resetNext", "backward", head, head) /\ it = NoIter
        /\ limbo' = limbo /\ it' = it /\ due' = due
        /\ prevElem' = prevElem /\ nextElem' = nextElem /\ newElem' = newElem
    BY DEF Rest, locals, iterVars
  <1>2. wpc = "idle"
    BY <1>1 DEF Store
  <1>3. PICK rank : /\ ChainsInv(rank) /\ IterInv(rank)
                    /\ \A r \in Readers : ReaderInv(rank, r)
    BY DEF IInv, ListInv
  <1>4. PICK L : L = Linked
    OBVIOUS
  <1>5. /\ InChain("forward") = L /\ InChain("backward") = L
        /\ LinkedIn("backward") = L /\ L \in SUBSET Nodes /\ newElem = NULL
        /\ Ordered(link["forward"], rank["forward"], L, L, limbo)
        /\ Ordered(link["backward"], rank["backward"], L, L, limbo)
        /\ Mirrored(rank["forward"], rank["backward"], L)
    BY <1>2, <1>3, <1>4, IdleNow, StateTypes
  <1>6. /\ wpc' = "resetNext" /\ UNCHANGED <<zoneVars, pos, syncing>>
        /\ Walk!Observe /\ LinkType'
        /\ link'["backward"] = [link["backward"] EXCEPT ![head] = head]
        /\ link'["forward"] = link["forward"]
        /\ \A x \in Nodes \cup {head} : x # head => link'["backward"][x] = link["backward"][x]
    <2>1. "forward" \in Directions /\ "backward" \in Directions /\ head \in Nodes \cup {head}
      BY StateTypes
    <2>2. /\ wpc' = "resetNext" /\ UNCHANGED <<zoneVars, pos, syncing>>
          /\ Walk!Observe /\ LinkType' /\ OneLink("backward", head, head)
      BY <1>1, <2>1, StoreFields
    <2>3. QED
      BY <2>1, <2>2 DEF OneLink
  <1>7. Ordered(link'["backward"], rank["backward"], {}, L, limbo)
    <2>1. PICK nx, ny, ob : /\ nx = link["backward"] /\ ny = link'["backward"]
                            /\ ob = rank["backward"]
      OBVIOUS
    <2>2. /\ nx \in [Nodes \cup {head} -> Nodes \cup {head, NULL}]
          /\ limbo \in SUBSET Nodes
          /\ Ordered(nx, ob, L, L, limbo) /\ ny = [nx EXCEPT ![head] = head]
      BY <1>5, <1>6, <2>1, StateTypes
    <2>3. Ordered(ny, ob, {}, L, limbo)
      BY <1>5, <2>2, CutOrder
    <2>4. QED
      BY <2>1, <2>3
  <1>8. L \ {newElem'} = L
    BY <1>1, <1>5, StateTypes
  <1>9. Shape(link', rank, L, {}, L, L \ {newElem'}, limbo')
    BY <1>1, <1>5, <1>6, <1>7, <1>8, StateTypes DEF Shape
  <1>10. \A d \in Directions : \A x \in limbo' : link'[d][x] = link[d][x]
    BY <1>1, <1>6, StateTypes
  <1>11. Stored(rank, L, {}, L) /\ SameOrder(rank, rank)
    <2>1. /\ Linked \cup limbo \subseteq L \cup limbo' /\ L \cap limbo' = {}
          /\ LinkedIn("backward") \cup limbo \subseteq (L \ {newElem'}) \cup limbo'
          /\ limbo' \subseteq LinkedIn("backward") \cup limbo
      BY <1>1, <1>4, <1>5, <1>8, StateTypes
    <2>2. QED
      BY <1>6, <1>9, <1>10, <2>1, OrderSame DEF Stored
  <1>12. InChain("forward")' = L /\ InChain("backward")' = {} /\ Linked' = L
    BY <1>6, <1>9, NewChains
  <1>13. IterInv(rank)'
    BY <1>1 DEF IterInv
  <1>14. WriterInv'
    <2>1. limbo' \cap Linked' = {} /\ writer \notin syncing'
      BY <1>1, <1>2, <1>4, <1>6, <1>12, StateTypes
    <2>2. QED
      BY <1>1, <1>5, <1>6, <1>12, <2>1 DEF WriterInv
  <1>15. IInv'
    <2>1. /\ it' \in Iterators /\ due' \in SUBSET Nodes /\ prevElem' \in Nodes \cup {head, NULL}
          /\ nextElem' \in Nodes \cup {head, NULL} /\ newElem' \in Nodes \cup {NULL}
          /\ UNCHANGED <<zoneVars, pos>>
      BY <1>1, <1>6, StateTypes
    <2>2. QED
      BY <1>3, <1>6, <1>11, <1>13, <1>14, <2>1, StoreStep
  <1>16. Content' = Content
    BY <1>3, <1>4, <1>11, StoredRelist
  <1>17. QED
    BY <1>1, <1>4, <1>5, <1>6, <1>12, <1>15, <1>16

LEMMA RestNextStep ==
  ASSUME IInv, RestNext
  PROVE  /\ IInv' /\ Walk!Observe /\ Walk!Relist({}) /\ limbo' = limbo \cup Linked
         /\ InChain("backward") = {} /\ Linked' = {}
  <1>1. /\ Store("resetNext", "idle", "forward", head, head) /\ TakenOut
        /\ it' = it /\ due' = due
        /\ prevElem' = prevElem /\ nextElem' = nextElem /\ newElem' = newElem
    BY DEF RestNext, locals, iterVars
  <1>2. wpc = "resetNext"
    BY <1>1 DEF Store
  <1>3. PICK rank : /\ ChainsInv(rank) /\ IterInv(rank)
                    /\ \A r \in Readers : ReaderInv(rank, r)
    BY DEF IInv, ListInv
  <1>4. PICK L, E, T : L = Linked /\ E = {} /\ T = limbo \cup Linked
    OBVIOUS
  <1>5. InChain("forward") = L /\ InChain("backward") = {} /\ newElem = NULL /\ it = NoIter
    BY <1>2, <1>4 DEF IInv, WriterInv
  <1>6. LinkedIn("backward") = L /\ LinkedIn("forward") = L /\ L \in SUBSET Nodes
    BY <1>4, <1>5, StateTypes DEF LinkedIn
  <1>7. /\ Ordered(link["forward"], rank["forward"], L, L, limbo)
        /\ Ordered(link["backward"], rank["backward"], E, L, limbo)
    BY <1>3, <1>4, <1>5, <1>6, StateTypes DEF ChainsInv
  <1>8. /\ wpc' = "idle" /\ UNCHANGED <<zoneVars, pos, syncing>>
        /\ Walk!Observe /\ LinkType'
        /\ link'["forward"] = [link["forward"] EXCEPT ![head] = head]
        /\ link'["backward"] = link["backward"]
        /\ \A x \in Nodes \cup {head} : x # head => link'["forward"][x] = link["forward"][x]
    <2>1. "forward" \in Directions /\ "backward" \in Directions /\ head \in Nodes \cup {head}
      BY StateTypes
    <2>2. /\ wpc' = "idle" /\ UNCHANGED <<zoneVars, pos, syncing>>
          /\ Walk!Observe /\ LinkType' /\ OneLink("forward", head, head)
      BY <1>1, <2>1, StoreFields
    <2>3. QED
      BY <2>1, <2>2 DEF OneLink
  <1>9. E \subseteq L /\ limbo \cup (L \ E) = T
    BY <1>4
  <1>10. Ordered(link'["forward"], rank["forward"], E, E, T)
    <2>1. PICK nx, ny, of : /\ nx = link["forward"] /\ ny = link'["forward"]
                            /\ of = rank["forward"]
      OBVIOUS
    <2>2. /\ nx \in [Nodes \cup {head} -> Nodes \cup {head, NULL}]
          /\ limbo \in SUBSET Nodes
          /\ Ordered(nx, of, L, L, limbo) /\ ny = [nx EXCEPT ![head] = head]
      BY <1>7, <1>8, <2>1, StateTypes
    <2>3. Ordered(ny, of, {}, L, limbo)
      BY <1>6, <2>2, CutOrder
    <2>4. QED
      BY <1>4, <1>9, <2>1, <2>3, RetireOrder
  <1>11. Ordered(link'["backward"], rank["backward"], E, E, T)
    BY <1>7, <1>8, <1>9, RetireOrder
  <1>12. E \ {newElem'} = E /\ E \in SUBSET Nodes /\ T \in SUBSET Nodes
    BY <1>4, StateTypes
  <1>13. Shape(link', rank, E, E, E, E \ {newElem'}, T)
    BY <1>4, <1>10, <1>11, <1>12 DEF Shape, Mirrored
  <1>14. InChain("forward")' = E /\ InChain("backward")' = E /\ Linked' = E
    BY <1>8, <1>13, NewChains
  <1>15. limbo' = T
    BY <1>1, <1>4, <1>14 DEF TakenOut
  <1>16. \A d \in Directions : \A x \in limbo' : link'[d][x] = link[d][x]
    BY <1>8, <1>12, <1>15, StateTypes
  <1>17. Stored(rank, E, E, E) /\ SameOrder(rank, rank)
    <2>1. /\ Linked \cup limbo \subseteq E \cup limbo' /\ E \cap limbo' = {}
          /\ LinkedIn("backward") \cup limbo \subseteq (E \ {newElem'}) \cup limbo'
          /\ limbo' \subseteq LinkedIn("backward") \cup limbo
      BY <1>4, <1>6, <1>12, <1>15, StateTypes
    <2>2. QED
      BY <1>8, <1>13, <1>15, <1>16, <2>1, OrderSame DEF Stored
  <1>18. IterInv(rank)'
    BY <1>1, <1>5 DEF IterInv
  <1>19. WriterInv'
    <2>1. limbo' \cap Linked' = {} /\ writer \notin syncing'
      BY <1>2, <1>4, <1>8, <1>14, StateTypes
    <2>2. QED
      BY <1>1, <1>5, <1>8, <1>14, <2>1 DEF WriterInv
  <1>20. IInv'
    <2>1. /\ it' \in Iterators /\ due' \in SUBSET Nodes /\ prevElem' \in Nodes \cup {head, NULL}
          /\ nextElem' \in Nodes \cup {head, NULL} /\ newElem' \in Nodes \cup {NULL}
          /\ UNCHANGED <<zoneVars, pos>>
      BY <1>1, <1>8, StateTypes
    <2>2. QED
      BY <1>3, <1>8, <1>17, <1>18, <1>19, <2>1, StoreStep
  <1>21. Walk!Relist(E)
    BY <1>3, <1>17, StoredRelist
  <1>22. QED
    BY <1>4, <1>5, <1>8, <1>14, <1>15, <1>20, <1>21

-----------------------------------------------------------------------------
(* Safe iterators.                                                          *)

LEMMA IterMoves ==
  ASSUME IInv, IterStep, it' \in Iterators, due' \in SUBSET Nodes,
         \A rank : ChainsInv(rank) /\ IterInv(rank) => IterInv(rank)'
  PROVE  IInv'
  <1>1. /\ UNCHANGED <<link, limbo, wpc, prevElem, nextElem, newElem>>
        /\ UNCHANGED <<inside, syncing, waiting, pos, walk>> /\ wpc = "idle"
    BY DEF IterStep, listVars, locals, zoneVars, readerVars
  <1>2. PICK rank : /\ ChainsInv(rank) /\ IterInv(rank)
                    /\ \A r \in Readers : ReaderInv(rank, r)
    BY DEF IInv, ListInv
  <1>3. /\ Linked' = Linked
        /\ \A d : LinkedIn(d)' = LinkedIn(d) /\ InChain(d)' = InChain(d)
    BY <1>1, HeldSame, SameContent
  <1>4. ASSUME NEW r \in Readers PROVE ReaderInv(rank, r)'
    <2>1. Passed(r)' => Passed(r)
      BY <1>1 DEF Passed
    <2>2. QED
      BY <1>1, <1>2, <2>1, ReaderKept
  <1>5. ChainsInv(rank)'
    BY <1>1, <1>2, <1>3 DEF ChainsInv
  <1>6. ListInv'
    BY <1>2, <1>4, <1>5 DEF ListInv
  <1>7. VarTypes'
    BY <1>1, <1>3 DEF IInv, VarTypes, LinkType, Zone!TypeOK
  <1>8. WriterInv'
    BY <1>1, <1>3 DEF IInv, WriterInv
  <1>9. QED
    BY <1>6, <1>7, <1>8 DEF IInv

\* The iterator comes to p, and nothing it has to meet is behind.
LEMMA IterStands ==
  ASSUME IInv, IterStep, NEW d \in Directions, NEW p \in Linked \cup {head},
         NEW E \in SUBSET Linked, Stand(d, p, link[d][p], E),
         \A rank : ChainsInv(rank) /\ IterInv(rank) =>
           \A x \in E : p # head /\ rank[d][p] <= rank[d][x]
  PROVE  IInv'
  <1>1. /\ it' = [dir |-> d, pos |-> p, ahead |-> link[d][p], gone |-> FALSE]
        /\ due' = E \ {p} /\ UNCHANGED <<link, limbo, newElem>> /\ wpc = "idle"
    BY DEF Stand, IterStep, listVars, locals
  <1>2. PICK a : a = link[d][p]
    OBVIOUS
  <1>3. a \in Linked \cup {head} /\ \A e \in Directions : InChain(e) = Linked
    <2>1. a \in Linked \cup {head}
      BY <1>1, <1>2, Between, StateTypes
    <2>2. PICK rank : ChainsInv(rank)
      BY DEF IInv, ListInv
    <2>3. QED
      BY <1>1, <2>1, <2>2, IdleNow, StateTypes
  <1>4. it'.dir = d /\ it'.ahead = a /\ it' \in Iterators /\ due' \in SUBSET Nodes
    <2>1. a \in Nodes \cup {head} /\ p \in Nodes \cup {head} /\ E \in SUBSET Nodes
      BY <1>3, StateTypes
    <2>2. QED
      BY <1>1, <1>2, <2>1 DEF Iterators
  <1>5. \A e \in Directions : InChain(e)' = Linked
    BY <1>1, <1>3, HeldSame
  <1>6. ASSUME NEW rank, ChainsInv(rank), IterInv(rank) PROVE IterInv(rank)'
    <2>1. PICK nx, o : nx = link[d] /\ o = rank[d]
      OBVIOUS
    <2>2. Ordered(nx, o, Linked, Linked, limbo)
      <3>1. Ordered(nx, o, InChain(d), LinkedIn(d), limbo)
        BY <1>6, <2>1 DEF ChainsInv
      <3>2. LinkedIn(d) = Linked
        BY <1>1, <1>6, IdleNow, StateTypes
      <3>3. QED
        BY <1>3, <3>1, <3>2
    <2>3. /\ Leads(nx, o, Linked, p) /\ a = nx[p]
          /\ \A x \in Linked \cup {head} : o[x] \in Int
          /\ \A x, y \in Linked \cup {head} : o[x] = o[y] => x = y
      BY <1>2, <2>1, <2>2 DEF Ordered, Ranked
    <2>4. \A x \in E : p # head /\ o[p] <= o[x]
      BY <1>6, <2>1
    <2>5. ASSUME NEW x \in E \ {p} PROVE a # head /\ o[a] <= o[x]
      <3>1. o[p] < o[x]
        <4>1. o[p] <= o[x] /\ o[p] # o[x] /\ o[p] \in Int /\ o[x] \in Int
          BY <2>3, <2>4, <2>5
        <4>2. QED
          BY <4>1
      <3>2. o[p] \in Int /\ o[x] \in Int /\ x \in Linked
        BY <2>3, <2>5
      <3>3. a # head
        BY <2>3, <3>1, <3>2 DEF Leads
      <3>4. QED
        BY <2>3, <3>1, <3>2, <3>3 DEF Leads
    <2>6. \A x \in due' : it'.ahead # head /\ rank[it'.dir][it'.ahead] <= rank[it'.dir][x]
      BY <1>1, <1>4, <2>1, <2>5
    <2>7. due' \subseteq Linked
      BY <1>1
    <2>8. QED
      BY <1>3, <1>4, <1>5, <2>6, <2>7 DEF IterInv
  <1>7. QED
    BY <1>4, <1>6, IterMoves

LEMMA SafeBeginStep ==
  ASSUME IInv, NEW d \in Directions, SafeBegin(d)
  PROVE  IInv'
  <1>1. PICK p : p = link[d][head]
    OBVIOUS
  <1>2. IterStep /\ Stand(d, p, link[d][p], Linked)
    BY <1>1 DEF SafeBegin
  <1>3. wpc = "idle"
    BY <1>2 DEF IterStep
  <1>4. p \in Linked \cup {head}
    BY <1>1, <1>3, Between, StateTypes
  <1>5. ASSUME NEW rank, ChainsInv(rank), NEW x \in Linked
        PROVE  p # head /\ rank[d][p] <= rank[d][x]
    <2>1. PICK nx, o : nx = link[d] /\ o = rank[d]
      OBVIOUS
    <2>2. Ordered(nx, o, Linked, Linked, limbo)
      BY <1>3, <1>5, <2>1, IdleNow, StateTypes
    <2>3. Leads(nx, o, Linked, head) /\ o[head] < o[x] /\ o[x] \in Int /\ o[head] \in Int
      BY <2>2 DEF Ordered, Ranked
    <2>4. QED
      BY <1>1, <2>1, <2>3 DEF Leads
  <1>6. QED
    BY <1>2, <1>4, <1>5, IterStands

LEMMA SafeAdvanceStep ==
  ASSUME IInv, SafeAdvance
  PROVE  IInv'
  <1>1. PICK d, p : d = it.dir /\ p = it.ahead
    OBVIOUS
  <1>2. IterStep /\ Stand(d, p, link[d][p], due) /\ it.pos \in Nodes
    BY <1>1 DEF SafeAdvance
  <1>3. wpc = "idle" /\ it # NoIter
    BY <1>2, StateTypes DEF IterStep, NoIter
  <1>4. d \in Directions /\ p \in Linked \cup {head} /\ due \in SUBSET Linked
    <2>1. PICK rank : ChainsInv(rank) /\ IterInv(rank)
      BY DEF IInv, ListInv
    <2>2. \A e \in Directions : InChain(e) = Linked
      BY <1>3, <2>1, IdleNow, StateTypes
    <2>3. QED
      BY <1>1, <1>3, <2>1, <2>2 DEF IterInv
  <1>5. ASSUME NEW rank, IterInv(rank), NEW x \in due
        PROVE  p # head /\ rank[d][p] <= rank[d][x]
    BY <1>1, <1>3, <1>5 DEF IterInv
  <1>6. QED
    BY <1>2, <1>4, <1>5, IterStands

LEMMA SafeEndStep ==
  ASSUME IInv, SafeEnd
  PROVE  IInv'
  <1>1. IterStep /\ it' = NoIter /\ due' = {}
    BY DEF SafeEnd
  <1>2. it' \in Iterators /\ due' \in SUBSET Nodes
    BY <1>1 DEF NoIter, Iterators
  <1>3. \A rank : IterInv(rank)'
    BY <1>1 DEF IterInv, NoIter
  <1>4. QED
    BY <1>1, <1>2, <1>3, IterMoves

-----------------------------------------------------------------------------
(* The owner of removed nodes.                                              *)

LEMMA SyncSteps ==
  ASSUME IInv, SyncStart \/ SyncEnd
  PROVE  IInv' /\ UNCHANGED <<link, limbo, walk>>
  <1>1. /\ UNCHANGED <<link, limbo, prevElem, nextElem, newElem, it, due>>
        /\ UNCHANGED <<inside, pos, walk>> /\ wpc \in {"idle", "sync"} /\ wpc' \in {"sync", "free"}
    BY DEF SyncStart, SyncEnd, OwnerStep, Zone!SyncStart, Zone!SyncEnd, listVars, locals,
       iterVars, readerVars
  <1>2. Linked' = Linked /\ \A d : InChain(d)' = InChain(d)
    BY <1>1, SameContent
  <1>3. Zone!TypeOK'
    <2>1. Zone!TypeOK
      BY DEF IInv, VarTypes
    <2>2. CASE SyncStart
      BY <2>1, <2>2 DEF SyncStart, Zone!SyncStart, Zone!TypeOK
    <2>3. CASE SyncEnd
      BY <2>1, <2>3 DEF SyncEnd, Zone!SyncEnd, Zone!TypeOK
    <2>4. QED
      BY <2>2, <2>3
  <1>4. VarTypes'
    BY <1>1, <1>2, <1>3 DEF IInv, VarTypes, LinkType
  <1>5. WriterInv'
    <2>1. wpc' = "sync" <=> writer \in syncing'
      <3>1. CASE SyncStart
        BY <3>1 DEF SyncStart, OwnerStep, Zone!SyncStart
      <3>2. CASE SyncEnd
        BY <3>2 DEF SyncEnd, OwnerStep, Zone!SyncEnd
      <3>3. QED
        BY <3>1, <3>2
    <2>2. limbo' \cap Linked' = {} /\ newElem' = NULL
          /\ InChain("forward")' = Linked' /\ InChain("backward")' = Linked'
      BY <1>1, <1>2 DEF IInv, WriterInv
    <2>3. QED
      BY <1>1, <2>1, <2>2 DEF WriterInv
  <1>6. PICK rank : /\ ChainsInv(rank) /\ IterInv(rank)
                    /\ \A r \in Readers : ReaderInv(rank, r)
    BY DEF IInv, ListInv
  <1>7. ASSUME NEW r \in Readers PROVE ReaderInv(rank, r)'
    <2>1. ReaderInv(rank, r)
      BY <1>6
    <2>2. Passed(r)' => walk[r].possible \cap limbo = {}
      <3>1. CASE SyncStart
        <4>1. wpc' = "sync" /\ waiting' = [waiting EXCEPT ![writer] = inside]
          BY <3>1 DEF SyncStart, OwnerStep, Zone!SyncStart
        <4>2. waiting'[writer] = inside
          BY <4>1 DEF IInv, VarTypes, Zone!TypeOK
        <4>3. Passed(r)' => r \notin inside
          BY <4>1, <4>2 DEF Passed
        <4>4. r \notin inside => walk[r].possible = {}
          BY <2>1, OutsideFields DEF ReaderInv
        <4>5. QED
          BY <4>3, <4>4
      <3>2. CASE SyncEnd
        <4>1. wpc = "sync" /\ waiting[writer] = {}
          BY <3>2 DEF SyncEnd, OwnerStep, Zone!SyncEnd
        <4>2. Passed(r)
          BY <4>1 DEF Passed
        <4>3. QED
          BY <2>1, <4>2 DEF ReaderInv
      <3>3. QED
        BY <3>1, <3>2
    <2>3. \A d : Held(d)' = Held(d)
      BY <1>1, HeldSame
    <2>4. Walking(rank, r)'
      BY <1>1, <1>2, <2>1, <2>3 DEF ReaderInv, Walking, Progress
    <2>5. QED
      BY <1>1, <1>2, <2>1, <2>2, <2>3, <2>4 DEF ReaderInv
  <1>8. ChainsInv(rank)' /\ IterInv(rank)'
    BY <1>1, <1>6, ChainsKept
  <1>9. ListInv'
    BY <1>7, <1>8 DEF ListInv
  <1>10. QED
    BY <1>1, <1>4, <1>5, <1>9 DEF IInv

LEMMA GiveBackStep ==
  ASSUME IInv, GiveBack
  PROVE  /\ IInv' /\ Content' = Content /\ Unsettled' = Unsettled
         /\ \A r \in Readers : walk[r].possible \cap limbo = {}
  <1>1. /\ wpc = "free" /\ wpc' = "idle" /\ limbo' = {}
        /\ link' = [d \in Directions |->
             [p \in DOMAIN link[d] |-> IF p \in limbo THEN NULL ELSE link[d][p]]]
        /\ UNCHANGED <<prevElem, nextElem, newElem, it, due, pos, walk>>
        /\ UNCHANGED <<inside, syncing, waiting>>
    BY DEF GiveBack, OwnerStep, locals, iterVars, zoneVars, readerVars
  <1>2. PICK rank : /\ ChainsInv(rank) /\ IterInv(rank)
                    /\ \A r \in Readers : ReaderInv(rank, r)
    BY DEF IInv, ListInv
  <1>3. PICK L : L = Linked
    OBVIOUS
  <1>4. /\ \A d \in Directions : InChain(d) = L /\ LinkedIn(d) = L
        /\ newElem = NULL /\ L \in SUBSET Nodes /\ limbo \cap L = {}
        /\ Mirrored(rank["forward"], rank["backward"], L)
        /\ \A d \in Directions : Ordered(link[d], rank[d], L, L, limbo)
    BY <1>1, <1>2, <1>3, IdleNow, StateTypes
  <1>5. LinkType' /\ \A d \in Directions : \A x \in L \cup {head} : link'[d][x] = link[d][x]
    <2>1. link \in [Directions -> [Nodes \cup {head} -> Nodes \cup {head, NULL}]]
          /\ limbo \in SUBSET Nodes /\ head \notin Nodes
      BY StateTypes DEF IInv, VarTypes, LinkType
    <2>2. \A d \in Directions : link'[d] =
            [p \in Nodes \cup {head} |-> IF p \in limbo THEN NULL ELSE link[d][p]]
      BY <1>1, <2>1
    <2>3. \A d \in Directions : link'[d] \in [Nodes \cup {head} -> Nodes \cup {head, NULL}]
      <3>1. SUFFICES ASSUME NEW d \in Directions
                     PROVE  link'[d] \in [Nodes \cup {head} -> Nodes \cup {head, NULL}]
        OBVIOUS
      <3>2. PICK nx \in [Nodes \cup {head} -> Nodes \cup {head, NULL}] : nx = link[d]
        BY <2>1
      <3>3. link'[d] = [p \in Nodes \cup {head} |-> IF p \in limbo THEN NULL ELSE nx[p]]
        BY <2>2, <3>2
      <3>4. \A p \in Nodes \cup {head} :
              (IF p \in limbo THEN NULL ELSE nx[p]) \in Nodes \cup {head, NULL}
        OBVIOUS
      <3>5. QED
        BY <3>3, <3>4
    <2>4. LinkType'
      BY <1>1, <2>3 DEF LinkType
    <2>5. QED
      BY <1>4, <2>1, <2>2, <2>4
  <1>6. \A d \in Directions : Ordered(link'[d], rank[d], L, L, {})
    <2>1. SUFFICES ASSUME NEW d \in Directions PROVE Ordered(link'[d], rank[d], L, L, {})
      OBVIOUS
    <2>2. PICK nx, ny, o : nx = link[d] /\ ny = link'[d] /\ o = rank[d]
      OBVIOUS
    <2>3. Ordered(nx, o, L, L, limbo) /\ \A x \in L \cup {head} : ny[x] = nx[x]
      BY <1>4, <1>5, <2>2
    <2>4. Ordered(nx, o, L, L, {})
      BY <2>3 DEF Ordered, Ranked
    <2>5. \A x \in L \cup {} \cup {head} : ny[x] = nx[x]
      BY <2>3
    <2>6. Ordered(ny, o, L, L, {})
      BY <2>4, <2>5, KeptOrder
    <2>7. QED
      BY <2>2, <2>6
  <1>7. L \ {newElem'} = L /\ L \ {newElem} = L
    BY <1>1, <1>4, StateTypes
  <1>8. Shape(link', rank, L, L, L, L, {})
    BY <1>4, <1>6, StateTypes DEF Shape
  <1>9. /\ InChain("forward")' = L /\ InChain("backward")' = L /\ Linked' = L
        /\ Lists(Content', rank["forward"], L) /\ Ranked(rank["forward"], L)
    BY <1>5, <1>8, NewChains
  <1>10. \A d \in Directions : InChain(d)' = L /\ LinkedIn(d)' = L /\ Held(d)' = L
    <2>1. \A d \in Directions : LinkedIn(d)' = L
      BY <1>7, <1>9 DEF LinkedIn
    <2>2. QED
      BY <1>1, <1>9, <2>1, StateTypes DEF Held
  <1>11. Content' = Content
    <2>1. PICK c, b, o : c = Content /\ b = Content' /\ o = rank["forward"]
      OBVIOUS
    <2>2. Lists(c, o, L) /\ Lists(b, o, L) /\ Ranked(o, L)
      BY <1>2, <1>3, <1>9, <2>1, ListNow
    <2>3. c = b
      BY <2>2, ListsUnique
    <2>4. QED
      BY <2>1, <2>3
  <1>12. Unsettled' = Unsettled
    BY <1>3, <1>4, <1>9, WalkLinked, StateTypes
  <1>13. ASSUME NEW r \in Readers
         PROVE  ReaderInv(rank, r)' /\ walk[r].possible \cap limbo = {}
    <2>1. ReaderInv(rank, r)
      BY <1>2
    <2>2. walk[r].possible \cap limbo = {}
      BY <1>1, <2>1 DEF ReaderInv, Passed
    <2>3. walk[r].possible \subseteq L
      BY <1>3, <2>1, <2>2 DEF ReaderInv
    <2>4. \A d \in Directions : Held(d) = L \cup limbo
      BY <1>4 DEF Held
    <2>5. \A d \in Directions : \A n \in walk[r].possible \cap L :
            link'[d][n] \in walk[r].possible \cup {head}
      <3>1. \A d \in Directions : \A n \in walk[r].possible \cap L :
              link[d][n] \in walk[r].possible \cup {head}
        BY <2>1, <2>4 DEF ReaderInv
      <3>2. QED
        BY <1>5, <3>1
    <2>6. Walking(rank, r)'
      <3>1. SUFFICES ASSUME walk[r].dir \in Directions PROVE Walking(rank, r)'
        BY <1>1 DEF Walking
      <3>2. PICK d \in Directions : d = walk[r].dir
        BY <3>1
      <3>3. /\ pos[r] \in walk[r].possible /\ walk[r].seen \subseteq walk[r].possible
            /\ walk[r].steady \subseteq L /\ Progress(rank[d], pos[r], walk[r])
        BY <1>4, <2>1, <3>2, StateTypes DEF ReaderInv, Walking
      <3>4. walk' = walk /\ pos' = pos /\ Held(d)' = L
            /\ InChain("forward")' = L /\ InChain("backward")' = L
        BY <1>1, <1>9, <1>10
      <3>5. QED
        BY <2>3, <3>2, <3>3, <3>4 DEF Walking, Progress
    <2>7. ~Passed(r)'
      BY <1>1 DEF Passed
    <2>8. QED
      BY <1>1, <1>3, <1>9, <1>10, <2>1, <2>2, <2>3, <2>5, <2>6, <2>7 DEF ReaderInv
  <1>14. ChainsInv(rank)'
    BY <1>1, <1>4, <1>6, <1>10, StateTypes DEF ChainsInv
  <1>15. IterInv(rank)'
    BY <1>1, <1>2, <1>4, <1>10 DEF IterInv
  <1>16. ListInv'
    BY <1>13, <1>14, <1>15 DEF ListInv
  <1>17. VarTypes'
    BY <1>1, <1>4, <1>5, <1>9 DEF IInv, VarTypes, Zone!TypeOK
  <1>18. WriterInv'
    <2>1. writer \notin syncing'
      BY <1>1, StateTypes
    <2>2. QED
      BY <1>1, <1>4, <1>9, <2>1 DEF WriterInv
  <1>19. QED
    BY <1>11, <1>12, <1>13, <1>16, <1>17, <1>18 DEF IInv

-----------------------------------------------------------------------------
(* Every step.                                                              *)

\* A step that changes nothing.
LEMMA StutterStep ==
  ASSUME IInv, UNCHANGED vars
  PROVE  IInv' /\ UNCHANGED <<link, limbo, walk>>
  <1>1. /\ UNCHANGED <<link, limbo, wpc, prevElem, nextElem, newElem, it, due>>
        /\ UNCHANGED <<inside, syncing, waiting, pos, walk>>
    BY DEF vars, listVars, locals, iterVars, zoneVars, readerVars
  <1>2. PICK rank : /\ ChainsInv(rank) /\ IterInv(rank)
                    /\ \A r \in Readers : ReaderInv(rank, r)
    BY DEF IInv, ListInv
  <1>3. ASSUME NEW r \in Readers PROVE ReaderInv(rank, r)'
    <2>1. Passed(r)' => Passed(r)
      BY <1>1 DEF Passed
    <2>2. QED
      BY <1>1, <1>2, <2>1, ReaderKept
  <1>4. ListInv'
    BY <1>1, <1>2, <1>3, ChainsKept DEF ListInv
  <1>5. WriterInv'
    BY <1>1, WriterKept DEF IInv
  <1>6. VarTypes'
    BY <1>1, SameContent DEF IInv, VarTypes, LinkType, Zone!TypeOK
  <1>7. QED
    BY <1>1, <1>4, <1>5, <1>6 DEF IInv

LEMMA NextStep ==
  ASSUME IInv, [Next]_vars
  PROVE  IInv'
  <1>1. CASE Insertion
    BY <1>1, InsertionStep
  <1>2. ASSUME NEW n \in Nodes, rcuDlistRemove(n) PROVE IInv'
    BY <1>2, RemoveStep
  <1>3. CASE Rest
    BY <1>3, RestStep
  <1>4. CASE Stores
    BY <1>4, StoreNewPrevStep, StorePrevNextStep, StoreNextPrevStep, StoreRemovePrevStep,
       RestNextStep DEF Stores
  <1>5. CASE SafeIteration
    <2>1. ASSUME NEW d \in Directions, SafeBegin(d) PROVE IInv'
      BY <2>1, SafeBeginStep
    <2>2. CASE SafeAdvance
      BY <2>2, SafeAdvanceStep
    <2>3. CASE SafeRemoveIt
      <3>1. \E n \in Nodes : rcuDlistRemove(n)
        BY <2>3 DEF SafeRemoveIt
      <3>2. QED
        BY <1>2, <3>1
    <2>4. CASE SafeEnd
      BY <2>4, SafeEndStep
    <2>5. QED
      BY <1>5, <2>1, <2>2, <2>3, <2>4 DEF SafeIteration
  <1>6. CASE SyncStart \/ SyncEnd
    BY <1>6, SyncSteps
  <1>7. CASE GiveBack
    BY <1>7, GiveBackStep
  <1>8. ASSUME NEW r \in Readers, Reader(r) PROVE IInv'
    <2>1. CASE ReadLock(r)
      BY <2>1, ReadLockStep
    <2>2. CASE ReadUnlock(r)
      BY <2>2, ReadUnlockStep
    <2>3. CASE Advance(r) \/ \E d \in Directions : Begin(r, d)
      BY <2>3, LoadSteps
    <2>4. QED
      BY <1>8, <2>1, <2>2, <2>3 DEF Reader
  <1>9. CASE UNCHANGED vars
    BY <1>9, StutterStep
  <1>10. QED
    BY <1>1, <1>2, <1>3, <1>4, <1>5, <1>6, <1>7, <1>8, <1>9 DEF Next, Writer

LEMMA IInvAlways == Spec => []IInv
  BY InitIInv, NextStep, PTL DEF Spec

LEMMA ContentNow ==
  ASSUME IInv
  PROVE  Content \in Seq(Nodes) /\ IsInjective(Content)
  <1>1. PICK rank : ChainsInv(rank)
    BY DEF IInv, ListInv
  <1>2. PICK c, o : c = Content /\ o = rank["forward"]
    OBVIOUS
  <1>3. Lists(c, o, Linked) /\ Ranked(o, Linked) /\ Linked \in SUBSET Nodes
    BY <1>1, <1>2, ListNow, StateTypes
  <1>4. c \in Seq(Nodes) /\ IsInjective(c)
    BY <1>3, ListsIs
  <1>5. QED
    BY <1>2, <1>4

(***************************************************************************)
(* The links always make a list of distinct nodes, none of them removed,   *)
(* whatever store of an operation the writer is at, and every variable has *)
(* its type.                                                               *)
(***************************************************************************)
THEOREM DlistTypeCorrect == Spec => []TypeOK
  <1>1. ASSUME IInv PROVE TypeOK
    <2>1. \A d \in Directions : link[d][head] # NULL
      <3>1. SUFFICES ASSUME NEW d \in Directions PROVE link[d][head] # NULL
        OBVIOUS
      <3>2. PICK rank : ChainsInv(rank)
        BY <1>1 DEF IInv, ListInv
      <3>3. link[d][head] \in InChain(d) \cup {head}
        BY <3>2 DEF ChainsInv, Ordered
      <3>4. InChain(d) \subseteq Linked
        BY <1>1, ChainHeld
      <3>5. QED
        BY <1>1, <3>3, <3>4, StateTypes
    <2>2. /\ it.dir \in Directions \cup {"none"} /\ it.gone \in BOOLEAN
          /\ {it.pos, it.ahead} \subseteq Nodes \cup {head, NULL}
      BY <1>1, StateTypes DEF Iterators
    <2>3. Walk!TypeOK
      <3>1. Walk!IsInjective(Content) /\ Content \in Seq(Nodes)
        BY <1>1, ContentNow DEF IsInjective, Walk!IsInjective
      <3>2. Unsettled \subseteq Walk!Linked /\ limbo \subseteq Nodes \ Walk!Linked
        BY <1>1, WalkLinked, StateTypes
      <3>3. QED
        BY <1>1, <3>1, <3>2 DEF Walk!TypeOK, IInv, VarTypes
    <2>4. VarTypes
      BY <1>1 DEF IInv
    <2>5. QED
      BY <2>1, <2>2, <2>3, <2>4 DEF TypeOK, VarTypes, LinkType
  <1>2. QED
    BY <1>1, IInvAlways, PTL

(***************************************************************************)
(* No reader, whichever way it walks, stands on a node that was given      *)
(* back: for any number of readers and nodes.                              *)
(***************************************************************************)
THEOREM DlistNoUseAfterFree == Spec => []NoUseAfterFree
  <1>1. ASSUME IInv PROVE NoUseAfterFree
    BY <1>1 DEF IInv, ListInv, ReaderInv, Walking, NoUseAfterFree
  <1>2. QED
    BY <1>1, IInvAlways, PTL

(***************************************************************************)
(* Between two operations the chain backward is the chain forward in       *)
(* reverse, for any number of nodes: rcuDlistAddBetween,                   *)
(* rcuDlistRemoveBetween and rcuDlistRest leave the prev links in step     *)
(* with the next links.                                                    *)
(***************************************************************************)
THEOREM DlistChainsMirror == Spec => []ChainsMirror
  <1>1. ASSUME IInv PROVE ChainsMirror
    <2>1. SUFFICES ASSUME wpc \in {"idle", "sync", "free"}
                   PROVE  Chain("backward") = Reverse(Chain("forward"))
      BY DEF ChainsMirror
    <2>2. PICK rank : ChainsInv(rank)
      BY <1>1 DEF IInv, ListInv
    <2>3. PICK c, b, o, ok, L : /\ c = Chain("forward") /\ b = Chain("backward") /\ L = Linked
                                /\ o = rank["forward"] /\ ok = rank["backward"]
      OBVIOUS
    <2>4. /\ Lists(c, o, L) /\ Lists(b, ok, L) /\ Mirrored(o, ok, L)
          /\ Ranked(o, L) /\ Ranked(ok, L)
      BY <1>1, <2>1, <2>2, <2>3, ListNow, IdleNow
    <2>5. Mirrored(ok, o, L)
      BY <2>4 DEF Mirrored
    <2>6. Lists(Reverse(c), ok, L)
      BY <2>4, <2>5, ReverseLists
    <2>7. PICK rc : rc = Reverse(c)
      OBVIOUS
    <2>8. b = rc
      BY <2>4, <2>6, <2>7, ListsUnique
    <2>9. QED
      BY <2>3, <2>7, <2>8
  <1>2. QED
    BY <1>1, IInvAlways, PTL

(***************************************************************************)
(* The loop of rcuDlistSafeAdvance goes to a node of the list or to its    *)
(* end, and leaves out no node, although the node it comes from may have   *)
(* been removed, given back and linked in elsewhere: for any number of     *)
(* nodes and any operations of the writer between two rounds.              *)
(***************************************************************************)
THEOREM DlistSafeIteration == Spec => []SafeIterationMeetsAll
  <1>1. ASSUME IInv PROVE SafeIterationMeetsAll
    <2>1. SUFFICES ASSUME it # NoIter
                   PROVE  it.ahead \in Linked \cup {head} /\ due \subseteq From(it.dir, it.ahead)
      BY DEF SafeIterationMeetsAll
    <2>2. PICK rank : ChainsInv(rank) /\ IterInv(rank)
      BY <1>1 DEF IInv, ListInv
    <2>3. PICK d, a : d = it.dir /\ a = it.ahead
      OBVIOUS
    <2>4. /\ d \in Directions /\ a \in InChain(d) \cup {head} /\ due \subseteq InChain(d)
          /\ \A x \in due : a # head /\ rank[d][a] <= rank[d][x]
      BY <2>1, <2>2, <2>3 DEF IterInv
    <2>5. InChain(d) \subseteq Linked
      BY <1>1, <2>4, ChainHeld
    <2>6. PICK c, o, S : c = Chain(d) /\ o = rank[d] /\ S = InChain(d)
      OBVIOUS
    <2>7. Lists(c, o, S) /\ Ranked(o, S)
      <3>1. Lists(c, o, S)
        BY <1>1, <2>2, <2>4, <2>6, ListNow, StateTypes
      <3>2. Ranked(o, LinkedIn(d)) /\ S \subseteq LinkedIn(d)
        BY <1>1, <2>2, <2>4, <2>6, ChainHeld DEF ChainsInv, Ordered, Ranked
      <3>3. QED
        BY <3>1, <3>2 DEF Ranked
    <2>8. ASSUME NEW x \in due PROVE x \in From(d, a)
      <3>1. a \in S /\ x \in S /\ o[a] <= o[x]
        BY <2>4, <2>6, <2>8
      <3>2. PICK i \in 1 .. Len(c) : c[i] = a
        BY <2>7, <3>1 DEF Lists
      <3>3. PICK j \in 1 .. Len(c) : c[j] = x
        BY <2>7, <3>1 DEF Lists
      <3>4. ~(j < i)
        BY <2>7, <3>1, <3>2, <3>3 DEF Lists, Ranked
      <3>5. i <= j /\ i \in DOMAIN c /\ j \in DOMAIN c
        BY <2>7, <3>2, <3>3, <3>4 DEF Lists
      <3>6. x \in Nodes
        BY <1>1, StateTypes
      <3>7. QED
        BY <2>6, <3>2, <3>3, <3>5, <3>6 DEF From
    <2>9. QED
      BY <2>3, <2>4, <2>5, <2>8
  <1>2. QED
    BY <1>1, IInvAlways, PTL

-----------------------------------------------------------------------------
(* The list implements RListWalk.                                           *)

LEMMA ReadLockEnters ==
  ASSUME IInv, NEW r \in Readers, ReadLock(r)
  PROVE  Walk!Enter(r)
  <1>1. UNCHANGED <<link, limbo>> /\ r \notin inside
    BY DEF ReadLock, ReaderStep, Zone!ReadLock, listVars
  <1>2. walk[r].dir = "out"
    BY <1>1 DEF IInv, ListInv, ReaderInv
  <1>3. Content' = Content /\ Unsettled' = Unsettled
    BY <1>1, SameContent
  <1>4. QED
    BY <1>1, <1>2, <1>3 DEF ReadLock, Walk!Enter

LEMMA ReadUnlockLeaves ==
  ASSUME IInv, NEW r \in Readers, ReadUnlock(r)
  PROVE  Walk!Leave(r)
  <1>1. UNCHANGED <<link, limbo>> /\ r \in inside
    BY DEF ReadUnlock, ReaderStep, Zone!ReadUnlock, listVars
  <1>2. walk[r].dir # "out"
    BY <1>1 DEF IInv, ListInv, ReaderInv
  <1>3. Content' = Content /\ Unsettled' = Unsettled
    BY <1>1, SameContent
  <1>4. QED
    BY <1>1, <1>2, <1>3 DEF ReadUnlock, Walk!Leave

\* On settled nodes the order of Content is that of the ranks.
LEMMA OrderOnWalk ==
  ASSUME IInv, NEW rank, ChainsInv(rank), NEW d \in Directions, NEW rk, rk = rank[d],
         NEW m \in InChain("forward") \cap InChain("backward"),
         NEW n \in InChain("forward") \cap InChain("backward")
  PROVE  Walk!IsBefore(m, n, d) <=> rk[m] < rk[n]
  <1>1. PICK o, ok : o = rank["forward"] /\ ok = rank["backward"]
    OBVIOUS
  <1>2. \A x, y : Walk!Precedes(x, y) <=> x \in Linked /\ y \in Linked /\ o[x] < o[y]
    BY <1>1, OrderNow
  <1>3. m \in LinkedIn("backward") /\ n \in LinkedIn("backward") /\ m \in Linked /\ n \in Linked
    BY SettledNow DEF LinkedIn
  <1>4. (o[m] <= o[n] <=> ok[n] <= ok[m]) /\ (o[n] <= o[m] <=> ok[m] <= ok[n])
    BY <1>1, <1>3 DEF ChainsInv, Mirrored
  <1>5. {o[m], o[n], ok[m], ok[n]} \subseteq Int
    BY <1>1, <1>3, ListNow DEF Ranked
  <1>6. o[n] < o[m] <=> ok[m] < ok[n]
    BY <1>4, <1>5
  <1>7. CASE d = "forward"
    BY <1>1, <1>2, <1>3, <1>7 DEF Walk!IsBefore
  <1>8. CASE d = "backward"
    BY <1>1, <1>2, <1>3, <1>6, <1>8 DEF Walk!IsBefore
  <1>9. QED
    BY <1>7, <1>8 DEF Directions

LEMMA LoadLoads ==
  ASSUME IInv, NEW r \in Readers, NEW p, NEW w, Load(r, p, w), NEW rank,
         ChainsInv(rank), MayLoad(rank, r, p, w)
  PROVE  Walk!Load(r, w)
  <1>1. PICK n, d : n = link[w.dir][p] /\ d = w.dir
    OBVIOUS
  <1>2. PICK rk : rk = rank[d]
    OBVIOUS
  <1>3. UNCHANGED <<link, limbo>>
    BY DEF Load, ReaderStep, listVars
  <1>4. Content' = Content /\ Unsettled' = Unsettled
    BY <1>3, SameContent
  <1>5. d \in Directions /\ w.steady \subseteq InChain("forward") \cap InChain("backward")
    BY <1>1 DEF MayLoad
  <1>6. IF n = head THEN w.steady \subseteq w.seen
        ELSE /\ n \in w.possible \ w.seen
             /\ \A x \in w.steady : x \in w.seen <=> rk[x] < rk[n]
    BY <1>1, <1>2, LoadMeets
  <1>7. CASE n = head
    <2>1. walk' = [walk EXCEPT ![r] = Walk!Ended(w)]
      BY <1>1, <1>7 DEF Load
    <2>2. QED
      BY <1>3, <1>4, <1>6, <1>7, <2>1 DEF Walk!Load
  <1>8. CASE n # head
    <2>1. walk' = [walk EXCEPT ![r] = Walk!Met(w, n)]
      BY <1>1, <1>8 DEF Load
    <2>2. ASSUME n \in w.steady, NEW x \in w.steady
          PROVE  x \in w.seen <=> Walk!IsBefore(x, n, d)
      <3>1. Walk!IsBefore(x, n, d) <=> rk[x] < rk[n]
        BY <1>2, <1>5, <2>2, OrderOnWalk
      <3>2. QED
        BY <1>6, <1>8, <2>2, <3>1
    <2>3. Walk!Meets(w, n)
      BY <1>1, <1>6, <1>8, <2>2 DEF Walk!Meets
    <2>4. QED
      BY <1>3, <1>4, <1>6, <1>8, <2>1, <2>3 DEF Walk!Load
  <1>9. QED
    BY <1>7, <1>8

LEMMA LoadsWalk ==
  ASSUME IInv, NEW r \in Readers, Advance(r) \/ \E d \in Directions : Begin(r, d)
  PROVE  Walk!Advance(r) \/ \E d \in Walk!Directions : Walk!Begin(r, d)
  <1>1. PICK rank : ChainsInv(rank) /\ ReaderInv(rank, r)
    BY DEF IInv, ListInv
  <1>2. ASSUME NEW d \in Directions, Begin(r, d) PROVE Walk!Begin(r, d)
    <2>1. walk[r].dir # "out"
      BY <1>1, <1>2 DEF Begin, ReaderInv
    <2>2. MayLoad(rank, r, head, Walk!Begun(walk[r], d))
      BY <1>1, <1>2, BeginMayLoad
    <2>3. Walk!Load(r, Walk!Begun(walk[r], d))
      BY <1>1, <1>2, <2>2, LoadLoads DEF Begin
    <2>4. QED
      BY <2>1, <2>3 DEF Walk!Begin
  <1>3. CASE Advance(r)
    <2>1. walk[r].dir \in Walk!Directions
      BY <1>1, <1>3 DEF Advance, ReaderInv, Walk!Directions, Directions
    <2>2. MayLoad(rank, r, pos[r], walk[r])
      BY <1>1, <1>3, AdvanceMayLoad
    <2>3. Walk!Load(r, walk[r])
      BY <1>1, <1>3, <2>2, LoadLoads DEF Advance
    <2>4. QED
      BY <2>1, <2>3 DEF Walk!Advance
  <1>4. QED
    BY <1>2, <1>3 DEF Directions, Walk!Directions

\* Until the third store of an insertion both chains hold the same nodes.
LEMMA UnsettledNow ==
  ASSUME IInv, wpc \in {"idle", "sync", "free", "newPrev", "prevNext"}
  PROVE  Unsettled = {}
  <1>1. InChain("forward") = Linked /\ InChain("backward") = Linked
    <2>1. CASE wpc \in {"idle", "sync", "free"}
      BY <2>1 DEF IInv, WriterInv
    <2>2. CASE wpc \in {"newPrev", "prevNext"}
      BY <2>2 DEF IInv, WriterInv, Inserting, LinkedIn
    <2>3. QED
      BY <2>1, <2>2
  <1>2. QED
    BY <1>1, WalkLinked

LEMMA UnsettledNext ==
  ASSUME IInv', wpc' \in {"idle", "sync", "free", "newPrev", "prevNext"}
  PROVE  Unsettled' = {}
  <1>1. InChain("forward")' = Linked' /\ InChain("backward")' = Linked'
    <2>1. CASE wpc' \in {"idle", "sync", "free"}
      BY <2>1 DEF IInv, WriterInv
    <2>2. CASE wpc' \in {"newPrev", "prevNext"}
      BY <2>2 DEF IInv, WriterInv, Inserting, LinkedIn
    <2>3. QED
      BY <2>1, <2>2
  <1>2. QED
    BY <1>1, WalkLinked

LEMMA InsertionWrites ==
  ASSUME IInv, Insertion \/ StoreNewPrev \/ StorePrevNext \/ StoreNextPrev
  PROVE  Walk!Write
  <1>1. CASE Insertion \/ StoreNewPrev \/ StoreNextPrev
    <2>1. IInv' /\ Content' = Content /\ Walk!Observe /\ UNCHANGED limbo
      BY <1>1, InsertionStep, StoreNewPrevStep, StoreNextPrevStep
    <2>2. wpc' \in {"newPrev", "prevNext", "idle"}
      BY <1>1 DEF Insertion, rcuDlistAppend, rcuDlistPrepend, rcuDlistInsertBefore,
         rcuDlistInsertAfter, AddBetween, StoreNewPrev, StoreNextPrev, Store
    <2>3. Unsettled' = {}
      BY <2>1, <2>2, UnsettledNext
    <2>4. QED
      BY <2>1, <2>3 DEF Walk!Write, Walk!Settle
  <1>2. CASE StorePrevNext
    <2>1. /\ Walk!Observe /\ UNCHANGED limbo /\ newElem \in Nodes \ (Linked \cup limbo)
          /\ Linked' = Linked \cup {newElem} /\ Walk!Relist(Linked \cup {newElem})
          /\ InChain("forward")' = Linked' /\ InChain("backward")' = Linked
      BY <1>2, StorePrevNextStep
    <2>2. wpc = "prevNext"
      BY <1>2 DEF StorePrevNext, Store
    <2>3. Unsettled = {}
      BY <2>2, UnsettledNow
    <2>4. Unsettled' = {newElem}
      BY <2>1, WalkLinked
    <2>5. Walk!Insert(newElem)
      BY <2>1, <2>3, <2>4, WalkLinked DEF Walk!Insert
    <2>6. QED
      BY <2>1, <2>5 DEF Walk!Write
  <1>3. QED
    BY <1>1, <1>2

\* What leaves the list leaves both chains, one after the other.
LEMMA RemovalWrites ==
  ASSUME IInv, (\E n \in Nodes : rcuDlistRemove(n)) \/ Rest \/ StoreRemovePrev \/ RestNext
  PROVE  Walk!Write
  <1>1. ASSUME NEW n \in Nodes, rcuDlistRemove(n) PROVE Walk!Write
    <2>1. /\ Content' = Content /\ Walk!Observe /\ UNCHANGED limbo /\ n \in Linked
          /\ InChain("forward") = Linked /\ InChain("backward") = Linked
          /\ InChain("forward")' = Linked \ {n} /\ InChain("backward")' = Linked
      BY <1>1, RemoveStep
    <2>2. Linked' = Linked
      BY <2>1 DEF Linked
    <2>3. Unsettled = {} /\ Unsettled' = {n}
      BY <2>1, <2>2, WalkLinked
    <2>4. {n} \in {{m} : m \in Walk!Linked} \cup {Walk!Linked}
      BY <2>1, WalkLinked
    <2>5. Walk!TakeOut
      BY <2>1, <2>3, <2>4 DEF Walk!TakeOut
    <2>6. QED
      BY <2>1, <2>5 DEF Walk!Write
  <1>2. CASE Rest
    <2>1. /\ Content' = Content /\ Walk!Observe /\ UNCHANGED limbo
          /\ InChain("forward") = Linked /\ InChain("backward") = Linked
          /\ InChain("backward")' = {}
      BY <1>2, RestStep
    <2>2. Linked' = Linked
      BY <2>1 DEF Linked
    <2>3. Unsettled = {} /\ Unsettled' = Walk!Linked
      BY <2>1, <2>2, WalkLinked
    <2>4. Walk!Linked \in {{m} : m \in Walk!Linked} \cup {Walk!Linked}
      OBVIOUS
    <2>5. Walk!TakeOut
      BY <2>1, <2>3, <2>4 DEF Walk!TakeOut
    <2>6. QED
      BY <2>1, <2>5 DEF Walk!Write
  <1>3. CASE StoreRemovePrev
    <2>1. PICK n : n = Removing
      OBVIOUS
    <2>2. /\ IInv' /\ Walk!Observe /\ n \in Linked
          /\ Walk!Relist(Linked \ {n}) /\ limbo' = limbo \cup {n}
          /\ InChain("forward") = Linked \ {n} /\ InChain("backward") = Linked
      BY <1>3, <2>1, StoreRemovePrevStep
    <2>3. wpc' = "idle"
      BY <1>3 DEF StoreRemovePrev, Store
    <2>4. Unsettled = {n} /\ Unsettled' = {}
      BY <2>2, <2>3, WalkLinked, UnsettledNext
    <2>5. Walk!Without(Unsettled)
      BY <2>2, <2>4, WalkLinked DEF Walk!Without
    <2>6. QED
      BY <2>2, <2>5 DEF Walk!Write, Walk!Settle
  <1>4. CASE RestNext
    <2>1. /\ IInv' /\ Walk!Observe /\ Walk!Relist({}) /\ limbo' = limbo \cup Linked
          /\ InChain("backward") = {} /\ Linked' = {}
      BY <1>4, RestNextStep
    <2>2. Unsettled = Linked /\ Unsettled' = {} /\ Linked \ Linked = {}
      BY <2>1, WalkLinked
    <2>3. Walk!Without(Unsettled)
      BY <2>1, <2>2, WalkLinked DEF Walk!Without
    <2>4. QED
      BY <2>1, <2>3 DEF Walk!Write, Walk!Settle
  <1>5. QED
    BY <1>1, <1>2, <1>3, <1>4

LEMMA GiveBackGivesBack ==
  ASSUME IInv, GiveBack
  PROVE  Walk!GiveBack
  <1>1. /\ Content' = Content /\ Unsettled' = Unsettled
        /\ \A r \in Readers : walk[r].possible \cap limbo = {}
    BY GiveBackStep
  <1>2. limbo' = limbo \ limbo /\ walk' = walk /\ limbo \in SUBSET limbo
    BY DEF GiveBack, OwnerStep, readerVars
  <1>3. QED
    BY <1>1, <1>2 DEF Walk!GiveBack

LEMMA InitWalks == Init => Walk!Init
  <1> SUFFICES ASSUME Init PROVE Walk!Init
    OBVIOUS
  <1>1. IInv /\ limbo = {} /\ wpc = "idle" /\ \A d \in Directions : link[d][head] = head
    BY InitIInv DEF Init
  <1>2. PICK rank : ChainsInv(rank)
    BY <1>1 DEF IInv, ListInv
  <1>3. PICK c, o, nx : c = Content /\ o = rank["forward"] /\ nx = link["forward"]
    OBVIOUS
  <1>4. Lists(c, o, Linked) /\ Ordered(nx, o, Linked, Linked, limbo) /\ nx[head] = head
    BY <1>1, <1>2, <1>3, ListNow, IdleNow, StateTypes
  <1>5. Linked = {}
    <2>1. \A x \in Linked : o[head] < o[x] /\ o[x] <= o[head]
      BY <1>4 DEF Ordered, Leads
    <2>2. \A x \in Linked \cup {head} : o[x] \in Int
      BY <1>4 DEF Ordered, Ranked
    <2>3. QED
      BY <2>1, <2>2
  <1>6. c = <<>>
    <2>1. c = [i \in 1 .. Len(c) |-> c[i]] /\ Len(c) = 0
      <3>1. PICK N : N = Len(c)
        OBVIOUS
      <3>2. N \in Nat /\ c = [i \in 1 .. N |-> c[i]] /\ \A i \in 1 .. N : c[i] \in {}
        BY <1>4, <1>5, <3>1 DEF Lists
      <3>3. 1 \notin 1 .. N
        BY <3>2
      <3>4. N = 0
        BY <3>2, <3>3
      <3>5. QED
        BY <3>1, <3>2, <3>4
    <2>2. c = [i \in 1 .. 0 |-> c[i]]
      BY <2>1
    <2>3. QED
      BY <2>2
  <1>7. Unsettled = {}
    BY <1>1, UnsettledNow
  <1>8. QED
    BY <1>1, <1>3, <1>6, <1>7 DEF Init, Walk!Init

(***************************************************************************)
(* A walk in either direction meets every node that stays in the list,     *)
(* once and in order, although the two chains differ between the stores    *)
(* of rcuDlistAddBetween, rcuDlistRemoveBetween and rcuDlistRest, and a    *)
(* node is reused only when no section can hold it: for all numbers of     *)
(* readers and nodes, every step of the list is a step of RListWalk, or    *)
(* none.                                                                   *)
(***************************************************************************)
THEOREM DlistImplementsWalk == Spec => ImplementsWalk
  <1>1. ASSUME IInv, [Next]_vars PROVE [Walk!Next]_(Walk!vars)
    <2>1. CASE Insertion \/ StoreNewPrev \/ StorePrevNext \/ StoreNextPrev
      BY <1>1, <2>1, InsertionWrites DEF Walk!Next
    <2>2. CASE (\E n \in Nodes : rcuDlistRemove(n)) \/ Rest \/ StoreRemovePrev \/ RestNext
      BY <1>1, <2>2, RemovalWrites DEF Walk!Next
    <2>3. CASE SafeIteration
      <3>1. CASE SafeRemoveIt
        <4>1. \E n \in Nodes : rcuDlistRemove(n)
          BY <3>1 DEF SafeRemoveIt
        <4>2. QED
          BY <2>2, <4>1
      <3>2. CASE SafeAdvance \/ SafeEnd \/ \E d \in Directions : SafeBegin(d)
        <4>1. IterStep
          BY <3>2 DEF SafeAdvance, SafeEnd, SafeBegin
        <4>2. UNCHANGED <<link, limbo, walk>>
          BY <4>1 DEF IterStep, listVars, readerVars
        <4>3. QED
          BY <4>2, SameContent DEF Walk!vars
      <3>3. QED
        BY <2>3, <3>1, <3>2 DEF SafeIteration
    <2>4. CASE SyncStart \/ SyncEnd \/ UNCHANGED vars
      <3>1. UNCHANGED <<link, limbo, walk>>
        BY <1>1, <2>4, SyncSteps, StutterStep
      <3>2. QED
        BY <3>1, SameContent DEF Walk!vars
    <2>5. CASE GiveBack
      BY <1>1, <2>5, GiveBackGivesBack DEF Walk!Next
    <2>6. ASSUME NEW r \in Readers, Reader(r) PROVE Walk!Next
      <3>1. CASE ReadLock(r)
        BY <1>1, <3>1, ReadLockEnters DEF Walk!Next
      <3>2. CASE ReadUnlock(r)
        BY <1>1, <3>2, ReadUnlockLeaves DEF Walk!Next
      <3>3. CASE Advance(r) \/ \E d \in Directions : Begin(r, d)
        BY <1>1, <3>3, LoadsWalk DEF Walk!Next
      <3>4. QED
        BY <2>6, <3>1, <3>2, <3>3 DEF Reader
    <2>7. QED
      BY <1>1, <2>1, <2>2, <2>3, <2>4, <2>5, <2>6 DEF Next, Writer, Stores
  <1>2. QED
    BY <1>1, InitWalks, IInvAlways, PTL DEF Spec, ImplementsWalk, Walk!Spec
=============================================================================
