---------------------------- MODULE RTableProofs ----------------------------
(***************************************************************************)
(* Proofs about RTable, for all finite sets of nodes and all readers.      *)
(*                                                                         *)
(* Chains are described by a rank of every node: each chain is linked in   *)
(* the order of ranks.  An inserted node gets a rank below all others,     *)
(* joining two buckets moves the ranks of the second one up, and unzipping *)
(* leaves all ranks as they are.                                           *)
(***************************************************************************)
EXTENDS RTable, RankLemmas

-----------------------------------------------------------------------------
(* What the operators of RTable that follow chains compute, when the nodes  *)
(* of a chain have ranks in the order in which they are linked.             *)

NextType == next \in [Nodes -> Nodes \cup {NULL}]

\* Node n is linked to the node of S that comes next.
LinkedIn(rank, S, n) ==
  \/ IsSuccessor(rank, S, n, next[n])
  \/ next[n] = NULL /\ IsGreatest(rank, S, n)

\* The chain of S.
Chained(rank, S) == \A n \in S : LinkedIn(rank, S, n)

\* The sequence c lists the nodes of S from p on, as they are linked.
Lists(c, rank, S, p) ==
  /\ Len(c) \in Nat /\ DOMAIN c = 1 .. Len(c)
  /\ Len(c) # 0 /\ c[1] = p
  /\ \A i \in 1 .. Len(c) : c[i] \in S
  /\ \A i, j \in 1 .. Len(c) : i < j => rank[c[i]] < rank[c[j]]
  /\ \A x \in S : rank[p] <= rank[x] => \E i \in 1 .. Len(c) : c[i] = x
  /\ \A i \in 1 .. Len(c) : next[c[i]] = IF i < Len(c) THEN c[i + 1] ELSE NULL

-----------------------------------------------------------------------------
(* Chain.                                                                   *)

\* One step along the links.
Follow == [n \in Nodes \cup {NULL} |-> IF n = NULL THEN NULL ELSE next[n]]

\* Chain(p) is the path f, up to its end.
PathOfChain(p, f) ==
  LET N == Cardinality(Nodes) IN
  /\ IsPath(Nodes \cup {NULL}, Follow, p, N, f)
  /\ Chain(p) = [i \in 1 .. Cardinality({i \in 0 .. N : f[i] # NULL}) |-> f[i - 1]]

LEMMA NodesNumber == Cardinality(Nodes) \in Nat
  BY TableAssumption, FS_CardinalityType

LEMMA ChainFollows ==
  ASSUME NextType, NEW p \in Nodes \cup {NULL}
  PROVE  \E f : PathOfChain(p, f)
  <1> DEFINE N == Cardinality(Nodes)
             V == Nodes \cup {NULL}
             Step(f, i) == IF i = 0 THEN p ELSE IF f[i - 1] = NULL THEN NULL ELSE next[f[i - 1]]
             at == CHOOSE f : f = [i \in 0 .. N |-> Step(f, i)]
  <1>0. N \in Nat
    BY NodesNumber
  <1>1. Follow \in [V -> V]
    BY DEF Follow, NextType
  <1>2. PICK h : IsPath(V, Follow, p, N, h)
    <2> HIDE DEF V
    <2>1. p \in V
      BY DEF V
    <2>2. QED
      BY <1>0, <1>1, <2>1, PathExists
  <1>3. h = [i \in 0 .. N |-> Step(h, i)]
    <2>1. ASSUME NEW i \in 0 .. N PROVE h[i] = Step(h, i)
      <3>1. CASE i = 0
        BY <1>2, <3>1 DEF IsPath
      <3>2. CASE i # 0
        <4>1. i \in 1 .. N /\ i - 1 \in 0 .. N
          BY <1>0, <3>2
        <4>2. h[i] = Follow[h[i - 1]] /\ h[i - 1] \in V
          BY <1>2, <4>1 DEF IsPath
        <4>3. QED
          BY <3>2, <4>2 DEF Follow
      <3>3. QED
        BY <3>1, <3>2
    <2>2. QED
      BY <1>2, <2>1 DEF IsPath
  <1>4. at = [i \in 0 .. N |-> Step(at, i)]
    BY <1>3
  <1>5. Chain(p) = [i \in 1 .. Cardinality({i \in DOMAIN at : at[i] # NULL}) |-> at[i - 1]]
    BY DEF Chain
  <1> HIDE DEF at
  <1>6. DOMAIN at = 0 .. N /\ \A i \in 0 .. N : at[i] = Step(at, i)
    BY <1>4
  <1>7. \A i \in 0 .. N : at[i] \in V
    <2> DEFINE Bad == {i \in 0 .. N : at[i] \notin V}
    <2>1. SUFFICES ASSUME Bad # {} PROVE FALSE
      OBVIOUS
    <2>2. PICK i \in Bad : \A j \in Bad : i <= j
      <3>1. Bad \in SUBSET (0 .. N)
        OBVIOUS
      <3> HIDE DEF Bad
      <3>2. QED
        BY <1>0, <2>1, <3>1, LeastIndex
    <2>3. i \in 1 .. N
      BY <1>0, <1>6
    <2>4. i - 1 \notin Bad
      BY <1>0, <2>2, <2>3
    <2>5. at[i - 1] \in V
      BY <1>0, <2>3, <2>4
    <2>6. QED
      BY <1>6, <2>3, <2>5 DEF NextType
  <1>8. at \in [0 .. N -> V]
    BY <1>4, <1>7
  <1>9. at[0] = p /\ \A i \in 1 .. N : at[i] = Follow[at[i - 1]]
    BY <1>0, <1>6, <1>7 DEF Follow
  <1>10. QED
    BY <1>5, <1>6, <1>8, <1>9 DEF IsPath, PathOfChain

(***************************************************************************)
(* The chain from nullptr is empty.                                        *)
(***************************************************************************)
LEMMA ChainOfNULL ==
  ASSUME NextType
  PROVE  Chain(NULL) = <<>>
  <1> DEFINE N == Cardinality(Nodes)
  <1>1. PICK f : PathOfChain(NULL, f)
    BY ChainFollows
  <1> USE DEF PathOfChain
  <1> DEFINE Beyond == {i \in 0 .. N : f[i] # NULL}
  <1>2. Beyond = {}
    <2>1. SUFFICES ASSUME Beyond # {} PROVE FALSE
      OBVIOUS
    <2>2. PICK i \in Beyond : \A j \in Beyond : i <= j
      <3>1. Beyond \in SUBSET (0 .. N)
        OBVIOUS
      <3> HIDE DEF Beyond
      <3>2. QED
        BY <2>1, <3>1, NodesNumber, LeastIndex
    <2>3. i \in 1 .. N /\ f[i] = Follow[f[i - 1]]
      BY <1>1, NodesNumber DEF IsPath
    <2>4. f[i - 1] = NULL
      BY <2>2, <2>3, NodesNumber
    <2>5. QED
      BY <2>3, <2>4 DEF Follow
  <1>3. Cardinality(Beyond) = 0
    BY <1>2, FS_EmptySet
  <1>4. Chain(NULL) = [i \in 1 .. 0 |-> f[i - 1]]
    BY <1>1, <1>3
  <1>5. QED
    BY <1>4

(***************************************************************************)
(* The chain from an element of S lists the elements of S from there on.   *)
(***************************************************************************)
LEMMA ChainLists ==
  ASSUME NextType, NEW S \in SUBSET Nodes, NEW rank, Ranked(rank, S),
         Chained(rank, S), NEW p \in S
  PROVE  Lists(Chain(p), rank, S, p)
  <1> DEFINE N == Cardinality(Nodes)
  <1>1. PICK f : PathOfChain(p, f)
    BY ChainFollows
  <1> USE DEF PathOfChain
  <1>2. NULL \notin S
    BY TableAssumption
  <1>3. IsFiniteSet(S) /\ Cardinality(S) <= N
    BY TableAssumption, FS_Subset
  <1>4. \A i \in 1 .. N : f[i - 1] \in S => f[i] = next[f[i - 1]]
    BY <1>1, <1>2 DEF IsPath, Follow
  <1>5. \A i \in 0 .. N : f[i] \in S \cup {NULL}
    <2> DEFINE Bad == {i \in 0 .. N : f[i] \notin S \cup {NULL}}
    <2>1. SUFFICES ASSUME Bad # {} PROVE FALSE
      OBVIOUS
    <2>2. PICK i \in Bad : \A j \in Bad : i <= j
      <3>1. Bad \in SUBSET (0 .. N)
        OBVIOUS
      <3> HIDE DEF Bad
      <3>2. QED
        BY <2>1, <3>1, NodesNumber, LeastIndex
    <2>3. i \in 1 .. N /\ f[i] = Follow[f[i - 1]]
      BY <1>1, NodesNumber DEF IsPath
    <2>4. f[i - 1] \in S \cup {NULL}
      BY <2>2, <2>3, NodesNumber
    <2>5. CASE f[i - 1] = NULL
      BY <2>3, <2>5 DEF Follow
    <2>6. CASE f[i - 1] \in S
      BY <1>4, <2>3, <2>6 DEF Chained, LinkedIn, IsSuccessor
    <2>7. QED
      BY <2>4, <2>5, <2>6
  <1>6. IsWalk(rank, S, N, f)
    <2>1. ASSUME NEW i \in 1 .. N, f[i - 1] \in S
          PROVE  \/ IsSuccessor(rank, S, f[i - 1], f[i])
                 \/ f[i] \notin S /\ IsGreatest(rank, S, f[i - 1])
      BY <1>2, <1>4, <2>1 DEF Chained, LinkedIn
    <2>2. ASSUME NEW i \in 1 .. N, f[i - 1] \notin S
          PROVE  f[i] \notin S
      <3>1. f[i - 1] = NULL
        BY <1>5, <2>2, NodesNumber
      <3>2. f[i] = NULL
        BY <1>1, <3>1 DEF IsPath, Follow
      <3>3. QED
        BY <1>2, <3>2
    <2>3. QED
      BY <2>1, <2>2 DEF IsWalk
  <1>7. PICK length \in 1 .. N : Enumerates(rank, S, N, f, length)
    <2>1. f[0] \in S
      BY <1>1 DEF IsPath
    <2>2. QED
      BY <1>3, <1>6, <2>1, NodesNumber, WalkEnumerates
  <1>8. {i \in 0 .. N : f[i] # NULL} = 0 .. length - 1
    BY <1>2, <1>5, <1>7, NodesNumber DEF Enumerates
  <1>9. Cardinality(0 .. length - 1) = length
    BY <1>7, NodesNumber, FS_Interval
  <1>10. Chain(p) = [i \in 1 .. length |-> f[i - 1]]
    BY <1>1, <1>8, <1>9
  <1> DEFINE c == Chain(p)
  <1>11. /\ length \in Nat /\ length # 0 /\ length <= N
         /\ Len(c) = length /\ DOMAIN c = 1 .. length
         /\ \A i \in 1 .. length : c[i] = f[i - 1]
    BY <1>7, <1>10, NodesNumber
  <1> HIDE DEF c
  <1>12. c[1] = p /\ f[0] = p
    BY <1>1, <1>11 DEF IsPath
  <1>13. \A i \in 1 .. length : c[i] \in S /\ i - 1 \in 0 .. length - 1
    BY <1>7, <1>11, NodesNumber DEF Enumerates
  <1>14. \A i, j \in 1 .. length : i < j => rank[c[i]] < rank[c[j]]
    BY <1>7, <1>11, <1>13 DEF Enumerates
  <1>15. ASSUME NEW x \in S, rank[p] <= rank[x]
         PROVE  \E i \in 1 .. length : c[i] = x
    <2>1. PICK i \in 0 .. length - 1 : f[i] = x
      BY <1>7, <1>12, <1>15 DEF Enumerates
    <2>2. i + 1 \in 1 .. length /\ (i + 1) - 1 = i
      BY <1>11
    <2>3. QED
      BY <1>11, <2>1, <2>2
  <1>16. ASSUME NEW i \in 1 .. length
         PROVE  next[c[i]] = IF i < length THEN c[i + 1] ELSE NULL
    <2>1. CASE i < length
      <3>1. i + 1 \in 1 .. length /\ (i + 1) - 1 = i /\ i \in 1 .. N
        BY <1>11, <2>1, NodesNumber
      <3>2. f[i] = next[f[i - 1]] /\ f[i] = c[i + 1]
        BY <1>4, <1>11, <1>13, <3>1
      <3>3. QED
        BY <1>11, <2>1, <3>2
    <2>2. CASE i = length
      <3>1. \A x \in S : rank[c[i]] < rank[x] => FALSE
        <4>1. SUFFICES ASSUME NEW x \in S, rank[c[i]] < rank[x] PROVE FALSE
          OBVIOUS
        <4>2. c[i] \in S /\ rank[c[i]] \in Int /\ rank[x] \in Int /\ rank[p] \in Int
          BY <1>13 DEF Ranked
        <4>3. rank[p] <= rank[c[i]]
          <5>1. CASE i = 1
            BY <1>12, <4>2, <5>1
          <5>2. CASE 1 < i
            <6>1. 1 \in 1 .. length
              BY <1>11
            <6>2. rank[p] < rank[c[i]]
              BY <1>12, <1>14, <5>2, <6>1
            <6>3. QED
              BY <4>2, <6>2
          <5>3. QED
            BY <5>1, <5>2
        <4>4. PICK j \in 1 .. length : c[j] = x
          BY <1>15, <4>1, <4>2, <4>3
        <4>5. j < i \/ j = i
          BY <1>11, <2>2
        <4>6. QED
          BY <1>14, <4>1, <4>2, <4>4, <4>5
      <3>2. next[c[i]] = NULL
        BY <1>13, <3>1 DEF Chained, LinkedIn, IsSuccessor
      <3>3. QED
        BY <2>2, <3>2
    <2>3. QED
      BY <1>11, <2>1, <2>2
  <1>17. Lists(c, rank, S, p)
    BY <1>11, <1>12, <1>13, <1>14, <1>15, <1>16 DEF Lists
  <1>18. QED
    BY <1>17 DEF c

-----------------------------------------------------------------------------
(* Searches along a chain.                                                  *)

(***************************************************************************)
(* The least of some indices.                                              *)
(***************************************************************************)
LEMMA MinIndex ==
  ASSUME NEW N \in Nat, NEW I \in SUBSET (1 .. N), I # {}
  PROVE  Min(I) \in I /\ \A j \in I : Min(I) <= j
  <1>1. I \in SUBSET (0 .. N)
    OBVIOUS
  <1>2. \E i \in I : \A j \in I : i <= j
    BY <1>1, LeastIndex
  <1>3. QED
    BY <1>2 DEF Min

(***************************************************************************)
(* FirstOf finds the first node of bucket b of m on the chain from p.      *)
(***************************************************************************)
LEMMA FirstOfFirst ==
  ASSUME NEW S \in SUBSET Nodes, NEW rank, Ranked(rank, S), NEW p \in S,
         Lists(Chain(p), rank, S, p), NEW b, NEW m,
         NEW q, q = FirstOf(p, b, m)
  PROVE  IF q = NULL
         THEN \A x \in S : rank[p] <= rank[x] => BucketOf(x, m) # b
         ELSE /\ q \in S /\ BucketOf(q, m) = b
              /\ \A x \in S : rank[p] <= rank[x] /\ BucketOf(x, m) = b => rank[q] <= rank[x]
  <1> DEFINE c == Chain(p)
             I == {i \in 1 .. Len(c) : BucketOf(c[i], m) = b}
  <1>1. q = IF (IF I # {} THEN Min(I) ELSE 0) = 0
            THEN NULL ELSE c[IF I # {} THEN Min(I) ELSE 0]
    BY DEF FirstOf, SelectInSeq
  <1>2. /\ Len(c) \in Nat
        /\ \A i \in 1 .. Len(c) : c[i] \in S
        /\ \A i, j \in 1 .. Len(c) : i < j => rank[c[i]] < rank[c[j]]
        /\ \A x \in S : rank[p] <= rank[x] => \E i \in 1 .. Len(c) : c[i] = x
    BY DEF Lists
  <1> HIDE DEF c
  <1>3. NULL \notin S
    BY TableAssumption
  <1>4. CASE I = {}
    <2>1. q = NULL
      BY <1>1, <1>4
    <2>2. \A i \in 1 .. Len(c) : BucketOf(c[i], m) # b
      BY <1>4
    <2>3. QED
      BY <1>2, <2>1, <2>2
  <1>5. CASE I # {}
    <2>1. Min(I) \in I /\ \A j \in I : Min(I) <= j
      <3>1. I \in SUBSET (1 .. Len(c))
        OBVIOUS
      <3> HIDE DEF I
      <3>2. QED
        BY <1>2, <1>5, <3>1, MinIndex
    <2>2. PICK k \in 1 .. Len(c) : k = Min(I) /\ BucketOf(c[k], m) = b
      BY <2>1
    <2>3. q = c[k] /\ q \in S
      BY <1>1, <1>2, <1>5, <2>2
    <2>4. ASSUME NEW x \in S, rank[p] <= rank[x], BucketOf(x, m) = b
          PROVE  rank[q] <= rank[x]
      <3>1. PICK j \in 1 .. Len(c) : c[j] = x
        BY <1>2, <2>4
      <3>2. k <= j
        BY <2>1, <2>2, <2>4, <3>1
      <3>3. k = j \/ k < j
        BY <1>2, <3>2
      <3>4. rank[q] \in Int /\ rank[x] \in Int
        BY <2>3 DEF Ranked
      <3>5. QED
        BY <1>2, <2>3, <3>1, <3>3, <3>4
    <2>5. QED
      BY <1>3, <2>2, <2>3, <2>4
  <1>6. QED
    BY <1>4, <1>5

(***************************************************************************)
(* Match finds the first node with key k on the chain of its bucket.       *)
(***************************************************************************)
LEMMA MatchFirst ==
  ASSUME NEW S \in SUBSET Nodes, NEW rank, Ranked(rank, S), NEW p \in S,
         Lists(Chain(p), rank, S, p), NEW k, p = buckets[current][BucketOfKey(k)],
         NEW q, q = Match(k)
  PROVE  IF q = NULL
         THEN \A x \in S : rank[p] <= rank[x] => Key[x] # k
         ELSE q \in S /\ Key[q] = k
  <1> DEFINE c == Chain(p)
             I == {i \in 1 .. Len(c) : Key[c[i]] = k}
  <1>1. q = IF (IF I # {} THEN Min(I) ELSE 0) = 0
            THEN NULL ELSE c[IF I # {} THEN Min(I) ELSE 0]
    BY DEF Match, SelectInSeq
  <1>2. /\ Len(c) \in Nat
        /\ \A i \in 1 .. Len(c) : c[i] \in S
        /\ \A x \in S : rank[p] <= rank[x] => \E i \in 1 .. Len(c) : c[i] = x
    BY DEF Lists
  <1> HIDE DEF c
  <1>3. NULL \notin S
    BY TableAssumption
  <1>4. CASE I = {}
    <2>1. q = NULL
      BY <1>1, <1>4
    <2>2. \A i \in 1 .. Len(c) : Key[c[i]] # k
      BY <1>4
    <2>3. QED
      BY <1>2, <2>1, <2>2
  <1>5. CASE I # {}
    <2>1. Min(I) \in I
      <3>1. I \in SUBSET (1 .. Len(c))
        OBVIOUS
      <3> HIDE DEF I
      <3>2. QED
        BY <1>2, <1>5, <3>1, MinIndex
    <2>2. q = c[Min(I)] /\ Min(I) \in 1 .. Len(c) /\ Key[c[Min(I)]] = k
      <3>1. Min(I) # 0 /\ Min(I) \in 1 .. Len(c) /\ Key[c[Min(I)]] = k
        BY <1>2, <2>1
      <3> HIDE DEF I
      <3>2. QED
        BY <1>1, <1>5, <3>1
    <2> HIDE DEF I
    <2>3. QED
      BY <1>2, <1>3, <2>2
  <1>6. QED
    BY <1>4, <1>5

(***************************************************************************)
(* SegmentEnd finds the last node of the segment of one bucket with which  *)
(* the chain from p begins, unless the whole chain is of one bucket.       *)
(***************************************************************************)
LEMMA SegmentEndLast ==
  ASSUME NEW S \in SUBSET Nodes, NEW rank, Ranked(rank, S), NEW p \in S,
         Lists(Chain(p), rank, S, p), NEW m,
         NEW q, q = SegmentEnd(p, m)
  PROVE  IF q = NULL
         THEN \A x \in S : rank[p] <= rank[x] => BucketOf(x, m) = BucketOf(p, m)
         ELSE /\ q \in S /\ rank[p] <= rank[q] /\ BucketOf(q, m) = BucketOf(p, m)
              /\ next[q] \in S /\ BucketOf(next[q], m) # BucketOf(p, m)
              /\ \A x \in S : rank[p] <= rank[x] /\ rank[x] <= rank[q]
                   => BucketOf(x, m) = BucketOf(p, m)
  <1> DEFINE c == Chain(p)
             I == {i \in 1 .. Len(c) : BucketOf(c[i], m) # BucketOf(p, m)}
  <1>1. q = IF (IF I # {} THEN Min(I) ELSE 0) = 0
            THEN NULL ELSE c[(IF I # {} THEN Min(I) ELSE 0) - 1]
    BY DEF SegmentEnd, SelectInSeq
  <1>2. /\ Len(c) \in Nat /\ Len(c) # 0 /\ c[1] = p
        /\ \A i \in 1 .. Len(c) : c[i] \in S
        /\ \A i, j \in 1 .. Len(c) : i < j => rank[c[i]] < rank[c[j]]
        /\ \A x \in S : rank[p] <= rank[x] => \E i \in 1 .. Len(c) : c[i] = x
        /\ \A i \in 1 .. Len(c) : next[c[i]] = IF i < Len(c) THEN c[i + 1] ELSE NULL
    BY DEF Lists
  <1> HIDE DEF c
  <1>3. NULL \notin S /\ \A x \in S : rank[x] \in Int
    BY TableAssumption DEF Ranked
  <1>4. CASE I = {}
    <2>1. q = NULL
      BY <1>1, <1>4
    <2>2. \A i \in 1 .. Len(c) : BucketOf(c[i], m) = BucketOf(p, m)
      BY <1>4
    <2>3. QED
      BY <1>2, <2>1, <2>2
  <1>5. CASE I # {}
    <2>1. Min(I) \in I /\ \A j \in I : Min(I) <= j
      <3>1. I \in SUBSET (1 .. Len(c))
        OBVIOUS
      <3> HIDE DEF I
      <3>2. QED
        BY <1>2, <1>5, <3>1, MinIndex
    <2>2. PICK k \in 1 .. Len(c) : k = Min(I) /\ BucketOf(c[k], m) # BucketOf(p, m)
      BY <2>1
    <2>3. \A j \in 1 .. Len(c) : j < k => BucketOf(c[j], m) = BucketOf(p, m)
      BY <2>1, <2>2
    <2>4. k # 1
      BY <1>2, <2>2
    <2>5. /\ k - 1 \in 1 .. Len(c) /\ 1 \in 1 .. Len(c) /\ k - 1 < k /\ (k - 1) + 1 = k
          /\ k - 1 < Len(c)
      BY <1>2, <2>2, <2>4
    <2>6. q = c[k - 1]
      BY <1>1, <1>5, <2>2
    <2>7. q \in S /\ BucketOf(q, m) = BucketOf(p, m)
      BY <1>2, <2>3, <2>5, <2>6
    <2>8. rank[p] <= rank[q]
      <3>1. CASE k - 1 = 1
        BY <1>2, <1>3, <2>6, <3>1
      <3>2. CASE 1 < k - 1
        BY <1>2, <1>3, <2>5, <2>6, <2>7, <3>2
      <3>3. QED
        BY <2>5, <3>1, <3>2
    <2>9. next[q] = c[k] /\ c[k] \in S
      BY <1>2, <2>2, <2>5, <2>6
    <2>10. ASSUME NEW x \in S, rank[p] <= rank[x], rank[x] <= rank[q]
           PROVE  BucketOf(x, m) = BucketOf(p, m)
      <3>1. PICK j \in 1 .. Len(c) : c[j] = x
        BY <1>2, <2>10
      <3>2. rank[x] \in Int /\ rank[q] \in Int
        BY <1>3, <2>7
      <3>3. ~(k - 1 < j)
        BY <1>2, <2>5, <2>6, <2>10, <3>1, <3>2
      <3>4. j < k
        BY <2>2, <3>1, <3>3
      <3>5. QED
        BY <2>3, <3>1, <3>4
    <2>11. QED
      BY <1>3, <2>2, <2>7, <2>8, <2>9, <2>10
  <1>6. QED
    BY <1>4, <1>5

\* The place of node n on the chain from p.
PlaceOf(n, p) == SelectInSeq(Chain(p), LAMBDA x : x = n)

(***************************************************************************)
(* The place at which rcuSlistRemoveIf stops: at the head, or behind the   *)
(* node that leads to n.                                                   *)
(***************************************************************************)
LEMMA PlaceOfNode ==
  ASSUME NEW S \in SUBSET Nodes, NEW rank, Ranked(rank, S), NEW p \in S,
         Lists(Chain(p), rank, S, p), NEW n \in S, rank[p] <= rank[n],
         NEW i, i = PlaceOf(n, p)
  PROVE  IF i = 1 THEN n = p
         ELSE Chain(p)[i - 1] \in S /\ next[Chain(p)[i - 1]] = n
  <1> DEFINE c == Chain(p)
             I == {j \in 1 .. Len(c) : c[j] = n}
  <1>1. i = IF I # {} THEN Min(I) ELSE 0
    BY DEF PlaceOf, SelectInSeq
  <1>2. /\ Len(c) \in Nat /\ c[1] = p
        /\ \A j \in 1 .. Len(c) : c[j] \in S
        /\ \A x \in S : rank[p] <= rank[x] => \E j \in 1 .. Len(c) : c[j] = x
        /\ \A j \in 1 .. Len(c) : next[c[j]] = IF j < Len(c) THEN c[j + 1] ELSE NULL
    BY DEF Lists
  <1> HIDE DEF c
  <1>3. i \in 1 .. Len(c) /\ c[i] = n
    <2>1. I # {} /\ I \in SUBSET (1 .. Len(c))
      BY <1>2
    <2>2. Min(I) \in I
      <3> HIDE DEF I
      <3>1. QED
        BY <1>2, <2>1, MinIndex
    <2>3. QED
      BY <1>1, <2>1, <2>2
  <1>4. CASE i = 1
    BY <1>2, <1>3, <1>4
  <1>5. CASE i # 1
    <2>1. i - 1 \in 1 .. Len(c) /\ i - 1 < Len(c) /\ (i - 1) + 1 = i
      BY <1>2, <1>3, <1>5
    <2>2. c[i - 1] \in S /\ next[c[i - 1]] = n
      BY <1>2, <1>3, <2>1
    <2>3. QED
      BY <1>5, <2>2 DEF c
  <1>6. QED
    BY <1>4, <1>5

(***************************************************************************)
(* The end of a chain.                                                     *)
(***************************************************************************)
LEMMA LastEndsChain ==
  ASSUME NEW S \in SUBSET Nodes, NEW rank, NEW p \in S, Lists(Chain(p), rank, S, p)
  PROVE  Chain(p) # <<>> /\ Last(Chain(p)) \in S /\ next[Last(Chain(p))] = NULL
  <1> DEFINE c == Chain(p)
  <1>1. Len(c) \in Nat /\ Len(c) # 0 /\ Last(c) = c[Len(c)]
    BY DEF Lists, Last
  <1>2. Len(c) \in 1 .. Len(c)
    BY <1>1
  <1>3. c[Len(c)] \in S /\ next[c[Len(c)]] = NULL
    BY <1>1, <1>2 DEF Lists
  <1>4. QED
    BY <1>1, <1>3

-----------------------------------------------------------------------------
(* The inductive invariant: types.                                          *)

\* While one of these, the old array and the unzipping are of interest.
Expanding == {"published", "starts", "unzip", "passed"}

ReadersTypes ==
  /\ Zone!TypeOK
  /\ rpc \in [Readers -> {"out", "section", "head", "walk"}]
  /\ target \in [Readers -> Keys \cup {NULL}]
  /\ array \in [Readers -> Arrays]
  /\ pos \in [Readers -> Nodes \cup {NULL}]
  /\ held \in [Readers -> SUBSET Nodes]
  /\ answers \in [Readers -> SUBSET (Nodes \cup {NULL})]

VarTypes ==
  /\ NextType
  /\ current \in Arrays
  /\ DOMAIN buckets = Arrays
  /\ size \in 0 .. MaxInserts
  /\ members \in SUBSET Nodes
  /\ limbo \in SUBSET Nodes
  /\ limbo \cap members = {}
  /\ wpc \in WriterPC
  /\ iHalf \in Nat
  /\ allFinished \in BOOLEAN
  /\ releases \in BOOLEAN
  /\ ReadersTypes

-----------------------------------------------------------------------------
(* The inductive invariant: buckets and chains.  There are m buckets, half  *)
(* as many are h, and k in the array that is not published.                 *)

Sizes(m, h, k) ==
  /\ m \in Powers /\ m <= MaxBuckets
  /\ h = m \div 2
  /\ k \in Powers \cup {0}
  /\ buckets[current] \in Heads(m)
  /\ buckets[other] \in Heads(k)
  /\ wpc \in Expanding => k = h
  /\ wpc = "shrunk" => k = 2 * m
  /\ wpc \in Expanding \cup {"shrink", "publish"} => m > 1
  /\ wpc = "expand" => m < MaxBuckets

\* The buckets that a loop of the writer has dealt with.
Loops(h) ==
  /\ wpc = "shrink" => iHalf < h
  /\ wpc \in {"unzip", "passed", "free"} => iHalf <= MaxBuckets
  /\ wpc = "unzip" => iHalf <= h
  /\ wpc \notin {"shrink", "unzip", "passed", "free"} => iHalf = 0
  /\ wpc = "unzip" /\ allFinished =>
       \A b \in 0 .. h - 1 : b < iHalf => buckets[other][b] = NULL

\* The members in bucket b of m.
In(m, b) == {n \in members : BucketOf(n, m) = b}

\* Is n on a chain that two buckets share?
Joined(rank, h, n) ==
  \/ wpc \in {"published", "starts", "publish"}
  \/ wpc = "shrink" /\ BucketOf(n, h) < iHalf
  \/ /\ wpc \in {"unzip", "passed"}
     /\ LET cut == buckets[other][BucketOf(n, h)]
        IN  cut # NULL /\ rank[cut] <= rank[n]

\* The nodes among which n is linked to the next one.
Peers(rank, m, h, n) ==
  IF Joined(rank, h, n) THEN In(h, BucketOf(n, h)) ELSE In(m, BucketOf(n, m))

Links(rank, m, h) == \A n \in members : LinkedIn(rank, Peers(rank, m, h, n), n)

\* p is the first node of S.
IsFirst(rank, S, p) ==
  IF S = {} THEN p = NULL ELSE p \in S /\ \A x \in S : rank[p] <= rank[x]

\* The heads in the published array.
Published(rank, m) ==
  \A b \in 0 .. m - 1 : IsFirst(rank, In(m, b), buckets[current][b])

\* What the other array holds: the heads of the buckets before they were
\* doubled or halved, or the places where chains are to be cut.
OldHeads(rank, h) ==
  wpc \in {"published", "starts"} =>
    \A b \in 0 .. h - 1 : IsFirst(rank, In(h, b), buckets[other][b])

OldHeadsJoined(rank, k) ==
  wpc = "shrunk" =>
    \A b \in 0 .. k - 1 : IsFirst(rank, In(k, b), buckets[other][b])

Cuts(rank, m, h) ==
  wpc \in {"unzip", "passed"} =>
    \A b \in 0 .. h - 1 :
      LET cut == buckets[other][b]
      IN  cut # NULL => /\ cut \in In(h, b)
                        /\ next[cut] # NULL
                        /\ BucketOf(next[cut], m) # BucketOf(cut, m)

\* On a joined chain the first bucket comes before the second.
JoinOrder(rank, m, h) ==
  wpc \in {"shrink", "publish"} =>
    \A x, y \in members :
      /\ BucketOf(x, h) = BucketOf(y, h) /\ Joined(rank, h, x)
      /\ BucketOf(x, m) < h /\ h <= BucketOf(y, m)
      => rank[x] < rank[y]

Chains(rank, m, h, k) ==
  /\ rank \in [Nodes -> Int]
  /\ Ranked(rank, members)
  /\ Links(rank, m, h)
  /\ Published(rank, m)
  /\ OldHeads(rank, h)
  /\ OldHeadsJoined(rank, k)
  /\ Cuts(rank, m, h)
  /\ JoinOrder(rank, m, h)

TableInv ==
  \E rank, m, h, k : Sizes(m, h, k) /\ Loops(h) /\ Chains(rank, m, h, k)

-----------------------------------------------------------------------------
(* The inductive invariant: readers and the nodes they can reach.           *)

WriterInv ==
  /\ writer \in syncing => wpc \in DOMAIN Continuation
  /\ releases => wpc \in {"shrink", "publish", "shrunk", "free", "sync"}
  /\ \A n \in limbo : next[n] \in members \cup limbo \cup {NULL}

\* The nodes that reader r can use.
Uses(r) == ({pos[r]} \cup held[r]) \ {NULL}

\* Readers that the writer has not to wait for any more.
Fresh(r) ==
  \/ wpc \in {"sync", "shrunk"} /\ writer \in syncing /\ r \notin waiting[writer]
  \/ wpc = "free" /\ releases

ReaderInv(r) ==
  /\ r \in inside <=> rpc[r] # "out"
  /\ target[r] # NULL <=> rpc[r] \in {"head", "walk"}
  /\ rpc[r] # "walk" => pos[r] = NULL
  /\ rpc[r] = "out" => held[r] = {}
  /\ rpc[r] = "head" => \/ array[r] = current
                        \/ /\ wpc \in {"published", "shrunk"}
                           /\ writer \in syncing => r \in waiting[writer]
  /\ Uses(r) \subseteq members \cup limbo
  /\ Fresh(r) => Uses(r) \subseteq members

ReadersInv == \A r \in Readers : ReaderInv(r)

IInv == VarTypes /\ TableInv /\ WriterInv /\ ReadersInv

-----------------------------------------------------------------------------
(* Numbers of buckets.                                                      *)

LEMMA PowerFacts ==
  /\ \A m \in Powers : m \in Nat /\ m # 0
  /\ \A m \in Powers : m > 1 => m \div 2 \in Powers /\ m = 2 * (m \div 2)
  /\ \A m, n \in Powers : m < n => 2 * m \in Powers /\ 2 * m <= n /\ (2 * m) \div 2 = m
  /\ \A m \in Powers : m \div 2 \in Nat
  BY DEF Powers

LEMMA Remainder ==
  ASSUME NEW x \in Nat, NEW m \in Nat, m # 0, NEW q \in Nat, NEW r \in 0 .. m - 1,
         x = m * q + r
  PROVE  x % m = r
  OBVIOUS

(***************************************************************************)
(* Doubling the buckets splits each one in two: hash & mask gets one more  *)
(* bit.                                                                    *)
(***************************************************************************)
LEMMA TwinBuckets ==
  ASSUME NEW x \in Nat, NEW h \in Nat, h # 0
  PROVE  x % h \in 0 .. h - 1 /\ x % (2 * h) \in {x % h, (x % h) + h}
  <1> DEFINE q == x \div h
             r == x % h
  <1>1. q \in Nat /\ r \in 0 .. h - 1 /\ x = h * q + r
    OBVIOUS
  <1> HIDE DEF q, r
  <1>2. PICK d \in Nat : q = 2 * d \/ q = 2 * d + 1
    <2>1. q \div 2 \in Nat /\ (q = 2 * (q \div 2) \/ q = 2 * (q \div 2) + 1)
      BY <1>1
    <2>2. QED
      BY <2>1
  <1>3. CASE q = 2 * d
    <2>1. x = (2 * h) * d + r /\ r \in 0 .. (2 * h) - 1
      BY <1>1, <1>3
    <2>2. x % (2 * h) = r
      BY <2>1, Remainder
    <2>3. QED
      BY <1>1, <2>2 DEF r
  <1>4. CASE q = 2 * d + 1
    <2> DEFINE s == r + h
               w == 2 * h
    <2>1. w \in Nat /\ w # 0 /\ s \in 0 .. w - 1
      BY <1>1, <1>4
    <2>2. x = w * d + s
      BY <1>1, <1>4
    <2>3. x % w = s
      <3> HIDE DEF s, w
      <3>1. QED
        BY <2>1, <2>2, Remainder
    <2>4. QED
      BY <1>1, <2>3 DEF r
  <1>5. QED
    BY <1>2, <1>3, <1>4

LEMMA BucketFacts ==
  ASSUME NEW n \in Nodes
  PROVE  /\ \A m \in Powers : BucketOf(n, m) \in 0 .. m - 1
         /\ \A m \in Powers : m > 1 =>
              BucketOf(n, m) \in {BucketOf(n, m \div 2), BucketOf(n, m \div 2) + m \div 2}
  <1>1. Hash[Key[n]] \in Nat
    BY TableAssumption
  <1>2. \A m \in Powers : m \in Nat /\ m # 0
    BY PowerFacts
  <1>3. ASSUME NEW m \in Powers PROVE BucketOf(n, m) \in 0 .. m - 1
    BY <1>1, <1>2, TwinBuckets DEF BucketOf
  <1>4. ASSUME NEW m \in Powers, m > 1
        PROVE  BucketOf(n, m) \in {BucketOf(n, m \div 2), BucketOf(n, m \div 2) + m \div 2}
    <2>1. m \div 2 \in Nat /\ m \div 2 # 0 /\ m = 2 * (m \div 2)
      BY <1>4, PowerFacts
    <2>2. QED
      BY <1>1, <2>1, TwinBuckets DEF BucketOf
  <1>5. QED
    BY <1>3, <1>4

LEMMA NrBucketsOf ==
  ASSUME NEW a, NEW m \in Nat, buckets[a] \in Heads(m)
  PROVE  NrBuckets(a) = m /\ DOMAIN buckets[a] = 0 .. m - 1
  <1>1. DOMAIN buckets[a] = 0 .. m - 1
    BY DEF Heads
  <1>2. Cardinality(0 .. m - 1) = m
    BY FS_Interval
  <1>3. QED
    BY <1>1, <1>2 DEF NrBuckets

-----------------------------------------------------------------------------
(* What readers meet.                                                       *)

\* The links and heads that readers of the table follow lead to members.
LEMMA NextOfMember ==
  ASSUME TableInv, NEW n \in members
  PROVE  next[n] \in members \cup {NULL}
  BY DEF TableInv, Chains, Links, LinkedIn, IsSuccessor, Peers, In

LEMMA HeadsAreMembers ==
  ASSUME VarTypes, TableInv, NEW x \in Nat, NEW a \in Arrays,
         a = current \/ wpc \in {"published", "shrunk"}
  PROVE  /\ NrBuckets(a) # 0
         /\ buckets[a][x % NrBuckets(a)] \in members \cup {NULL}
  <1>1. PICK rank, m, h, k : Sizes(m, h, k) /\ Chains(rank, m, h, k)
    BY DEF TableInv
  <1>2. a = current \/ a = other
    BY DEF VarTypes, Arrays, other
  <1>3. PICK j \in {m, k} : /\ j \in Nat /\ j # 0 /\ buckets[a] \in Heads(j)
                            /\ \A b \in 0 .. j - 1 : buckets[a][b] \in members \cup {NULL}
    <2>1. CASE a = current
      <3>1. m \in Nat /\ m # 0 /\ buckets[a] \in Heads(m)
        BY <1>1, <2>1, PowerFacts DEF Sizes
      <3>2. \A b \in 0 .. m - 1 : buckets[a][b] \in members \cup {NULL}
        BY <1>1, <2>1 DEF Chains, Published, IsFirst, In
      <3>3. QED
        BY <3>1, <3>2
    <2>2. CASE a = other /\ wpc = "published"
      <3>1. m > 1 /\ k = h /\ h = m \div 2
        BY <1>1, <2>2 DEF Sizes, Expanding
      <3>2. k \in Nat /\ k # 0 /\ buckets[a] \in Heads(k)
        BY <1>1, <2>2, <3>1, PowerFacts DEF Sizes
      <3>3. \A b \in 0 .. k - 1 : buckets[a][b] \in members \cup {NULL}
        BY <1>1, <2>2, <3>1 DEF Chains, OldHeads, IsFirst, In
      <3>4. QED
        BY <3>2, <3>3
    <2>3. CASE a = other /\ wpc = "shrunk"
      <3>1. k = 2 * m /\ m \in Nat /\ m # 0
        BY <1>1, <2>3, PowerFacts DEF Sizes
      <3>2. k \in Nat /\ k # 0 /\ buckets[a] \in Heads(k)
        BY <1>1, <2>3, <3>1 DEF Sizes
      <3>3. \A b \in 0 .. k - 1 : buckets[a][b] \in members \cup {NULL}
        BY <1>1, <2>3 DEF Chains, OldHeadsJoined, IsFirst, In
      <3>4. QED
        BY <3>2, <3>3
    <2>4. QED
      BY <1>2, <2>1, <2>2, <2>3
  <1>4. NrBuckets(a) = j
    BY <1>3, NrBucketsOf
  <1>5. x % j \in 0 .. j - 1
    BY <1>3, TwinBuckets
  <1>6. QED
    BY <1>3, <1>4, <1>5

\* Steps that leave the table and the writer alone.
LEMMA TableUnchanged ==
  ASSUME TableInv, UNCHANGED <<next, buckets, current, members, wpc, iHalf, allFinished>>
  PROVE  TableInv'
  <1>1. PICK rank, m, h, k : Sizes(m, h, k) /\ Loops(h) /\ Chains(rank, m, h, k)
    BY DEF TableInv
  <1>2. Sizes(m, h, k)' /\ Loops(h)'
    BY <1>1 DEF Sizes, Loops, other
  <1>3. \A n \in members : Peers(rank, m, h, n)' = Peers(rank, m, h, n)
    BY DEF Peers, Joined, In, other
  <1>4. Links(rank, m, h)'
    BY <1>1, <1>3 DEF Chains, Links, LinkedIn
  <1>5. Published(rank, m)' /\ OldHeads(rank, h)' /\ OldHeadsJoined(rank, k)' /\ Cuts(rank, m, h)'
    BY <1>1 DEF Chains, Published, OldHeads, OldHeadsJoined, Cuts, In, other
  <1>6. JoinOrder(rank, m, h)'
    BY <1>1 DEF Chains, JoinOrder, Joined, other
  <1>7. QED
    BY <1>1, <1>2, <1>4, <1>5, <1>6 DEF TableInv, Chains

-----------------------------------------------------------------------------
(* Steps of readers.                                                        *)

\* A reader that a step leaves alone.
LEMMA ReaderStays ==
  ASSUME UNCHANGED <<tableVars, writerVars, syncing>>, NEW q \in Readers, ReaderInv(q),
         UNCHANGED <<rpc[q], target[q], array[q], pos[q], held[q]>>,
         q \in inside' <=> q \in inside,
         q \in waiting'[writer] <=> q \in waiting[writer]
  PROVE  ReaderInv(q)'
  BY DEF tableVars, writerVars, ReaderInv, Fresh, Uses

LEMMA ReaderSteps ==
  ASSUME IInv, NEW r \in Readers,
         \/ ReadLock(r) \/ ReadUnlock(r) \/ Lookup(r)
         \/ \E k \in Keys : FindStart(r, k)
  PROVE  IInv'
  <1>1. UNCHANGED <<tableVars, writerVars, syncing>>
    BY DEF ReadLock, ReadUnlock, Lookup, LoadHead, LoadNext, FindEnd, FindStart,
           Reader, zoneVars, Zone!ReadLock, Zone!ReadUnlock
  <1>2. UNCHANGED <<next, buckets, current, size, members, limbo>>
    BY <1>1 DEF tableVars
  <1>3. UNCHANGED <<wpc, iHalf, allFinished, releases>>
    BY <1>1 DEF writerVars
  <1>4. TableInv'
    BY <1>2, <1>3, TableUnchanged DEF IInv
  <1>5. WriterInv'
    BY <1>1, <1>2, <1>3 DEF IInv, WriterInv
  <1>6. VarTypes /\ ReaderInv(r) /\ \A q \in Readers : ReaderInv(q)
    BY DEF IInv, ReadersInv
  <1>7. /\ inside \subseteq Readers /\ syncing \subseteq {writer}
        /\ waiting \in [{writer} -> SUBSET Readers]
    BY <1>6 DEF VarTypes, ReadersTypes, Zone!TypeOK
  <1>8. ASSUME ReadersTypes', ReaderInv(r)', \A q \in Readers \ {r} :
                 /\ UNCHANGED <<rpc[q], target[q], array[q], pos[q], held[q]>>
                 /\ q \in inside' <=> q \in inside
                 /\ q \in waiting'[writer] <=> q \in waiting[writer]
        PROVE  IInv'
    <2>1. VarTypes'
      BY <1>2, <1>3, <1>6, <1>8 DEF VarTypes, ReadersTypes, NextType
    <2>2. \A q \in Readers : ReaderInv(q)'
      BY <1>1, <1>6, <1>8, ReaderStays
    <2>3. QED
      BY <1>4, <1>5, <2>1, <2>2 DEF IInv, ReadersInv
  <1>9. ReadersTypes
    BY <1>6 DEF VarTypes
  <1>10. NULL \notin Nodes \cup Keys /\ members \subseteq Nodes /\ limbo \subseteq Nodes
    BY <1>6, TableAssumption DEF VarTypes
  <1>11. CASE ReadLock(r)
    <2>1. /\ rpc[r] = "out" /\ rpc' = [rpc EXCEPT ![r] = "section"]
          /\ inside' = inside \cup {r}
          /\ UNCHANGED <<waiting, target, array, pos, held, answers>>
      BY <1>11 DEF ReadLock, Reader, Zone!ReadLock
    <2>2. ReadersTypes'
      BY <1>1, <1>9, <2>1 DEF ReadersTypes, Zone!TypeOK
    <2>3. ReaderInv(r)'
      BY <1>6, <1>9, <2>1 DEF ReaderInv, Fresh, Uses, ReadersTypes
    <2>4. QED
      BY <1>8, <1>9, <2>1, <2>2, <2>3 DEF ReadersTypes
  <1>12. CASE ReadUnlock(r)
    <2>1. /\ rpc[r] = "section" /\ rpc' = [rpc EXCEPT ![r] = "out"]
          /\ inside' = inside \ {r}
          /\ waiting' = [w \in {writer} |-> waiting[w] \ {r}]
          /\ held' = [held EXCEPT ![r] = {}]
          /\ UNCHANGED <<target, array, pos, answers>>
      BY <1>12 DEF ReadUnlock, Reader, Zone!ReadUnlock
    <2>2. ReadersTypes'
      BY <1>1, <1>7, <1>9, <2>1 DEF ReadersTypes, Zone!TypeOK
    <2>3. ReaderInv(r)'
      BY <1>6, <1>9, <2>1 DEF ReaderInv, Fresh, Uses, ReadersTypes
    <2>4. QED
      BY <1>7, <1>8, <1>9, <2>1, <2>2, <2>3 DEF ReadersTypes
  <1>13. CASE \E k \in Keys : FindStart(r, k)
    <2>1. PICK k \in Keys :
            /\ rpc[r] = "section" /\ rpc' = [rpc EXCEPT ![r] = "head"]
            /\ target' = [target EXCEPT ![r] = k]
            /\ array' = [array EXCEPT ![r] = current]
            /\ answers' = [answers EXCEPT ![r] = {NodeOf(members, k)}]
            /\ UNCHANGED <<inside, waiting, pos, held>>
      BY <1>13 DEF FindStart, Reader, zoneVars
    <2>2. NodeOf(members, k) \in Nodes \cup {NULL}
      BY <1>10 DEF NodeOf
    <2>3. current \in Arrays
      BY <1>6 DEF VarTypes
    <2>4. ReadersTypes'
      BY <1>1, <1>9, <2>1, <2>2, <2>3 DEF ReadersTypes, Zone!TypeOK
    <2>5. ReaderInv(r)'
      BY <1>2, <1>3, <1>1, <1>6, <1>9, <1>10, <2>1 DEF ReaderInv, Fresh, Uses, ReadersTypes
    <2>6. QED
      BY <1>8, <1>9, <2>1, <2>4, <2>5 DEF ReadersTypes
  <1>14. CASE LoadHead(r)
    <2> DEFINE p == buckets[array[r]][Hash[target[r]] % NrBuckets(array[r])]
    <2>1. /\ rpc[r] = "head" /\ rpc' = [rpc EXCEPT ![r] = "walk"]
          /\ pos' = [pos EXCEPT ![r] = p]
          /\ UNCHANGED <<inside, waiting, target, array, held, answers>>
      BY <1>14 DEF LoadHead, Reader, zoneVars
    <2>2. target[r] \in Keys /\ array[r] \in Arrays
      BY <1>6, <1>9, <2>1 DEF ReaderInv, ReadersTypes
    <2>3. array[r] = current \/ wpc \in {"published", "shrunk"}
      BY <1>6, <2>1 DEF ReaderInv
    <2>4. p \in members \cup {NULL}
      BY <1>6, <2>2, <2>3, HeadsAreMembers, TableAssumption DEF IInv
    <2> HIDE DEF p
    <2>5. ReadersTypes'
      BY <1>1, <1>9, <1>10, <2>1, <2>4 DEF ReadersTypes, Zone!TypeOK
    <2>6. Uses(r)' \subseteq Uses(r) \cup members
      BY <1>9, <2>1, <2>4 DEF Uses, ReadersTypes
    <2>7. ReaderInv(r)'
      BY <1>1, <1>2, <1>3, <1>6, <1>9, <1>10, <2>1, <2>6 DEF ReaderInv, Fresh, ReadersTypes
    <2>8. QED
      BY <1>8, <1>9, <2>1, <2>5, <2>7 DEF ReadersTypes
  <1>15. CASE LoadNext(r)
    <2>1. /\ pos[r] # NULL /\ rpc[r] = "walk" /\ rpc' = [rpc EXCEPT ![r] = "walk"]
          /\ pos' = [pos EXCEPT ![r] = next[pos[r]]]
          /\ UNCHANGED <<inside, waiting, target, array, held, answers>>
      BY <1>15 DEF LoadNext, Reader, zoneVars
    <2>2. pos[r] \in members \cup limbo
      BY <1>6, <2>1 DEF ReaderInv, Uses
    <2>3. pos[r] \in members => next[pos[r]] \in members \cup {NULL}
      BY NextOfMember DEF IInv
    <2>4. next[pos[r]] \in members \cup limbo \cup {NULL}
      BY <2>2, <2>3 DEF IInv, WriterInv
    <2>5. ReadersTypes'
      BY <1>1, <1>9, <1>10, <2>1, <2>4 DEF ReadersTypes, Zone!TypeOK
    <2>6. /\ Uses(r)' \subseteq members \cup limbo
          /\ Uses(r) \subseteq members => Uses(r)' \subseteq members
      BY <1>6, <1>9, <2>1, <2>3, <2>4 DEF Uses, ReadersTypes, ReaderInv
    <2>7. ReaderInv(r)'
      BY <1>1, <1>2, <1>3, <1>6, <1>9, <1>10, <2>1, <2>6 DEF ReaderInv, Fresh, ReadersTypes
    <2>8. QED
      BY <1>8, <1>9, <2>1, <2>5, <2>7 DEF ReadersTypes
  <1>16. CASE FindEnd(r)
    <2>1. /\ rpc[r] = "walk" /\ rpc' = [rpc EXCEPT ![r] = "section"]
          /\ held' = [held EXCEPT ![r] = @ \cup ({pos[r]} \ {NULL})]
          /\ pos' = [pos EXCEPT ![r] = NULL]
          /\ target' = [target EXCEPT ![r] = NULL]
          /\ answers' = [answers EXCEPT ![r] = {}]
          /\ array' = [array EXCEPT ![r] = 0]
          /\ UNCHANGED <<inside, waiting>>
      BY <1>16 DEF FindEnd, Reader, zoneVars
    <2>2. ReadersTypes'
      BY <1>1, <1>9, <1>10, <2>1 DEF ReadersTypes, Zone!TypeOK, Arrays
    <2>3. Uses(r)' = Uses(r)
      BY <1>9, <2>1 DEF Uses, ReadersTypes
    <2>4. ReaderInv(r)'
      BY <1>1, <1>2, <1>3, <1>6, <1>9, <1>10, <2>1, <2>3 DEF ReaderInv, Fresh, ReadersTypes
    <2>5. QED
      BY <1>8, <1>9, <2>1, <2>2, <2>4 DEF ReadersTypes
  <1>17. QED
    BY <1>11, <1>12, <1>13, <1>14, <1>15, <1>16 DEF Lookup
-----------------------------------------------------------------------------
(* Steps of the writer: what all of them need.                              *)

\* Readers do not mind a step that gives nothing back.
LEMMA ReadersStay ==
  ASSUME IInv, UNCHANGED <<zoneVars, readerVars>>, writer \notin syncing,
         wpc \notin {"published", "shrunk"},
         wpc' = "free" => ~releases',
         members \cup limbo \subseteq members' \cup limbo',
         current' = current \/ wpc' \in {"published", "shrunk"}
  PROVE  ReadersInv'
  <1>1. UNCHANGED <<inside, syncing, waiting, rpc, target, array, pos, held>>
    BY DEF zoneVars, readerVars
  <1>2. ASSUME NEW r \in Readers PROVE ReaderInv(r)'
    <2>1. ReaderInv(r)
      BY DEF IInv, ReadersInv
    <2>2. Uses(r)' = Uses(r) /\ ~Fresh(r)'
      BY <1>1 DEF Uses, Fresh
    <2>3. rpc[r] = "head" => array[r] = current
      BY <2>1 DEF ReaderInv
    <2>4. QED
      BY <1>1, <2>1, <2>2, <2>3 DEF ReaderInv
  <1>3. QED
    BY <1>2 DEF ReadersInv

\* The places at which chains are not shared.
PlainPC == {"idle", "expand", "shrunk", "free", "sync"}

Plain(rank, m) ==
  /\ rank \in [Nodes -> Int]
  /\ Ranked(rank, members)
  /\ \A n \in members : LinkedIn(rank, In(m, BucketOf(n, m)), n)
  /\ Published(rank, m)

LEMMA Twins ==
  ASSUME NEW m \in Powers, m > 1, NEW h, h = m \div 2
  PROVE  /\ h \in Nat /\ h # 0 /\ h \in Powers /\ m = 2 * h
         /\ \A n \in Nodes : /\ BucketOf(n, h) \in 0 .. h - 1
                             /\ BucketOf(n, m) \in {BucketOf(n, h), BucketOf(n, h) + h}
  BY PowerFacts, BucketFacts

LEMMA PlainChains ==
  ASSUME VarTypes, NEW rank, NEW m, NEW h, NEW k, Sizes(m, h, k), Chains(rank, m, h, k),
         wpc \in PlainPC \/ (wpc = "shrink" /\ iHalf = 0)
  PROVE  Plain(rank, m)
  <1>1. ASSUME NEW n \in members PROVE ~Joined(rank, h, n)
    <2>1. CASE wpc \in PlainPC
      BY <2>1 DEF PlainPC, Joined
    <2>2. CASE wpc = "shrink" /\ iHalf = 0
      <3>1. BucketOf(n, h) \in 0 .. h - 1 /\ h \in Nat
        BY <2>2, Twins DEF Sizes, VarTypes
      <3>2. QED
        BY <2>2, <3>1 DEF Joined
    <2>3. QED
      BY <2>1, <2>2
  <1>2. QED
    BY <1>1 DEF Chains, Plain, Links, Peers

LEMMA ChainsOfPlain ==
  ASSUME NEW rank, NEW m, NEW h, NEW k, Sizes(m, h, k)', Plain(rank, m)',
         members' \in SUBSET Nodes, OldHeadsJoined(rank, k)',
         wpc' \in PlainPC \/ (wpc' = "shrink" /\ iHalf' = 0)
  PROVE  Chains(rank, m, h, k)'
  <1>1. ASSUME NEW n \in members' PROVE ~Joined(rank, h, n)'
    <2>1. CASE wpc' \in PlainPC
      BY <2>1 DEF PlainPC, Joined
    <2>2. CASE wpc' = "shrink" /\ iHalf' = 0
      <3>1. BucketOf(n, h) \in 0 .. h - 1 /\ h \in Nat
        BY <2>2, Twins DEF Sizes
      <3>2. QED
        BY <2>2, <3>1 DEF Joined
    <2>3. QED
      BY <2>1, <2>2
  <1>2. Links(rank, m, h)' /\ JoinOrder(rank, m, h)'
    BY <1>1 DEF Plain, Links, Peers, JoinOrder
  <1>3. OldHeads(rank, h)' /\ Cuts(rank, m, h)'
    BY DEF PlainPC, OldHeads, Cuts
  <1>4. QED
    BY <1>2, <1>3 DEF Plain, Chains

\* A call that begins, or that begins to wait.
LEMMA CallStep ==
  ASSUME IInv, Synchronize \/ ExpandBuckets2x \/ ShrinkBuckets2x
  PROVE  IInv'
  <1>1. /\ wpc = "idle" /\ wpc' \in {"sync", "expand", "shrink"}
        /\ UNCHANGED <<zoneVars, readerVars, tableVars, iHalf, allFinished, answers>>
        /\ wpc' = "expand" => NrBuckets(current) < MaxBuckets
        /\ wpc' = "shrink" => NrBuckets(current) > 1
        /\ releases' = releases \/ (wpc' = "sync" /\ releases' = TRUE)
    BY DEF Synchronize, ExpandBuckets2x, ShrinkBuckets2x, Writer
  <1>2. UNCHANGED <<next, buckets, current, size, members, limbo, other>>
    BY <1>1 DEF tableVars, other
  <1>3. VarTypes /\ WriterInv /\ ~releases /\ writer \notin syncing
    BY <1>1 DEF IInv, WriterInv, Continuation
  <1>4. VarTypes'
    BY <1>1, <1>2, <1>3
    DEF VarTypes, NextType, ReadersTypes, Zone!TypeOK, zoneVars, readerVars, WriterPC
  <1>5. PICK rank, m, h, k : Sizes(m, h, k) /\ Loops(h) /\ Chains(rank, m, h, k)
    BY DEF IInv, TableInv
  <1>6. m \in Powers /\ m \in Nat /\ NrBuckets(current) = m
    BY <1>5, PowerFacts, NrBucketsOf DEF Sizes
  <1>7. Sizes(m, h, k)'
    BY <1>1, <1>2, <1>5, <1>6 DEF Sizes, Expanding
  <1>8. iHalf = 0 /\ Loops(h)'
    <2>1. iHalf = 0
      BY <1>1, <1>5 DEF Loops
    <2>2. wpc' = "shrink" => 0 < h
      BY <1>1, <1>5, <1>6, Twins DEF Sizes
    <2>3. QED
      BY <1>1, <2>1, <2>2 DEF Loops
  <1>9. Plain(rank, m)
    <2>1. wpc \in PlainPC
      BY <1>1 DEF PlainPC
    <2>2. QED
      BY <1>3, <1>5, <2>1, PlainChains
  <1>10. Plain(rank, m)'
    <2>1. \A b : In(m, b)' = In(m, b)
      BY <1>2 DEF In
    <2>2. Published(rank, m)'
      BY <1>2, <1>9, <2>1 DEF Plain, Published
    <2>3. \A n \in members' : LinkedIn(rank, In(m, BucketOf(n, m)), n)'
      BY <1>2, <1>9, <2>1 DEF Plain, LinkedIn
    <2>4. QED
      BY <1>2, <1>9, <2>2, <2>3 DEF Plain
  <1>11. Chains(rank, m, h, k)'
    <2>1. OldHeadsJoined(rank, k)' /\ (wpc' \in PlainPC \/ (wpc' = "shrink" /\ iHalf' = 0))
      BY <1>1, <1>8 DEF PlainPC, OldHeadsJoined
    <2>2. members' \in SUBSET Nodes
      BY <1>4 DEF VarTypes
    <2>3. QED
      BY <1>7, <1>10, <2>1, <2>2, ChainsOfPlain
  <1>12. TableInv'
    BY <1>7, <1>8, <1>11 DEF TableInv
  <1>13. WriterInv'
    BY <1>1, <1>2, <1>3 DEF WriterInv, zoneVars
  <1>14. ReadersInv'
    BY <1>1, <1>2, <1>3, ReadersStay
  <1>15. QED
    BY <1>4, <1>12, <1>13, <1>14 DEF IInv
-----------------------------------------------------------------------------
(* Insertions.                                                              *)

\* There is a rank below all others.
LEMMA RankBelow ==
  ASSUME NEW S \in SUBSET Nodes, NEW rank \in [Nodes -> Int], NEW n \in Nodes
  PROVE  \E r \in Int : \A x \in S : r < rank[x]
  <1>1. IsFiniteSet(S)
    BY TableAssumption, FS_Subset
  <1>2. CASE S = {}
    <2>1. 0 \in Int
      OBVIOUS
    <2>2. QED
      BY <1>2, <2>1
  <1>3. CASE S # {}
    <2>1. PICK low \in S : \A x \in S : rank[low] <= rank[x]
      BY <1>1, <1>3, LeastRank
    <2>2. /\ rank[low] - 1 \in Int
          /\ \A x \in S : rank[low] - 1 < rank[x]
      BY <2>1
    <2>3. QED
      BY <2>2
  <1>4. QED
    BY <1>2, <1>3

LEMMA PrependPlain ==
  ASSUME VarTypes, NEW rank, NEW m \in Powers, Plain(rank, m),
         buckets[current] \in Heads(m), NEW n \in Nodes \ members, Prepend(n)
  PROVE  /\ buckets'[current'] \in Heads(m) /\ buckets'[other'] = buckets[other]
         /\ DOMAIN buckets' = Arrays
         /\ NextType'
         /\ \E rank1 : Plain(rank1, m)'
  <1> DEFINE b == BucketOf(n, m)
             p == buckets[current][b]
  <1>1. /\ NULL \notin Nodes /\ members \subseteq Nodes /\ NextType
        /\ current \in Arrays /\ DOMAIN buckets = Arrays
    BY TableAssumption DEF VarTypes
  <1>2. m \in Nat /\ NrBuckets(current) = m /\ DOMAIN buckets[current] = 0 .. m - 1
    BY PowerFacts, NrBucketsOf
  <1>3. BucketOfKey(Key[n]) = b /\ b \in 0 .. m - 1
    BY <1>2, BucketFacts DEF BucketOfKey, BucketOf
  <1>4. /\ next' = [next EXCEPT ![n] = p]
        /\ buckets' = [buckets EXCEPT ![current][b] = n]
        /\ members' = members \cup {n}
        /\ current' = current
    BY <1>3 DEF Prepend, ContentBecomes
  <1>5. p \in Nodes \cup {NULL}
    BY <1>3 DEF Heads
  <1> HIDE DEF b, p
  <1>6. other \in Arrays /\ other # current /\ other' = other
    BY <1>1, <1>4 DEF other, Arrays
  <1>7. /\ \A c \in 0 .. m - 1 : buckets'[current][c] = IF c = b THEN n ELSE buckets[current][c]
        /\ buckets'[current] \in Heads(m)
        /\ buckets'[other] = buckets[other] /\ DOMAIN buckets' = Arrays
    BY <1>1, <1>2, <1>3, <1>4, <1>6 DEF Heads
  <1>8. /\ NextType' /\ next'[n] = p
        /\ \A x \in members : next'[x] = next[x]
    BY <1>1, <1>4, <1>5 DEF NextType
  <1>9. PICK r \in Int : \A x \in members : r < rank[x]
    BY <1>1, RankBelow DEF Plain
  <1>10. PICK rank1 : rank1 = [rank EXCEPT ![n] = r]
    OBVIOUS
  <1>11. /\ rank1 \in [Nodes -> Int] /\ rank1[n] = r
         /\ \A x \in members : rank1[x] = rank[x]
    BY <1>1, <1>9, <1>10 DEF Plain
  <1>12. Ranked(rank1, members')
    BY <1>4, <1>9, <1>11 DEF Plain, Ranked
  <1>13. /\ \A c : c # b => In(m, c)' = In(m, c)
         /\ In(m, b)' = In(m, b) \cup {n}
    BY <1>4 DEF In, b
  <1>14. \A c : In(m, c) \subseteq members
    BY DEF In
  <1>15. ASSUME NEW x \in members
         PROVE  LinkedIn(rank1, In(m, BucketOf(x, m)), x)'
    <2>1. LinkedIn(rank, In(m, BucketOf(x, m)), x)
      BY DEF Plain
    <2>2. CASE BucketOf(x, m) # b
      BY <1>8, <1>11, <1>13, <1>14, <2>1, <2>2
      DEF LinkedIn, IsSuccessor, IsGreatest
    <2>3. CASE BucketOf(x, m) = b
      <3>1. IsSuccessor(rank, In(m, b), x, next[x]) => IsSuccessor(rank1, In(m, b) \cup {n}, x, next[x])
        <4>1. rank1[n] < rank1[x] /\ rank1[n] \in Int /\ rank1[x] \in Int
          BY <1>1, <1>9, <1>11
        <4>2. QED
          BY <1>11, <1>14, <4>1 DEF IsSuccessor
      <3>2. IsGreatest(rank, In(m, b), x) => IsGreatest(rank1, In(m, b) \cup {n}, x)
        <4>1. rank1[n] <= rank1[x]
          BY <1>1, <1>9, <1>11
        <4>2. QED
          BY <1>11, <1>14, <4>1 DEF IsGreatest
      <3>3. QED
        BY <1>8, <1>13, <2>1, <2>3, <3>1, <3>2 DEF LinkedIn
    <2>4. QED
      BY <2>2, <2>3
  <1>16. LinkedIn(rank1, In(m, b), n)'
    <2>1. IsFirst(rank, In(m, b), p)
      BY <1>3 DEF Plain, Published, p
    <2>2. CASE In(m, b) = {}
      BY <1>8, <1>11, <1>13, <2>1, <2>2 DEF LinkedIn, IsFirst, IsGreatest
    <2>3. CASE In(m, b) # {}
      <3>1. p \in In(m, b) /\ \A x \in In(m, b) : rank1[p] <= rank1[x]
        BY <1>11, <1>14, <2>1, <2>3 DEF IsFirst
      <3>2. rank1[n] < rank1[p]
        BY <1>9, <1>11, <1>14, <3>1
      <3>3. \A x \in In(m, b) \cup {n} : rank1[n] < rank1[x] => rank1[p] <= rank1[x]
        BY <1>11, <3>1
      <3>4. IsSuccessor(rank1, In(m, b) \cup {n}, n, p)
        BY <3>1, <3>2, <3>3 DEF IsSuccessor
      <3>5. QED
        BY <1>8, <1>13, <3>4 DEF LinkedIn
    <2>4. QED
      BY <2>2, <2>3
  <1>17. Published(rank1, m)'
    <2>1. ASSUME NEW c \in 0 .. m - 1 PROVE IsFirst(rank1, In(m, c)', buckets'[current'][c])
      <3>1. IsFirst(rank, In(m, c), buckets[current][c])
        BY DEF Plain, Published
      <3>2. CASE c # b
        BY <1>4, <1>7, <1>11, <1>13, <1>14, <3>1, <3>2 DEF IsFirst
      <3>3. CASE c = b
        <4>1. \A x \in In(m, b) : rank1[n] <= rank1[x]
          BY <1>1, <1>9, <1>11, <1>14
        <4>2. QED
          BY <1>4, <1>7, <1>11, <1>13, <3>3, <4>1 DEF IsFirst
      <3>4. QED
        BY <3>2, <3>3
    <2>2. QED
      BY <2>1 DEF Published
  <1>18. Plain(rank1, m)'
    <2>1. \A x \in members' : LinkedIn(rank1, In(m, BucketOf(x, m)), x)'
      BY <1>4, <1>15, <1>16 DEF b
    <2>2. QED
      BY <1>11, <1>12, <1>17, <2>1 DEF Plain
  <1>19. QED
    BY <1>4, <1>6, <1>7, <1>8, <1>18
\* The lookups' answers, whatever the content becomes.
LEMMA AnswersType ==
  ASSUME VarTypes, NEW S \in SUBSET Nodes, ContentBecomes(S)
  PROVE  answers' \in [Readers -> SUBSET (Nodes \cup {NULL})]
  <1>1. \A k : NodeOf(S, k) \in Nodes \cup {NULL}
    BY DEF NodeOf
  <1>2. \A r \in Readers : answers[r] \subseteq Nodes \cup {NULL}
    BY DEF VarTypes, ReadersTypes
  <1>3. QED
    BY <1>1, <1>2 DEF ContentBecomes

LEMMA InsertStep ==
  ASSUME IInv, NEW n \in Nodes, TryInsertNoExpand(n) \/ TryInsert(n)
  PROVE  IInv'
  <1>1. /\ wpc = "idle" /\ wpc' \in {"idle", "expand"}
        /\ wpc' = "expand" => NrBuckets(current) < MaxBuckets
        /\ UNCHANGED <<zoneVars, readerVars>>
        /\ MayInsert(n) /\ Prepend(n)
    BY DEF TryInsertNoExpand, TryInsert, Writer
  <1>2. /\ n \notin members /\ n \notin limbo /\ size < MaxInserts
        /\ members' = members \cup {n} /\ size' = size + 1 /\ ContentBecomes(members \cup {n})
        /\ UNCHANGED <<current, limbo, iHalf, allFinished, releases>>
        /\ next' = [next EXCEPT ![n] = buckets[current][BucketOfKey(Key[n])]]
    BY <1>1 DEF MayInsert, Prepend, ContentBecomes
  <1>3. VarTypes /\ WriterInv /\ ~releases /\ writer \notin syncing
    BY <1>1 DEF IInv, WriterInv, Continuation
  <1>4. PICK rank, m, h, k : Sizes(m, h, k) /\ Loops(h) /\ Chains(rank, m, h, k)
    BY DEF IInv, TableInv
  <1>5. m \in Powers /\ m \in Nat /\ NrBuckets(current) = m /\ buckets[current] \in Heads(m)
    BY <1>4, PowerFacts, NrBucketsOf DEF Sizes
  <1>6. Plain(rank, m)
    <2>1. wpc \in PlainPC
      BY <1>1 DEF PlainPC
    <2>2. QED
      BY <1>3, <1>4, <2>1, PlainChains
  <1>7. /\ buckets'[current'] \in Heads(m) /\ buckets'[other'] = buckets[other]
        /\ DOMAIN buckets' = Arrays /\ NextType'
        /\ \E rank1 : Plain(rank1, m)'
    BY <1>1, <1>2, <1>3, <1>5, <1>6, PrependPlain
  <1>8. VarTypes'
    <2>1. answers' \in [Readers -> SUBSET (Nodes \cup {NULL})]
      BY <1>2, <1>3, AnswersType DEF VarTypes
    <2>2. size' \in 0 .. MaxInserts
      BY <1>2, <1>3, TableAssumption DEF VarTypes
    <2>3. wpc' \in WriterPC
      BY <1>1 DEF WriterPC
    <2>4. ReadersTypes'
      BY <1>1, <1>3, <2>1 DEF VarTypes, ReadersTypes, Zone!TypeOK, zoneVars, readerVars
    <2>5. QED
      BY <1>2, <1>3, <1>7, <2>2, <2>3, <2>4 DEF VarTypes
  <1>9. Sizes(m, h, k)'
    BY <1>1, <1>4, <1>5, <1>7 DEF Sizes, Expanding
  <1>10. Loops(h)'
    BY <1>1, <1>2, <1>4 DEF Loops
  <1>11. TableInv'
    <2>1. PICK rank1 : Plain(rank1, m)'
      BY <1>7
    <2>2. OldHeadsJoined(rank1, k)' /\ wpc' \in PlainPC /\ members' \in SUBSET Nodes
      BY <1>1, <1>8 DEF PlainPC, OldHeadsJoined, VarTypes
    <2>3. Chains(rank1, m, h, k)'
      BY <1>9, <2>1, <2>2, ChainsOfPlain
    <2>4. QED
      BY <1>9, <1>10, <2>3 DEF TableInv
  <1>12. WriterInv'
    <2>1. \A x \in limbo : next'[x] = next[x]
      BY <1>2, <1>3 DEF VarTypes, NextType
    <2>2. QED
      BY <1>1, <1>2, <1>3, <2>1 DEF WriterInv, zoneVars
  <1>13. ReadersInv'
    BY <1>1, <1>2, <1>3, ReadersStay
  <1>14. QED
    BY <1>8, <1>11, <1>12, <1>13 DEF IInv

-----------------------------------------------------------------------------
(* Removals.                                                                *)

\* Match finds a member on the chain of its key.
LEMMA MatchIsMember ==
  ASSUME VarTypes, NEW rank, NEW m \in Powers, Plain(rank, m),
         buckets[current] \in Heads(m), NEW key \in Keys, Match(key) # NULL
  PROVE  Match(key) \in members /\ Key[Match(key)] = key
  <1> DEFINE b == BucketOfKey(key)
             p == buckets[current][b]
             S == In(m, b)
  <1>1. m \in Nat /\ m # 0 /\ NrBuckets(current) = m
    BY PowerFacts, NrBucketsOf
  <1>2. b \in 0 .. m - 1
    BY <1>1, TwinBuckets, TableAssumption DEF BucketOfKey
  <1>3. IsFirst(rank, S, p)
    BY <1>2 DEF Plain, Published
  <1>4. p # NULL
    BY ChainOfNULL DEF Match, SelectInSeq, VarTypes
  <1>5. p \in S /\ S \in SUBSET Nodes /\ S \subseteq members
    BY <1>3, <1>4 DEF IsFirst, In, VarTypes
  <1>6. Ranked(rank, S) /\ Chained(rank, S)
    BY <1>5 DEF Plain, Ranked, Chained, In
  <1> DEFINE q == Match(key)
  <1> HIDE DEF S, p, b
  <1>7. NextType /\ Lists(Chain(p), rank, S, p)
    BY <1>5, <1>6, ChainLists DEF VarTypes
  <1>8. p = buckets[current][BucketOfKey(key)]
    BY DEF p, b
  <1>9. q \in S /\ Key[q] = key
    <2>1. q = Match(key)
      BY DEF q
    <2> HIDE DEF q
    <2>2. q # NULL
      BY <2>1
    <2>3. QED
      BY <1>5, <1>6, <1>7, <1>8, <2>1, <2>2, MatchFirst
  <1>10. QED
    BY <1>5, <1>9
\* Taking n, or the link to n, out of the chain of S.
LEMMA WithoutNode ==
  ASSUME NEW S \in SUBSET Nodes, NEW rank, Ranked(rank, S), Chained(rank, S),
         NULL \notin Nodes, NEW n \in S,
         NEW x \in S \ {n}, next[x] # n
  PROVE  LinkedIn(rank, S \ {n}, x)
  <1>1. LinkedIn(rank, S, x)
    BY DEF Chained
  <1>2. CASE IsSuccessor(rank, S, x, next[x])
    BY <1>2 DEF LinkedIn, IsSuccessor
  <1>3. CASE next[x] = NULL /\ IsGreatest(rank, S, x)
    BY <1>3 DEF LinkedIn, IsGreatest
  <1>4. QED
    BY <1>1, <1>2, <1>3 DEF LinkedIn

\* A node has one predecessor, and the first node of a chain has none.
LEMMA OnePredecessor ==
  ASSUME NEW S \in SUBSET Nodes, NEW rank, Ranked(rank, S), Chained(rank, S),
         NULL \notin Nodes, NEW n \in S, NEW d \in S, next[d] = n
  PROVE  /\ rank[d] < rank[n] /\ d # n
         /\ \A x \in S : next[x] = n => x = d
  <1>1. \A x \in S : next[x] = n => IsSuccessor(rank, S, x, n)
    BY DEF Chained, LinkedIn
  <1>2. \A x \in S : next[x] = n => rank[x] < rank[n] /\ rank[x] \in Int
    BY <1>1 DEF IsSuccessor, Ranked
  <1>3. ASSUME NEW x \in S, next[x] = n PROVE x = d
    <2>1. rank[x] \in Int /\ rank[d] \in Int /\ rank[n] \in Int
      BY DEF Ranked
    <2>2. ~(rank[x] < rank[d])
      BY <1>1, <1>2, <1>3, <2>1 DEF IsSuccessor
    <2>3. ~(rank[d] < rank[x])
      BY <1>1, <1>2, <1>3, <2>1 DEF IsSuccessor
    <2>4. rank[x] = rank[d]
      BY <2>1, <2>2, <2>3
    <2>5. QED
      BY <2>4 DEF Ranked
  <1>4. rank[n] \in Int
    BY DEF Ranked
  <1>5. QED
    BY <1>2, <1>3, <1>4

LEMMA UnlinkPlain ==
  ASSUME VarTypes, NEW rank, NEW m \in Powers, Plain(rank, m),
         buckets[current] \in Heads(m), NEW n \in members, Unlink(n)
  PROVE  /\ buckets'[current'] \in Heads(m) /\ buckets'[other'] = buckets[other]
         /\ DOMAIN buckets' = Arrays
         /\ NextType'
         /\ \A x \in Nodes \ members : next'[x] = next[x]
         /\ next'[n] = next[n]
         /\ \A x \in Nodes : next'[x] = next[x] \/ (next[x] = n /\ next'[x] = next[n])
         /\ Plain(rank, m)'
  <1> DEFINE b == BucketOf(n, m)
             p == buckets[current][b]
             S == In(m, b)
             i == PlaceOf(n, p)
             d == Chain(p)[i - 1]
  <1>1. /\ NULL \notin Nodes /\ members \subseteq Nodes /\ NextType
        /\ current \in Arrays /\ DOMAIN buckets = Arrays
    BY TableAssumption DEF VarTypes
  <1>2. m \in Nat /\ NrBuckets(current) = m /\ DOMAIN buckets[current] = 0 .. m - 1
    BY PowerFacts, NrBucketsOf
  <1>3. BucketOfKey(Key[n]) = b /\ b \in 0 .. m - 1
    BY <1>1, <1>2, BucketFacts DEF BucketOfKey, BucketOf
  <1>4. /\ IF i = 1
           THEN /\ buckets' = [buckets EXCEPT ![current][b] = next[n]]
                /\ UNCHANGED next
           ELSE /\ next' = [next EXCEPT ![d] = next[n]]
                /\ UNCHANGED buckets
        /\ members' = members \ {n}
        /\ current' = current
    BY <1>3 DEF Unlink, ContentBecomes, PlaceOf
  <1>5. /\ S \in SUBSET Nodes /\ S \subseteq members /\ n \in S
        /\ Ranked(rank, S) /\ Chained(rank, S)
    BY <1>1 DEF Plain, Ranked, Chained, In
  <1>6. p \in S /\ \A x \in S : rank[p] <= rank[x]
    BY <1>3, <1>5 DEF Plain, Published, IsFirst
  <1>7. Lists(Chain(p), rank, S, p)
    <2> HIDE DEF S, p
    <2>1. QED
      BY <1>1, <1>5, <1>6, ChainLists
  <1>8. IF i = 1 THEN n = p ELSE d \in S /\ next[d] = n
    <2> HIDE DEF S, p
    <2>1. QED
      BY <1>5, <1>6, <1>7, PlaceOfNode
  <1>9. next[n] \in Nodes \cup {NULL} /\ LinkedIn(rank, S, n)
    BY <1>1, <1>5 DEF NextType, Chained
  <1> HIDE DEF b, p, i, d
  <1>10. other \in Arrays /\ other # current /\ other' = other
    BY <1>1, <1>4 DEF other, Arrays
  <1>11. /\ \A c : c # b => In(m, c)' = In(m, c) /\ In(m, c) \cap S = {}
         /\ In(m, b)' = S \ {n}
    BY <1>4 DEF In, b
  <1>12. \A x \in S, y \in S : rank[x] = rank[y] => x = y
    BY <1>5 DEF Ranked
  <1> HIDE DEF S
  <1>13. Ranked(rank, members') /\ rank \in [Nodes -> Int]
    BY <1>4 DEF Plain, Ranked
  <1>14. CASE i = 1
    <2>1. n = p /\ next' = next
      BY <1>4, <1>8, <1>14
    <2>2. /\ \A c \in 0 .. m - 1 :
               buckets'[current][c] = IF c = b THEN next[n] ELSE buckets[current][c]
          /\ buckets'[current] \in Heads(m)
          /\ buckets'[other] = buckets[other] /\ DOMAIN buckets' = Arrays
      BY <1>1, <1>2, <1>3, <1>4, <1>9, <1>10, <1>14 DEF Heads
    <2>3. ASSUME NEW x \in S PROVE next[x] # n
      <3>1. next[x] = n => IsSuccessor(rank, S, x, n)
        BY <1>1, <1>5 DEF Chained, LinkedIn
      <3>2. rank[n] <= rank[x] /\ rank[n] \in Int /\ rank[x] \in Int
        BY <1>5, <1>6, <2>1 DEF Ranked
      <3>3. QED
        BY <3>1, <3>2 DEF IsSuccessor
    <2>4. \A x \in S \ {n} : LinkedIn(rank, S \ {n}, x)
      BY <1>1, <1>5, <2>3, WithoutNode
    <2>5. IsFirst(rank, S \ {n}, next[n])
      <3>1. CASE IsSuccessor(rank, S, n, next[n])
        <4>1. next[n] \in S \ {n}
          BY <1>5, <2>3, <3>1 DEF IsSuccessor
        <4>2. \A x \in S \ {n} : rank[n] < rank[x]
          <5>1. \A x \in S : rank[n] \in Int /\ rank[x] \in Int /\ rank[n] <= rank[x]
            BY <1>5, <1>6, <2>1 DEF Ranked
          <5>2. QED
            BY <1>5, <1>12, <5>1
        <4>3. QED
          BY <3>1, <4>1, <4>2 DEF IsSuccessor, IsFirst
      <3>2. CASE next[n] = NULL /\ IsGreatest(rank, S, n)
        <4>1. \A x \in S : rank[n] \in Int /\ rank[x] \in Int /\ rank[n] <= rank[x] /\ rank[x] <= rank[n]
          BY <1>5, <1>6, <2>1, <3>2 DEF Ranked, IsGreatest
        <4>2. S \ {n} = {}
          BY <1>5, <1>12, <4>1
        <4>3. QED
          BY <3>2, <4>2 DEF IsFirst
      <3>3. QED
        BY <1>9, <3>1, <3>2 DEF LinkedIn
    <2>6. Published(rank, m)'
      BY <1>4, <1>11, <2>2, <2>5 DEF Plain, Published
    <2>7. \A x \in members' : LinkedIn(rank, In(m, BucketOf(x, m)), x)'
      <3>1. ASSUME NEW x \in members, x # n
            PROVE  LinkedIn(rank, In(m, BucketOf(x, m))', x)
        <4>1. LinkedIn(rank, In(m, BucketOf(x, m)), x)
          BY DEF Plain
        <4>2. BucketOf(x, m) = b => x \in S
          BY DEF S, In
        <4>3. QED
          BY <1>11, <2>4, <3>1, <4>1, <4>2
      <3>2. QED
        BY <1>4, <2>1, <3>1 DEF LinkedIn
    <2>8. QED
      BY <1>1, <1>4, <1>10, <1>13, <2>1, <2>2, <2>6, <2>7 DEF Plain, NextType
  <1>15. CASE i # 1
    <2>1. d \in S /\ next[d] = n /\ d # n /\ rank[d] < rank[n] /\ \A x \in S : next[x] = n => x = d
      BY <1>1, <1>5, <1>8, <1>15, OnePredecessor
    <2>2. next' = [next EXCEPT ![d] = next[n]] /\ buckets' = buckets
      BY <1>4, <1>15
    <2>3. NextType' /\ next'[d] = next[n] /\ \A x \in Nodes : x # d => next'[x] = next[x]
      BY <1>1, <1>5, <1>9, <2>1, <2>2 DEF NextType
    <2>4. IsSuccessor(rank, S, d, n)
      BY <1>1, <1>5, <2>1 DEF Chained, LinkedIn
    <2>5. \/ IsSuccessor(rank, S \ {n}, d, next'[d])
          \/ next'[d] = NULL /\ IsGreatest(rank, S \ {n}, d)
      <3>1. \A x \in S : rank[x] \in Int
        BY <1>5 DEF Ranked
      <3>2. CASE IsSuccessor(rank, S, n, next[n])
        <4>1. next[n] \in S \ {n}
          BY <1>5, <3>1, <3>2 DEF IsSuccessor
        <4>2. rank[d] < rank[next[n]]
          BY <1>5, <2>1, <3>1, <3>2, <4>1 DEF IsSuccessor
        <4>3. \A x \in S \ {n} : rank[d] < rank[x] => rank[n] < rank[x]
          BY <1>5, <1>12, <2>1, <2>4, <3>1 DEF IsSuccessor
        <4>4. IsSuccessor(rank, S \ {n}, d, next[n])
          BY <3>2, <4>1, <4>2, <4>3 DEF IsSuccessor
        <4>5. QED
          BY <2>3, <4>4
      <3>3. CASE next[n] = NULL /\ IsGreatest(rank, S, n)
        <4>1. \A x \in S \ {n} : ~(rank[d] < rank[x])
          BY <1>5, <1>12, <2>1, <2>4, <3>1, <3>3 DEF IsSuccessor, IsGreatest
        <4>2. IsGreatest(rank, S \ {n}, d)
          BY <2>1, <3>1, <4>1 DEF IsGreatest
        <4>3. QED
          BY <2>3, <3>3, <4>2
      <3>4. QED
        BY <1>9, <3>2, <3>3 DEF LinkedIn
    <2>6. \A x \in S \ {n} : x # d => LinkedIn(rank, S \ {n}, x)
      BY <1>1, <1>5, <2>1, WithoutNode
    <2>7. \A x \in members' : LinkedIn(rank, In(m, BucketOf(x, m)), x)'
      <3>1. ASSUME NEW x \in members, x # n, x # d
            PROVE  LinkedIn(rank, In(m, BucketOf(x, m))', x)
        <4>1. LinkedIn(rank, In(m, BucketOf(x, m)), x)
          BY DEF Plain
        <4>2. BucketOf(x, m) = b => x \in S
          BY DEF S, In
        <4>3. QED
          BY <1>11, <2>6, <3>1, <4>1, <4>2
      <3>2. ASSUME NEW x \in members, x # n, x # d
            PROVE  LinkedIn(rank, In(m, BucketOf(x, m)), x)'
        BY <1>1, <2>3, <3>1, <3>2 DEF LinkedIn
      <3>3. BucketOf(d, m) = b
        BY <2>1 DEF S, In
      <3>4. QED
        BY <1>4, <1>11, <2>5, <3>2, <3>3 DEF LinkedIn
    <2>8. Published(rank, m)'
      <3>1. p # n
        <4>1. rank[p] <= rank[d] /\ rank[p] \in Int /\ rank[d] \in Int /\ rank[n] \in Int
          BY <1>5, <1>6, <2>1 DEF Ranked
        <4>2. QED
          BY <2>1, <4>1
      <3>2. IsFirst(rank, S \ {n}, p)
        BY <1>6, <3>1 DEF IsFirst
      <3>3. \A c \in 0 .. m - 1 : IsFirst(rank, In(m, c)', buckets[current][c])
        <4>1. SUFFICES ASSUME NEW c \in 0 .. m - 1
                       PROVE  IsFirst(rank, In(m, c)', buckets[current][c])
          OBVIOUS
        <4>2. CASE c = b
          BY <1>11, <3>2, <4>2 DEF p
        <4>3. CASE c # b
          BY <1>11, <4>3 DEF Plain, Published
        <4>4. QED
          BY <4>2, <4>3
      <3>4. QED
        BY <1>4, <2>2, <3>3 DEF Published
    <2>9. \A x \in Nodes \ members : next'[x] = next[x]
      BY <1>5, <2>1, <2>3
    <2>10. next'[n] = next[n]
      BY <1>1, <2>1, <2>3
    <2>11. \A x \in Nodes : next'[x] = next[x] \/ (next[x] = n /\ next'[x] = next[n])
      BY <2>1, <2>3
    <2>12. QED
      BY <1>1, <1>4, <1>10, <1>13, <2>2, <2>3, <2>7, <2>8, <2>9, <2>10, <2>11 DEF Plain
  <1>16. QED
    BY <1>14, <1>15
LEMMA DetachStep ==
  ASSUME IInv, NEW key \in Keys,
         \/ TryDetachNoShrink(key) \/ TryDetachAutoShrink(key)
         \/ TryDetachAndSynchronize(key)
  PROVE  IInv'
  <1> DEFINE n == Match(key)
  <1>1. /\ wpc = "idle" /\ wpc' \in {"idle", "shrink", "sync"}
        /\ wpc' = "shrink" => NrBuckets(current) > 1
        /\ releases' \in {releases, Shrinks, TRUE}
        /\ releases' => wpc' \in {"shrink", "sync"} \/ releases
        /\ UNCHANGED <<zoneVars, readerVars>>
        /\ n # NULL /\ Unlink(n)
    <2>1. CASE TryDetachNoShrink(key)
      BY <2>1 DEF TryDetachNoShrink, Writer
    <2>2. CASE TryDetachAutoShrink(key)
      BY <2>2 DEF TryDetachAutoShrink, Writer, Shrinks
    <2>3. CASE TryDetachAndSynchronize(key)
      BY <2>3 DEF TryDetachAndSynchronize, Writer, Shrinks
    <2>4. QED
      BY <2>1, <2>2, <2>3
  <1> HIDE DEF n
  <1>2. /\ members' = members \ {n} /\ limbo' = limbo \cup {n}
        /\ ContentBecomes(members \ {n})
        /\ UNCHANGED <<current, size, iHalf, allFinished>>
    BY <1>1 DEF Unlink, ContentBecomes
  <1>3. VarTypes /\ WriterInv /\ ~releases /\ writer \notin syncing
    BY <1>1 DEF IInv, WriterInv, Continuation
  <1>4. PICK rank, m, h, k : Sizes(m, h, k) /\ Loops(h) /\ Chains(rank, m, h, k)
    BY DEF IInv, TableInv
  <1>5. m \in Powers /\ m \in Nat /\ NrBuckets(current) = m /\ buckets[current] \in Heads(m)
    BY <1>4, PowerFacts, NrBucketsOf DEF Sizes
  <1>6. Plain(rank, m)
    <2>1. wpc \in PlainPC
      BY <1>1 DEF PlainPC
    <2>2. QED
      BY <1>3, <1>4, <2>1, PlainChains
  <1>7. n \in members
    BY <1>1, <1>3, <1>5, <1>6, MatchIsMember DEF n
  <1>8. /\ buckets'[current'] \in Heads(m) /\ buckets'[other'] = buckets[other]
        /\ DOMAIN buckets' = Arrays /\ NextType'
        /\ \A x \in Nodes \ members : next'[x] = next[x]
        /\ next'[n] = next[n]
        /\ Plain(rank, m)'
    BY <1>1, <1>3, <1>5, <1>6, <1>7, UnlinkPlain
  <1>9. VarTypes'
    <2>1. answers' \in [Readers -> SUBSET (Nodes \cup {NULL})]
      BY <1>2, <1>3, AnswersType DEF VarTypes
    <2>2. wpc' \in WriterPC
      BY <1>1 DEF WriterPC
    <2>3. releases' \in BOOLEAN
      <3>1. Shrinks \in BOOLEAN
        BY DEF Shrinks
      <3>2. QED
        BY <1>1, <1>3, <3>1 DEF VarTypes
    <2>4. ReadersTypes'
      BY <1>1, <1>3, <2>1 DEF VarTypes, ReadersTypes, Zone!TypeOK, zoneVars, readerVars
    <2>5. QED
      BY <1>2, <1>3, <1>7, <1>8, <2>2, <2>3, <2>4 DEF VarTypes
  <1>10. Sizes(m, h, k)'
    BY <1>1, <1>4, <1>5, <1>8 DEF Sizes, Expanding
  <1>11. iHalf = 0 /\ Loops(h)'
    <2>1. iHalf = 0
      BY <1>1, <1>4 DEF Loops
    <2>2. wpc' = "shrink" => 0 < h
      BY <1>1, <1>4, <1>5, Twins DEF Sizes
    <2>3. QED
      BY <1>1, <1>2, <2>1, <2>2 DEF Loops
  <1>12. TableInv'
    <2>1. OldHeadsJoined(rank, k)' /\ (wpc' \in PlainPC \/ (wpc' = "shrink" /\ iHalf' = 0))
      BY <1>1, <1>2, <1>11 DEF PlainPC, OldHeadsJoined
    <2>2. members' \in SUBSET Nodes
      BY <1>9 DEF VarTypes
    <2>3. Chains(rank, m, h, k)'
      BY <1>8, <1>10, <2>1, <2>2, ChainsOfPlain
    <2>4. QED
      BY <1>10, <1>11, <2>3 DEF TableInv
  <1>13. WriterInv'
    <2>1. \A x \in limbo' : next'[x] \in members' \cup limbo' \cup {NULL}
      <3>1. next[n] \in members \cup {NULL}
        BY <1>7, NextOfMember DEF IInv
      <3>2. limbo \cap members = {} /\ limbo \subseteq Nodes
        BY <1>3 DEF VarTypes
      <3>3. QED
        BY <1>2, <1>3, <1>8, <3>1, <3>2 DEF WriterInv
    <2>2. writer \notin syncing'
      BY <1>1, <1>3 DEF zoneVars
    <2>3. releases' => wpc' \in {"shrink", "publish", "shrunk", "free", "sync"}
      BY <1>1, <1>3
    <2>4. QED
      BY <2>1, <2>2, <2>3 DEF WriterInv
  <1>14. ReadersInv'
    <2>1. members \cup limbo \subseteq members' \cup limbo'
      BY <1>2
    <2>2. QED
      BY <1>1, <1>2, <1>3, <2>1, ReadersStay
  <1>15. QED
    BY <1>9, <1>12, <1>13, <1>14 DEF IInv
-----------------------------------------------------------------------------
(* Grace periods.                                                           *)

LEMMA SyncStartStep ==
  ASSUME IInv, SyncStart
  PROVE  IInv'
  <1>1. /\ wpc \in DOMAIN Continuation /\ writer \notin syncing
        /\ syncing' = syncing \cup {writer}
        /\ waiting' = [waiting EXCEPT ![writer] = inside]
        /\ inside' = inside
        /\ UNCHANGED <<tableVars, writerVars, readerVars, answers>>
    BY DEF SyncStart, Zone!SyncStart
  <1>2. UNCHANGED <<next, buckets, current, size, members, limbo>>
    BY <1>1 DEF tableVars
  <1>3. UNCHANGED <<wpc, iHalf, allFinished, releases>>
    BY <1>1 DEF writerVars
  <1>4. UNCHANGED <<rpc, target, array, pos, held>>
    BY <1>1 DEF readerVars
  <1>5. VarTypes /\ inside \subseteq Readers /\ waiting \in [{writer} -> SUBSET Readers]
    BY DEF IInv, VarTypes, ReadersTypes, Zone!TypeOK
  <1>6. waiting'[writer] = inside /\ writer \in syncing'
    BY <1>1, <1>5
  <1>7. TableInv'
    BY <1>2, <1>3, TableUnchanged DEF IInv
  <1>8. VarTypes'
    BY <1>1, <1>2, <1>3, <1>4, <1>5 DEF VarTypes, ReadersTypes, Zone!TypeOK, NextType
  <1>9. WriterInv'
    BY <1>1, <1>2, <1>3 DEF IInv, WriterInv
  <1>10. ASSUME NEW r \in Readers PROVE ReaderInv(r)'
    <2>1. ReaderInv(r)
      BY DEF IInv, ReadersInv
    <2>2. Uses(r)' = Uses(r)
      BY <1>4 DEF Uses
    <2>3. Fresh(r)' => Uses(r) \subseteq members
      <3>1. r \notin inside => Uses(r) = {}
        BY <2>1 DEF ReaderInv, Uses
      <3>2. CASE wpc = "free"
        BY <1>1, <3>2 DEF Continuation
      <3>3. CASE wpc # "free"
        BY <1>3, <1>6, <3>1, <3>3 DEF Fresh
      <3>4. QED
        BY <3>2, <3>3
    <2>4. QED
      BY <1>1, <1>2, <1>3, <1>4, <1>6, <2>1, <2>2, <2>3 DEF ReaderInv
  <1>11. QED
    BY <1>7, <1>8, <1>9, <1>10 DEF IInv, ReadersInv

\* Where chains and cuts stay as they are.
LEMMA LinksStay ==
  ASSUME NEW rank, NEW m, NEW h, Links(rank, m, h), members' = members,
         \A n \in members : next'[n] = next[n] /\ Joined(rank, h, n)' = Joined(rank, h, n)
  PROVE  Links(rank, m, h)'
  <1>1. \A c, b : In(c, b)' = In(c, b)
    BY DEF In
  <1>2. ASSUME NEW n \in members PROVE LinkedIn(rank, Peers(rank, m, h, n), n)'
    <2>1. Peers(rank, m, h, n)' = Peers(rank, m, h, n)
      BY <1>1 DEF Peers
    <2>2. LinkedIn(rank, Peers(rank, m, h, n), n)
      BY DEF Links
    <2>3. QED
      BY <2>1, <2>2 DEF LinkedIn
  <1>3. QED
    BY <1>2 DEF Links

LEMMA SyncEndTable ==
  ASSUME IInv, SyncEnd
  PROVE  TableInv'
  <1>1. /\ wpc \in {"published", "passed", "shrunk", "sync"}
        /\ wpc' = CASE wpc = "published" -> "starts" [] wpc = "passed" -> "unzip"
                    [] wpc = "shrunk" -> "free" [] wpc = "sync" -> "idle"
        /\ GiveBackIf(wpc = "sync")
        /\ iHalf' = 0 /\ allFinished' = TRUE
        /\ UNCHANGED <<buckets, current, members>>
    <2>1. writer \in syncing /\ wpc' = Continuation[wpc]
      BY DEF SyncEnd, Zone!SyncEnd
    <2>2. wpc \in DOMAIN Continuation
      BY <2>1 DEF IInv, WriterInv
    <2>3. QED
      BY <2>1, <2>2 DEF SyncEnd, Continuation
  <1>2. VarTypes /\ NextType /\ limbo \cap members = {} /\ members \subseteq Nodes
    BY DEF IInv, VarTypes
  <1>3. \A n \in members : next'[n] = next[n]
    BY <1>1, <1>2 DEF GiveBackIf
  <1>4. PICK rank, m, h, k : Sizes(m, h, k) /\ Loops(h) /\ Chains(rank, m, h, k)
    BY DEF IInv, TableInv
  <1>5. other' = other
    BY <1>1 DEF other
  <1>6. Sizes(m, h, k)'
    BY <1>1, <1>4, <1>5 DEF Sizes, Expanding
  <1>7. Loops(h)'
    <2>1. MaxBuckets \in Nat /\ (wpc = "passed" => 0 <= h)
      BY <1>1, <1>4, PowerFacts, TableAssumption DEF Sizes
    <2>2. \A b \in 0 .. h - 1 : ~(b < 0)
      OBVIOUS
    <2>3. QED
      BY <1>1, <2>1, <2>2 DEF Loops
  <1>8. \A c, b : In(c, b)' = In(c, b)
    BY <1>1 DEF In
  <1>9. CASE wpc \in {"published", "passed"}
    <2>1. Links(rank, m, h)
      BY <1>4 DEF Chains
    <2>2. \A n \in members : Joined(rank, h, n)' = Joined(rank, h, n)
      <3>1. CASE wpc = "published"
        BY <1>1, <3>1 DEF Joined
      <3>2. CASE wpc = "passed"
        BY <1>1, <1>5, <3>2 DEF Joined
      <3>3. QED
        BY <1>9, <3>1, <3>2
    <2>3. Links(rank, m, h)'
      BY <1>1, <1>3, <2>1, <2>2, LinksStay
    <2>4. Ranked(rank, members') /\ Published(rank, m)'
      BY <1>1, <1>4, <1>8 DEF Chains, Published
    <2>5. OldHeads(rank, h)' /\ OldHeadsJoined(rank, k)' /\ JoinOrder(rank, m, h)'
      BY <1>1, <1>4, <1>5, <1>8, <1>9 DEF Chains, OldHeads, OldHeadsJoined, JoinOrder
    <2>6. Cuts(rank, m, h)'
      <3>1. CASE wpc = "published"
        BY <1>1, <3>1 DEF Cuts
      <3>2. CASE wpc = "passed"
        <4>1. SUFFICES ASSUME NEW b \in 0 .. h - 1, buckets[other][b] # NULL
                       PROVE  LET cut == buckets[other][b]
                              IN  /\ cut \in In(h, b)
                                  /\ next'[cut] # NULL
                                  /\ BucketOf(next'[cut], m) # BucketOf(cut, m)
          BY <1>1, <1>5, <1>8 DEF Cuts
        <4>2. LET cut == buckets[other][b]
              IN  /\ cut \in In(h, b)
                  /\ next[cut] # NULL
                  /\ BucketOf(next[cut], m) # BucketOf(cut, m)
          BY <1>4, <3>2, <4>1 DEF Chains, Cuts
        <4>3. buckets[other][b] \in members
          BY <4>2 DEF In
        <4>4. QED
          BY <1>3, <4>2, <4>3
      <3>3. QED
        BY <1>9, <3>1, <3>2
    <2>7. rank \in [Nodes -> Int]
      BY <1>4 DEF Chains
    <2>8. QED
      BY <1>6, <1>7, <2>3, <2>4, <2>5, <2>6, <2>7 DEF TableInv, Chains
  <1>10. CASE wpc \in {"shrunk", "sync"}
    <2>1. wpc \in PlainPC /\ wpc' \in PlainPC /\ wpc' # "shrunk"
      BY <1>1, <1>10 DEF PlainPC
    <2>2. Plain(rank, m)
      BY <1>2, <1>4, <2>1, PlainChains
    <2>3. Published(rank, m)'
      BY <1>1, <1>8, <2>2 DEF Plain, Published
    <2>4. \A n \in members : LinkedIn(rank, In(m, BucketOf(n, m)), n)'
      BY <1>3, <1>8, <2>2 DEF Plain, LinkedIn
    <2>5. Plain(rank, m)'
      BY <1>1, <2>2, <2>3, <2>4 DEF Plain
    <2>6. OldHeadsJoined(rank, k)'
      BY <2>1 DEF OldHeadsJoined
    <2>7. members' \in SUBSET Nodes
      BY <1>1, <1>2
    <2>8. Chains(rank, m, h, k)'
      BY <1>6, <2>1, <2>5, <2>6, <2>7, ChainsOfPlain
    <2>9. QED
      BY <1>6, <1>7, <2>8 DEF TableInv
  <1>11. QED
    BY <1>1, <1>9, <1>10

LEMMA SyncEndStep ==
  ASSUME IInv, SyncEnd
  PROVE  IInv'
  <1>1. /\ wpc \in {"published", "passed", "shrunk", "sync"}
        /\ wpc' = CASE wpc = "published" -> "starts" [] wpc = "passed" -> "unzip"
                    [] wpc = "shrunk" -> "free" [] wpc = "sync" -> "idle"
        /\ writer \in syncing /\ syncing' = syncing \ {writer} /\ waiting[writer] = {}
        /\ GiveBackIf(wpc = "sync")
        /\ iHalf' = 0 /\ allFinished' = TRUE
        /\ UNCHANGED <<buckets, current, size, members, answers, readerVars, inside, waiting>>
    <2>1. writer \in syncing /\ wpc' = Continuation[wpc]
      BY DEF SyncEnd, Zone!SyncEnd
    <2>2. wpc \in DOMAIN Continuation
      BY <2>1 DEF IInv, WriterInv
    <2>3. QED
      BY <2>1, <2>2 DEF SyncEnd, Zone!SyncEnd, Continuation
  <1>2. UNCHANGED <<rpc, target, array, pos, held>>
    BY <1>1 DEF readerVars
  <1>3. VarTypes /\ WriterInv /\ NULL \notin Nodes
    BY TableAssumption DEF IInv, VarTypes
  <1>4. /\ limbo' = IF wpc = "sync" THEN {} ELSE limbo
        /\ releases' = IF wpc = "sync" THEN FALSE ELSE releases
        /\ NextType'
        /\ wpc # "sync" => next' = next
    BY <1>1, <1>3 DEF GiveBackIf, VarTypes, NextType
  <1>5. VarTypes'
    <2>1. wpc' \in WriterPC
      BY <1>1 DEF WriterPC
    <2>2. ReadersTypes'
      BY <1>1, <1>2, <1>3 DEF VarTypes, ReadersTypes, Zone!TypeOK
    <2>3. QED
      BY <1>1, <1>3, <1>4, <2>1, <2>2 DEF VarTypes
  <1>6. TableInv'
    BY SyncEndTable
  <1>7. WriterInv'
    <2>1. releases => wpc \in {"shrunk", "sync"}
      BY <1>1, <1>3 DEF WriterInv
    <2>2. QED
      BY <1>1, <1>3, <1>4, <2>1 DEF WriterInv
  <1>8. ASSUME NEW r \in Readers PROVE ReaderInv(r)'
    <2>1. ReaderInv(r)
      BY DEF IInv, ReadersInv
    <2>2. Uses(r)' = Uses(r)
      BY <1>2 DEF Uses
    <2>3. wpc \in {"sync", "shrunk"} => Uses(r) \subseteq members
      BY <1>1, <2>1 DEF ReaderInv, Fresh
    <2>4. wpc' # "free" \/ wpc = "shrunk"
      BY <1>1
    <2>5. Fresh(r)' => Uses(r) \subseteq members
      BY <1>1, <2>3, <2>4 DEF Fresh
    <2>6. Uses(r) \subseteq members' \cup limbo'
      BY <1>1, <1>4, <2>1, <2>3 DEF ReaderInv
    <2>7. rpc[r] = "head" => array[r] = current
      BY <1>1, <2>1 DEF ReaderInv
    <2>8. QED
      BY <1>1, <1>2, <2>1, <2>2, <2>5, <2>6, <2>7 DEF ReaderInv
  <1>9. QED
    BY <1>5, <1>6, <1>7, <1>8 DEF IInv, ReadersInv
-----------------------------------------------------------------------------
(* Doubling the buckets.                                                    *)

\* A bucket and the two it is split into.
LEMMA TwinSets ==
  ASSUME members \in SUBSET Nodes, NEW m \in Powers, m > 1, NEW h, h = m \div 2
  PROVE  /\ \A b \in 0 .. h - 1 : In(h, b) = In(m, b) \cup In(m, b + h)
         /\ \A x, y \in members :
              BucketOf(x, m) = BucketOf(y, m) => BucketOf(x, h) = BucketOf(y, h)
         /\ \A x, y, z \in members :
              /\ BucketOf(x, h) = BucketOf(z, h) /\ BucketOf(y, h) = BucketOf(z, h)
              /\ BucketOf(x, m) # BucketOf(z, m) /\ BucketOf(y, m) # BucketOf(z, m)
              => BucketOf(x, m) = BucketOf(y, m)
  <1>1. h \in Nat /\ h # 0
    BY Twins
  <1>2. \A n \in members : /\ BucketOf(n, h) \in 0 .. h - 1
                           /\ BucketOf(n, m) \in {BucketOf(n, h), BucketOf(n, h) + h}
    BY Twins
  <1>3. \A b \in 0 .. h - 1 : In(h, b) = In(m, b) \cup In(m, b + h)
    BY <1>1, <1>2 DEF In
  <1>4. ASSUME NEW x \in members, NEW y \in members, BucketOf(x, m) = BucketOf(y, m)
        PROVE  BucketOf(x, h) = BucketOf(y, h)
    BY <1>1, <1>2, <1>4
  <1>5. QED
    BY <1>2, <1>3, <1>4

\* The first node of a bucket on a whole chain.
LEMMA FirstOnChain ==
  ASSUME NextType, NULL \notin Nodes, NEW S \in SUBSET Nodes, NEW rank,
         Ranked(rank, S), Chained(rank, S), NEW p, IsFirst(rank, S, p),
         NEW b, NEW m
  PROVE  IsFirst(rank, {x \in S : BucketOf(x, m) = b}, FirstOf(p, b, m))
  <1> DEFINE q == FirstOf(p, b, m)
  <1>1. CASE p = NULL
    <2>1. S = {}
      BY <1>1 DEF IsFirst
    <2>2. q = NULL
      BY <1>1, ChainOfNULL DEF FirstOf, SelectInSeq
    <2>3. QED
      BY <2>1, <2>2 DEF IsFirst
  <1>2. CASE p # NULL
    <2>1. p \in S /\ \A x \in S : rank[p] <= rank[x]
      BY <1>2 DEF IsFirst
    <2>2. Lists(Chain(p), rank, S, p)
      BY <2>1, ChainLists
    <2>3. q = FirstOf(p, b, m)
      OBVIOUS
    <2> HIDE DEF q
    <2>4. IF q = NULL
          THEN \A x \in S : rank[p] <= rank[x] => BucketOf(x, m) # b
          ELSE /\ q \in S /\ BucketOf(q, m) = b
               /\ \A x \in S : rank[p] <= rank[x] /\ BucketOf(x, m) = b => rank[q] <= rank[x]
      BY <2>1, <2>2, <2>3, FirstOfFirst
    <2>5. IsFirst(rank, {x \in S : BucketOf(x, m) = b}, q)
      BY <2>1, <2>4 DEF IsFirst
    <2>6. QED
      BY <2>5 DEF q
  <1>3. QED
    BY <1>1, <1>2

LEMMA InitTwinHeads ==
  ASSUME VarTypes, NEW rank, NEW h \in Powers, NEW m \in Powers, m > 1, h = m \div 2,
         Plain(rank, h), NEW b \in 0 .. m - 1
  PROVE  IsFirst(rank, In(m, b), FirstOf(buckets[current][b % h], b, m))
  <1> DEFINE S == In(h, b % h)
             p == buckets[current][b % h]
  <1>1. h \in Nat /\ h # 0 /\ m = 2 * h /\ members \subseteq Nodes /\ NULL \notin Nodes
        /\ NextType
    BY Twins, TableAssumption DEF VarTypes
  <1>2. b % h \in 0 .. h - 1 /\ b \in {b % h, (b % h) + h}
    <2>1. b \in Nat
      BY <1>1
    <2>2. b % h \in 0 .. h - 1 /\ b % (2 * h) \in {b % h, (b % h) + h}
      BY <1>1, <2>1, TwinBuckets
    <2>3. b % (2 * h) = b
      BY <1>1
    <2>4. QED
      BY <2>2, <2>3
  <1>3. IsFirst(rank, S, p)
    BY <1>2 DEF Plain, Published
  <1>4. In(m, b) = {x \in S : BucketOf(x, m) = b}
    <2>1. ASSUME NEW x \in members, BucketOf(x, m) = b PROVE BucketOf(x, h) = b % h
      <3>1. BucketOf(x, h) \in 0 .. h - 1 /\ b \in {BucketOf(x, h), BucketOf(x, h) + h}
        BY <1>1, <2>1, Twins
      <3>2. QED
        BY <1>1, <1>2, <3>1
    <2>2. QED
      BY <2>1 DEF In
  <1>5. S \in SUBSET Nodes /\ Ranked(rank, S) /\ Chained(rank, S)
    BY <1>1 DEF Plain, Ranked, Chained, In
  <1> HIDE DEF S, p
  <1>6. IsFirst(rank, {x \in S : BucketOf(x, m) = b}, FirstOf(p, b, m))
    BY <1>1, <1>3, <1>5, FirstOnChain
  <1>7. QED
    BY <1>4, <1>6 DEF p

LEMMA PublishExpandedStep ==
  ASSUME IInv, PublishExpanded
  PROVE  IInv'
  <1>1. PICK rank, h, g, k : Sizes(h, g, k) /\ Loops(g) /\ Chains(rank, h, g, k)
    BY DEF IInv, TableInv
  <1> DEFINE m == 2 * h
  <1>2. /\ wpc = "expand" /\ wpc' = "published"
        /\ UNCHANGED <<zoneVars, readerVars, next, size, limbo, members, iHalf,
                       allFinished, releases, answers>>
        /\ buckets' = [buckets EXCEPT ![other] = initTwinDstBuckets(NrBuckets(current))]
        /\ current' = other
    BY DEF PublishExpanded, Publish, Writer
  <1>3. VarTypes /\ WriterInv /\ ~releases /\ writer \notin syncing
    BY <1>2 DEF IInv, WriterInv, Continuation
  <1>4. /\ h \in Powers /\ h \in Nat /\ h # 0 /\ NrBuckets(current) = h /\ h < MaxBuckets
        /\ buckets[current] \in Heads(h)
    BY <1>1, <1>2, PowerFacts, NrBucketsOf DEF Sizes
  <1>5. m \in Powers /\ m > 1 /\ m <= MaxBuckets /\ h = m \div 2
    BY <1>4, PowerFacts, TableAssumption
  <1>6. Plain(rank, h)
    <2>1. wpc \in PlainPC
      BY <1>2 DEF PlainPC
    <2>2. QED
      BY <1>1, <1>3, <2>1, PlainChains
  <1> HIDE DEF m
  <1>7. current \in Arrays /\ DOMAIN buckets = Arrays /\ members \in SUBSET Nodes
    BY <1>3 DEF VarTypes
  <1>8. other \in Arrays /\ other # current /\ other' = current
    BY <1>2, <1>7 DEF other, Arrays
  <1>9. /\ DOMAIN buckets' = Arrays
        /\ buckets'[current'] = initTwinDstBuckets(h)
        /\ buckets'[other'] = buckets[current]
    BY <1>2, <1>4, <1>7, <1>8
  <1>10. \A b \in 0 .. m - 1 : IsFirst(rank, In(m, b), buckets'[current'][b])
    <2>1. SUFFICES ASSUME NEW b \in 0 .. m - 1
                   PROVE  IsFirst(rank, In(m, b), buckets'[current'][b])
      OBVIOUS
    <2>2. buckets'[current'][b] = FirstOf(buckets[current][b % h], b, m)
      BY <1>9 DEF initTwinDstBuckets, m
    <2>3. QED
      BY <1>3, <1>4, <1>5, <1>6, <2>2, InitTwinHeads
  <1>11. buckets'[current'] \in Heads(m)
    <2>1. ASSUME NEW b \in 0 .. m - 1 PROVE buckets'[current'][b] \in Nodes \cup {NULL}
      BY <1>7, <1>10 DEF IsFirst, In
    <2>2. buckets'[current'] = [b \in 0 .. m - 1 |-> buckets'[current'][b]]
      BY <1>9 DEF initTwinDstBuckets, m
    <2>3. QED
      BY <2>1, <2>2 DEF Heads
  <1>12. VarTypes'
    <2>1. wpc' \in WriterPC /\ current' \in Arrays
      BY <1>2, <1>8 DEF WriterPC
    <2>2. QED
      BY <1>2, <1>3, <1>9, <2>1
      DEF VarTypes, NextType, ReadersTypes, Zone!TypeOK, zoneVars, readerVars
  <1>13. Sizes(m, h, h)'
    BY <1>2, <1>4, <1>5, <1>9, <1>11 DEF Sizes, Expanding
  <1>14. Loops(h)'
    BY <1>1, <1>2 DEF Loops
  <1>15. \A c, b : In(c, b)' = In(c, b)
    BY <1>2 DEF In
  <1>16. Links(rank, m, h)'
    <2>1. \A n \in members : Peers(rank, m, h, n)' = In(h, BucketOf(n, h))
      BY <1>2, <1>15 DEF Peers, Joined
    <2>2. QED
      BY <1>2, <1>6, <2>1 DEF Plain, Links, LinkedIn
  <1>17. Published(rank, m)'
    BY <1>10, <1>15 DEF Published
  <1>18. OldHeads(rank, h)' /\ OldHeadsJoined(rank, h)'
    <2>1. \A b \in 0 .. h - 1 : IsFirst(rank, In(h, b), buckets[current][b])
      BY <1>6 DEF Plain, Published
    <2>2. QED
      BY <1>2, <1>9, <1>15, <2>1 DEF OldHeads, OldHeadsJoined
  <1>19. Cuts(rank, m, h)' /\ JoinOrder(rank, m, h)'
    BY <1>2 DEF Cuts, JoinOrder
  <1>20. TableInv'
    <2>1. rank \in [Nodes -> Int] /\ Ranked(rank, members')
      BY <1>2, <1>6 DEF Plain
    <2>2. QED
      BY <1>13, <1>14, <1>16, <1>17, <1>18, <1>19, <2>1 DEF TableInv, Chains
  <1>21. WriterInv'
    BY <1>2, <1>3 DEF WriterInv, zoneVars
  <1>22. ReadersInv'
    BY <1>2, <1>3, ReadersStay
  <1>23. QED
    BY <1>12, <1>20, <1>21, <1>22 DEF IInv
\* The nodes of S in the bucket of n.
Alike(S, m, n) == {x \in S : BucketOf(x, m) = BucketOf(n, m)}

\* Where the chain of S leaves the bucket in which it begins.  Up to there it
\* is the chain of that bucket.
LEMMA CutOnChain ==
  ASSUME NextType, NULL \notin Nodes, NEW S \in SUBSET Nodes, NEW rank,
         Ranked(rank, S), Chained(rank, S), NEW p \in S, \A x \in S : rank[p] <= rank[x],
         NEW m, NEW cut, cut = SegmentEnd(p, m)
  PROVE  /\ cut = NULL => \A x \in S : BucketOf(x, m) = BucketOf(p, m)
         /\ cut # NULL =>
              /\ cut \in S /\ BucketOf(cut, m) = BucketOf(p, m)
              /\ next[cut] \in S /\ BucketOf(next[cut], m) # BucketOf(cut, m)
              /\ \A x \in S : rank[x] <= rank[cut] => BucketOf(x, m) = BucketOf(p, m)
         /\ \A n \in S : cut = NULL \/ rank[n] < rank[cut] =>
              LinkedIn(rank, Alike(S, m, n), n)
  <1>1. Lists(Chain(p), rank, S, p)
    BY ChainLists
  <1>2. IF cut = NULL
        THEN \A x \in S : rank[p] <= rank[x] => BucketOf(x, m) = BucketOf(p, m)
        ELSE /\ cut \in S /\ rank[p] <= rank[cut] /\ BucketOf(cut, m) = BucketOf(p, m)
             /\ next[cut] \in S /\ BucketOf(next[cut], m) # BucketOf(p, m)
             /\ \A x \in S : rank[p] <= rank[x] /\ rank[x] <= rank[cut]
                  => BucketOf(x, m) = BucketOf(p, m)
    BY <1>1, SegmentEndLast
  <1>3. ASSUME NEW n \in S, cut = NULL \/ rank[n] < rank[cut]
        PROVE  LinkedIn(rank, Alike(S, m, n), n)
    <2>1. \A x \in S : rank[x] \in Int
      BY DEF Ranked
    <2>2. BucketOf(n, m) = BucketOf(p, m)
      BY <1>2, <1>3, <2>1
    <2>3. CASE IsSuccessor(rank, S, n, next[n])
      <3>1. next[n] \in S /\ (cut # NULL => rank[next[n]] <= rank[cut])
        BY <1>2, <1>3, <2>3 DEF IsSuccessor
      <3>2. BucketOf(next[n], m) = BucketOf(n, m)
        BY <1>2, <2>2, <3>1
      <3>3. QED
        BY <2>3, <3>1, <3>2 DEF LinkedIn, IsSuccessor, Alike
    <2>4. CASE next[n] = NULL /\ IsGreatest(rank, S, n)
      BY <2>4 DEF LinkedIn, IsGreatest, Alike
    <2>5. QED
      BY <2>3, <2>4 DEF Chained, LinkedIn
  <1>4. QED
    BY <1>2, <1>3

LEMMA FindStartsStep ==
  ASSUME IInv, findFirstUnzipStarts
  PROVE  IInv'
  <1>1. PICK rank, m, h, k : Sizes(m, h, k) /\ Loops(h) /\ Chains(rank, m, h, k)
    BY DEF IInv, TableInv
  <1> DEFINE starts == [b \in DOMAIN buckets[other] |->
               IF buckets[other][b] = NULL
               THEN NULL
               ELSE SegmentEnd(buckets[other][b], NrBuckets(current))]
  <1>2. /\ wpc = "starts"
        /\ wpc' = IF \A b \in DOMAIN starts : starts[b] = NULL THEN "free" ELSE "unzip"
        /\ UNCHANGED <<zoneVars, readerVars, next, current, size, limbo, members, iHalf,
                       allFinished, releases, answers>>
        /\ buckets' = [buckets EXCEPT ![other] = starts]
    BY DEF findFirstUnzipStarts, Writer
  <1>3. VarTypes /\ WriterInv /\ ~releases /\ writer \notin syncing
    BY <1>2 DEF IInv, WriterInv, Continuation
  <1>4. /\ m \in Powers /\ m \in Nat /\ m > 1 /\ m <= MaxBuckets /\ NrBuckets(current) = m
        /\ buckets[current] \in Heads(m)
        /\ h \in Nat /\ h # 0 /\ h \in Powers /\ h = m \div 2 /\ k = h /\ m = 2 * h
        /\ buckets[other] \in Heads(h) /\ DOMAIN buckets[other] = 0 .. h - 1
    <2>1. wpc \in Expanding
      BY <1>2 DEF Expanding
    <2>2. /\ m \in Powers /\ m > 1 /\ m <= MaxBuckets /\ h = m \div 2 /\ k = h
          /\ buckets[current] \in Heads(m) /\ buckets[other] \in Heads(h)
      BY <1>1, <2>1 DEF Sizes
    <2>3. m \in Nat /\ h \in Nat /\ h # 0 /\ h \in Powers /\ m = 2 * h
      BY <2>2, Twins, PowerFacts
    <2>4. QED
      BY <2>2, <2>3, NrBucketsOf
  <1>5. /\ current \in Arrays /\ DOMAIN buckets = Arrays /\ members \in SUBSET Nodes
        /\ NULL \notin Nodes /\ NextType
    BY <1>3, TableAssumption DEF VarTypes
  <1>6. other \in Arrays /\ other # current /\ other' = other
    BY <1>2, <1>5 DEF other, Arrays
  <1>7. /\ DOMAIN buckets' = Arrays /\ buckets'[current] = buckets[current]
        /\ buckets'[other] = starts /\ DOMAIN starts = 0 .. h - 1
        /\ \A b \in 0 .. h - 1 : starts[b] =
             IF buckets[other][b] = NULL THEN NULL ELSE SegmentEnd(buckets[other][b], m)
    BY <1>2, <1>4, <1>5, <1>6
  <1> HIDE DEF starts
  <1>9. \A c, b : In(c, b)' = In(c, b)
    BY <1>2 DEF In
  <1>10. \A x, y \in members : BucketOf(x, m) = BucketOf(y, m) => BucketOf(x, h) = BucketOf(y, h)
    BY <1>4, <1>5, TwinSets
  <1>11. ASSUME NEW b \in 0 .. h - 1
         PROVE  /\ starts[b] # NULL =>
                     /\ starts[b] \in In(h, b)
                     /\ next[starts[b]] # NULL
                     /\ BucketOf(next[starts[b]], m) # BucketOf(starts[b], m)
                /\ \A n \in In(h, b) :
                     starts[b] = NULL \/ ~(rank[starts[b]] <= rank[n]) =>
                       LinkedIn(rank, In(m, BucketOf(n, m)), n)
    <2> DEFINE S == In(h, b)
               p == buckets[other][b]
               cut == starts[b]
    <2>1. IsFirst(rank, S, p)
      BY <1>1, <1>2 DEF Chains, OldHeads
    <2>2. S \in SUBSET Nodes /\ S \subseteq members
      BY <1>5 DEF In
    <2>3. Ranked(rank, S) /\ Chained(rank, S)
      <3>1. \A n \in members : Peers(rank, m, h, n) = In(h, BucketOf(n, h))
        BY <1>2 DEF Peers, Joined
      <3>2. \A n \in S : n \in members /\ BucketOf(n, h) = b
        BY DEF In
      <3>3. QED
        BY <1>1, <3>1, <3>2 DEF Chains, Links, Ranked, Chained
    <2>4. \A n \in S : In(m, BucketOf(n, m)) = Alike(S, m, n)
      BY <1>10 DEF In, Alike
    <2>5. \A x \in S : rank[x] \in Int
      BY <2>3 DEF Ranked
    <2> HIDE DEF S
    <2>6. CASE S = {}
      BY <1>7, <2>1, <2>6 DEF IsFirst, S
    <2>7. CASE S # {}
      <3>1. p \in S /\ (\A x \in S : rank[p] <= rank[x]) /\ cut = SegmentEnd(p, m)
        BY <1>5, <1>7, <2>1, <2>2, <2>7 DEF IsFirst
      <3> HIDE DEF p, cut
      <3>2. /\ cut # NULL =>
                 /\ cut \in S /\ next[cut] \in S
                 /\ BucketOf(next[cut], m) # BucketOf(cut, m)
            /\ \A n \in S : cut = NULL \/ rank[n] < rank[cut] =>
                 LinkedIn(rank, Alike(S, m, n), n)
        BY <1>5, <2>2, <2>3, <3>1, CutOnChain
      <3>3. \A n \in S : cut = NULL \/ ~(rank[cut] <= rank[n]) =>
              LinkedIn(rank, In(m, BucketOf(n, m)), n)
        BY <2>4, <2>5, <3>2
      <3>4. cut # NULL => next[cut] # NULL
        BY <1>5, <2>2, <3>2
      <3>5. QED
        BY <3>2, <3>3, <3>4 DEF S, cut
    <2>8. QED
      BY <2>6, <2>7
  <1>12. VarTypes'
    <2>1. wpc' \in WriterPC
      BY <1>2 DEF WriterPC
    <2>2. QED
      BY <1>2, <1>3, <1>7, <2>1
      DEF VarTypes, NextType, ReadersTypes, Zone!TypeOK, zoneVars, readerVars
  <1>13. wpc' \in {"free", "unzip"}
    BY <1>2
  <1>14. starts \in Heads(h)
    <2>1. \A b \in 0 .. h - 1 : starts[b] \in Nodes \cup {NULL}
      BY <1>5, <1>11 DEF In
    <2>2. starts = [b \in 0 .. h - 1 |-> starts[b]]
      BY <1>7 DEF starts
    <2>3. QED
      BY <2>1, <2>2 DEF Heads
  <1>15. Sizes(m, h, k)'
    BY <1>1, <1>2, <1>4, <1>6, <1>7, <1>13, <1>14 DEF Sizes, Expanding
  <1>16. Loops(h)'
    <2>1. iHalf = 0 /\ MaxBuckets \in Nat
      BY <1>1, <1>2, <1>4, TableAssumption, PowerFacts DEF Loops
    <2>2. QED
      BY <1>2, <1>4, <1>13, <2>1 DEF Loops
  <1>17. \A n \in members : BucketOf(n, h) \in 0 .. h - 1
    BY <1>4, <1>5, BucketFacts
  <1>18. wpc' = "free" => \A b \in 0 .. h - 1 : starts[b] = NULL
    BY <1>2, <1>7
  <1>19. ASSUME NEW n \in members
         PROVE  LinkedIn(rank, Peers(rank, m, h, n), n)'
    <2> DEFINE b == BucketOf(n, h)
    <2>1. b \in 0 .. h - 1 /\ n \in In(h, b)
      BY <1>17 DEF In
    <2>2. Joined(rank, h, n)' <=>
            wpc' = "unzip" /\ starts[b] # NULL /\ rank[starts[b]] <= rank[n]
      BY <1>6, <1>7, <1>13 DEF Joined
    <2>3. Joined(rank, h, n)' <=> starts[b] # NULL /\ rank[starts[b]] <= rank[n]
      BY <1>13, <1>18, <2>1, <2>2
    <2>4. LinkedIn(rank, In(h, b), n)
      <3>1. Joined(rank, h, n)
        BY <1>2 DEF Joined
      <3>2. QED
        BY <1>1, <3>1 DEF Chains, Links, Peers
    <2>5. ~Joined(rank, h, n)' => LinkedIn(rank, In(m, BucketOf(n, m)), n)
      BY <1>11, <2>1, <2>3
    <2>6. Peers(rank, m, h, n)' =
            IF Joined(rank, h, n)' THEN In(h, b) ELSE In(m, BucketOf(n, m))
      BY <1>9 DEF Peers
    <2>7. LinkedIn(rank, Peers(rank, m, h, n)', n)
      BY <2>4, <2>5, <2>6
    <2>8. QED
      BY <1>2, <2>7 DEF LinkedIn
  <1>20. Links(rank, m, h)'
    BY <1>2, <1>19 DEF Links
  <1>21. Published(rank, m)'
    BY <1>1, <1>2, <1>7, <1>9 DEF Chains, Published
  <1>22. Cuts(rank, m, h)'
    <2>1. \A b \in 0 .. h - 1 : starts[b] # NULL =>
            /\ starts[b] \in In(h, b)
            /\ next[starts[b]] # NULL
            /\ BucketOf(next[starts[b]], m) # BucketOf(starts[b], m)
      BY <1>11
    <2>2. QED
      BY <1>2, <1>6, <1>7, <1>9, <2>1 DEF Cuts
  <1>23. OldHeads(rank, h)' /\ OldHeadsJoined(rank, k)' /\ JoinOrder(rank, m, h)'
    BY <1>13 DEF OldHeads, OldHeadsJoined, JoinOrder
  <1>24. TableInv'
    <2>1. rank \in [Nodes -> Int] /\ Ranked(rank, members')
      BY <1>1, <1>2 DEF Chains
    <2>2. QED
      BY <1>15, <1>16, <1>20, <1>21, <1>22, <1>23, <2>1 DEF TableInv, Chains
  <1>25. WriterInv'
    BY <1>2, <1>3 DEF WriterInv, zoneVars
  <1>26. ReadersInv'
    BY <1>2, <1>3, ReadersStay
  <1>27. QED
    BY <1>12, <1>24, <1>25, <1>26 DEF IInv
\* The numbers that matter while chains are unzipped.
LEMMA UnzipSizes ==
  ASSUME VarTypes, wpc = "unzip", NEW m, NEW h, NEW k, Sizes(m, h, k)
  PROVE  /\ m \in Powers /\ m \in Nat /\ m > 1 /\ m <= MaxBuckets /\ NrBuckets(current) = m
         /\ h \in Nat /\ h # 0 /\ h \in Powers /\ h = m \div 2 /\ k = h /\ m = 2 * h
         /\ NrBuckets(other) = h
         /\ buckets[other] \in Heads(h) /\ DOMAIN buckets[other] = 0 .. h - 1
         /\ MaxBuckets \in Nat
  <1>1. wpc \in Expanding
    BY DEF Expanding
  <1>2. /\ m \in Powers /\ m > 1 /\ m <= MaxBuckets /\ h = m \div 2 /\ k = h
        /\ buckets[current] \in Heads(m) /\ buckets[other] \in Heads(h)
    BY <1>1 DEF Sizes
  <1>3. m \in Nat /\ h \in Nat /\ h # 0 /\ h \in Powers /\ m = 2 * h /\ MaxBuckets \in Nat
    BY <1>2, Twins, PowerFacts, TableAssumption
  <1>4. QED
    BY <1>2, <1>3, NrBucketsOf

\* A bucket that needs no unzipping, and the end of a pass over the buckets.
LEMMA PassStep ==
  ASSUME IInv, SkipUnzipped \/ UnzipPassEnd
  PROVE  IInv'
  <1>1. PICK rank, m, h, k : Sizes(m, h, k) /\ Loops(h) /\ Chains(rank, m, h, k)
    BY DEF IInv, TableInv
  <1>2. /\ wpc = "unzip"
        /\ \/ /\ wpc' = "unzip" /\ iHalf' = iHalf + 1
              /\ iHalf < NrBuckets(other) /\ buckets[other][iHalf] = NULL
           \/ /\ iHalf' = iHalf /\ iHalf = NrBuckets(other)
              /\ wpc' = IF allFinished THEN "free" ELSE "passed"
        /\ UNCHANGED <<zoneVars, readerVars, tableVars, allFinished, releases, answers>>
    BY DEF SkipUnzipped, UnzipPassEnd, Writer
  <1>3. UNCHANGED <<next, buckets, current, size, members, limbo>>
    BY <1>2 DEF tableVars
  <1>4. VarTypes /\ WriterInv /\ ~releases /\ writer \notin syncing /\ iHalf \in Nat
        /\ members \in SUBSET Nodes
    BY <1>2 DEF IInv, WriterInv, Continuation, VarTypes
  <1>5. /\ m \in Nat /\ m <= MaxBuckets /\ MaxBuckets \in Nat
        /\ h \in Nat /\ h # 0 /\ h \in Powers /\ k = h /\ m = 2 * h
        /\ NrBuckets(other) = h
    BY <1>1, <1>2, <1>4, UnzipSizes
  <1>6. wpc' \in {"unzip", "passed", "free"} /\ iHalf' \in Nat /\ other' = other
    BY <1>2, <1>3, <1>4 DEF other
  <1>7. VarTypes'
    BY <1>2, <1>3, <1>4, <1>6
    DEF VarTypes, NextType, ReadersTypes, Zone!TypeOK, zoneVars, readerVars, WriterPC
  <1>8. Sizes(m, h, k)'
    BY <1>1, <1>2, <1>3, <1>6 DEF Sizes, Expanding
  <1>9. Loops(h)'
    <2>1. \A b \in 0 .. h - 1 : b < iHalf + 1 => b < iHalf \/ b = iHalf
      BY <1>4
    <2>2. iHalf' <= h
      BY <1>2, <1>4, <1>5
    <2>3. wpc' = "unzip" /\ allFinished' =>
            \A b \in 0 .. h - 1 : b < iHalf' => buckets'[other'][b] = NULL
      BY <1>1, <1>2, <1>3, <1>6, <2>1 DEF Loops
    <2>4. iHalf' <= MaxBuckets
      BY <1>5, <1>6, <2>2
    <2>5. QED
      BY <1>6, <2>2, <2>3, <2>4 DEF Loops
  <1>10. ASSUME NEW n \in members
         PROVE  Joined(rank, h, n)' = Joined(rank, h, n)
    <2>1. CASE wpc' = "free"
      <3>1. BucketOf(n, h) \in 0 .. h - 1
        BY <1>4, <1>5, BucketFacts
      <3>2. iHalf = h /\ allFinished
        BY <1>2, <1>5, <2>1
      <3>3. buckets[other][BucketOf(n, h)] = NULL
        BY <1>1, <1>2, <1>5, <3>1, <3>2 DEF Loops
      <3>4. QED
        BY <1>2, <2>1, <3>3 DEF Joined
    <2>2. CASE wpc' # "free"
      BY <1>2, <1>3, <1>6, <2>2 DEF Joined
    <2>3. QED
      BY <2>1, <2>2
  <1>11. Links(rank, m, h)'
    BY <1>1, <1>3, <1>10, LinksStay DEF Chains
  <1>12. \A c, b : In(c, b)' = In(c, b)
    BY <1>3 DEF In
  <1>13. Published(rank, m)' /\ Cuts(rank, m, h)'
    BY <1>1, <1>2, <1>3, <1>6, <1>12 DEF Chains, Published, Cuts
  <1>14. OldHeads(rank, h)' /\ OldHeadsJoined(rank, k)' /\ JoinOrder(rank, m, h)'
    BY <1>6 DEF OldHeads, OldHeadsJoined, JoinOrder
  <1>15. TableInv'
    <2>1. rank \in [Nodes -> Int] /\ Ranked(rank, members')
      BY <1>1, <1>3 DEF Chains
    <2>2. QED
      BY <1>8, <1>9, <1>11, <1>13, <1>14, <2>1 DEF TableInv, Chains
  <1>16. WriterInv'
    BY <1>2, <1>3, <1>4 DEF WriterInv, zoneVars
  <1>17. ReadersInv'
    BY <1>2, <1>3, <1>4, ReadersStay
  <1>18. QED
    BY <1>7, <1>15, <1>16, <1>17 DEF IInv
\* Unzipping one segment: the chain of bucket b is cut behind cut and goes on
\* with beyond; from c1 on it is as before.
LEMMA OneSegment ==
  ASSUME VarTypes, wpc = "unzip", NEW rank, NEW m, NEW h, NEW k,
         Sizes(m, h, k), Chains(rank, m, h, k), NEW b \in 0 .. h - 1,
         NEW cut, cut = buckets[other][b], cut # NULL,
         NEW c1, c1 = SegmentEnd(next[cut], m),
         NEW beyond, beyond = IF c1 = NULL THEN NULL ELSE next[c1]
  PROVE  /\ cut \in In(h, b) /\ beyond \in members \cup {NULL}
         /\ c1 # NULL => /\ c1 \in In(h, b) /\ c1 # cut
                         /\ next[c1] # NULL /\ BucketOf(next[c1], m) # BucketOf(c1, m)
         /\ \/ IsSuccessor(rank, In(m, BucketOf(cut, m)), cut, beyond)
            \/ beyond = NULL /\ IsGreatest(rank, In(m, BucketOf(cut, m)), cut)
         /\ \A n \in In(h, b) : n # cut /\ (c1 = NULL \/ ~(rank[c1] <= rank[n])) =>
              LinkedIn(rank, In(m, BucketOf(n, m)), n)
         /\ c1 # NULL => ~(rank[c1] <= rank[cut])
         /\ \A n \in In(h, b) : c1 # NULL /\ rank[c1] <= rank[n] => LinkedIn(rank, In(h, b), n)
         /\ BucketOf(next[cut], m) # BucketOf(cut, m)
         /\ \E T \in SUBSET In(h, b) :
              /\ Chained(rank, T) /\ next[cut] \in T
              /\ \A x \in T : rank[next[cut]] <= rank[x]
  <1> DEFINE S == In(h, b)
             n0 == next[cut]
             T == {x \in S : rank[n0] <= rank[x]}
             own == In(m, BucketOf(cut, m))
  <1>1. m \in Powers /\ m > 1 /\ h = m \div 2
    BY UnzipSizes
  <1>2. members \in SUBSET Nodes /\ NULL \notin Nodes /\ NextType
    BY TableAssumption DEF VarTypes
  <1>3. cut \in S /\ n0 # NULL /\ BucketOf(n0, m) # BucketOf(cut, m)
    BY DEF Chains, Cuts
  <1>4. S \in SUBSET Nodes /\ S \subseteq members /\ \A x \in S : BucketOf(x, h) = b
    BY <1>2 DEF In
  <1>5. \A x, y \in S : rank[x] \in Int /\ (rank[x] = rank[y] => x = y)
    BY <1>4 DEF Chains, Ranked
  <1>6. \A n \in S : /\ rank[cut] <= rank[n] => LinkedIn(rank, S, n)
                     /\ ~(rank[cut] <= rank[n]) => LinkedIn(rank, In(m, BucketOf(n, m)), n)
    <2>1. ASSUME NEW n \in S
          PROVE  Joined(rank, h, n) <=> rank[cut] <= rank[n]
      BY <1>4, <2>1 DEF Joined
    <2>2. ASSUME NEW n \in S
          PROVE  LinkedIn(rank, IF Joined(rank, h, n) THEN S ELSE In(m, BucketOf(n, m)), n)
      <3>1. LinkedIn(rank, Peers(rank, m, h, n), n)
        BY <1>4 DEF Chains, Links
      <3>2. QED
        BY <1>4, <3>1 DEF Peers
    <2>3. QED
      BY <2>1, <2>2
  <1>7. \A x, y \in S : BucketOf(x, m) # BucketOf(cut, m) /\ BucketOf(y, m) # BucketOf(x, m)
          => BucketOf(y, m) = BucketOf(cut, m)
    BY <1>1, <1>2, <1>3, <1>4, TwinSets
  <1>8. /\ \A n \in S : \A x \in In(m, BucketOf(n, m)) : x \in S /\ BucketOf(x, m) = BucketOf(n, m)
        /\ \A n, x \in S : BucketOf(x, m) = BucketOf(n, m) => x \in In(m, BucketOf(n, m))
    <2>1. \A x, y \in members : BucketOf(x, m) = BucketOf(y, m) => BucketOf(x, h) = BucketOf(y, h)
      BY <1>1, <1>2, TwinSets
    <2>2. QED
      BY <1>4, <2>1 DEF In
  <1> HIDE DEF S
  <1>9. IsSuccessor(rank, S, cut, n0)
    BY <1>3, <1>5, <1>6 DEF LinkedIn
  <1>10. n0 \in S /\ rank[cut] < rank[n0] /\ \A x \in S : rank[cut] < rank[x] => rank[n0] <= rank[x]
    BY <1>9 DEF IsSuccessor
  <1>11. T \in SUBSET Nodes /\ T \subseteq S /\ n0 \in T /\ \A x \in T : rank[n0] <= rank[x]
    BY <1>4, <1>5, <1>10
  <1>12. Ranked(rank, T)
    BY <1>5, <1>11 DEF Ranked
  <1>13. Chained(rank, T)
    <2>1. ASSUME NEW x \in T PROVE LinkedIn(rank, T, x)
      <3>1. LinkedIn(rank, S, x)
        BY <1>3, <1>5, <1>6, <1>10, <1>11
      <3>2. CASE IsSuccessor(rank, S, x, next[x])
        <4>1. next[x] \in T
          BY <1>5, <1>10, <1>11, <3>2 DEF IsSuccessor
        <4>2. QED
          BY <1>11, <3>2, <4>1 DEF LinkedIn, IsSuccessor
      <3>3. CASE next[x] = NULL /\ IsGreatest(rank, S, x)
        BY <1>11, <3>3 DEF LinkedIn, IsGreatest
      <3>4. QED
        BY <3>1, <3>2, <3>3 DEF LinkedIn
    <2>2. QED
      BY <2>1 DEF Chained
  <1> HIDE DEF T, n0, own
  <1>14. c1 = SegmentEnd(n0, m)
    BY DEF n0
  <1>15. /\ c1 = NULL => \A x \in T : BucketOf(x, m) = BucketOf(n0, m)
         /\ c1 # NULL =>
              /\ c1 \in T /\ BucketOf(c1, m) = BucketOf(n0, m)
              /\ next[c1] \in T /\ BucketOf(next[c1], m) # BucketOf(c1, m)
              /\ \A x \in T : rank[x] <= rank[c1] => BucketOf(x, m) = BucketOf(n0, m)
         /\ \A n \in T : c1 = NULL \/ rank[n] < rank[c1] => LinkedIn(rank, Alike(T, m, n), n)
    BY <1>2, <1>11, <1>12, <1>13, <1>14, CutOnChain
  <1>16. \A x \in S : x \in T <=> rank[cut] < rank[x]
    BY <1>3, <1>5, <1>10 DEF T
  <1>17. c1 # NULL => /\ c1 \in S /\ c1 # cut /\ rank[cut] < rank[c1] /\ ~(rank[c1] <= rank[cut])
                      /\ next[c1] # NULL /\ next[c1] \in S
    BY <1>2, <1>3, <1>4, <1>5, <1>11, <1>15, <1>16
  <1>18. own \subseteq S /\ cut \in own /\ \A x \in own : BucketOf(x, m) = BucketOf(cut, m)
    BY <1>3, <1>8 DEF own
  <1>19. \A x \in own : rank[cut] < rank[x] => x \in T /\ BucketOf(x, m) # BucketOf(n0, m)
    BY <1>3, <1>16, <1>18 DEF n0
  <1>20. IsSuccessor(rank, own, cut, beyond) \/ (beyond = NULL /\ IsGreatest(rank, own, cut))
    <2>1. CASE c1 = NULL
      <3>1. \A x \in own : ~(rank[cut] < rank[x])
        BY <1>15, <1>19, <2>1
      <3>2. IsGreatest(rank, own, cut)
        BY <1>3, <1>5, <1>18, <3>1 DEF IsGreatest
      <3>3. QED
        BY <2>1, <3>2
    <2>2. CASE c1 # NULL
      <3>1. c1 \in T /\ next[c1] \in T /\ c1 \in S /\ next[c1] \in S /\ beyond = next[c1]
        BY <1>15, <1>17, <2>2
      <3>2. IsSuccessor(rank, T, c1, next[c1])
        BY <1>2, <1>4, <1>13, <1>17, <2>2, <3>1 DEF Chained, LinkedIn
      <3>3. BucketOf(next[c1], m) = BucketOf(cut, m)
        BY <1>3, <1>7, <1>15, <2>2, <3>1 DEF n0
      <3>4. next[c1] \in own
        BY <1>3, <1>8, <3>1, <3>3 DEF own
      <3>5. rank[cut] < rank[next[c1]]
        BY <1>16, <3>1
      <3>6. ASSUME NEW x \in own, rank[cut] < rank[x] PROVE rank[next[c1]] <= rank[x]
        <4>1. x \in T /\ ~(rank[x] <= rank[c1])
          BY <1>15, <1>19, <2>2, <3>6
        <4>2. rank[c1] < rank[x]
          BY <1>5, <1>11, <3>1, <4>1
        <4>3. QED
          BY <3>2, <4>1, <4>2 DEF IsSuccessor
      <3>7. QED
        BY <3>1, <3>4, <3>5, <3>6 DEF IsSuccessor
    <2>3. QED
      BY <2>1, <2>2
  <1>21. ASSUME NEW n \in S, n # cut, c1 = NULL \/ ~(rank[c1] <= rank[n])
         PROVE  LinkedIn(rank, In(m, BucketOf(n, m)), n)
    <2>1. CASE ~(rank[cut] <= rank[n])
      BY <1>6, <2>1
    <2>2. CASE rank[cut] <= rank[n]
      <3>1. n \in T /\ rank[cut] < rank[n]
        BY <1>3, <1>5, <1>16, <1>21, <2>2
      <3>2. LinkedIn(rank, Alike(T, m, n), n)
        <4>1. c1 = NULL \/ rank[n] < rank[c1]
          BY <1>5, <1>17, <1>21
        <4>2. QED
          BY <1>15, <3>1, <4>1
      <3> DEFINE U == In(m, BucketOf(n, m))
      <3>3. /\ \A x \in U : x \in S /\ BucketOf(x, m) = BucketOf(n, m)
            /\ \A x \in S : BucketOf(x, m) = BucketOf(n, m) => x \in U
        BY <1>8
      <3> HIDE DEF U
      <3>4. Alike(T, m, n) \subseteq U
        BY <1>11, <3>3 DEF Alike
      <3>5. \A x \in U : rank[n] < rank[x] => x \in Alike(T, m, n)
        <4>1. \A x \in S : rank[n] < rank[x] => rank[cut] < rank[x]
          BY <1>3, <1>5, <3>1
        <4>2. QED
          BY <1>16, <3>3, <4>1 DEF Alike
      <3>6. CASE IsSuccessor(rank, Alike(T, m, n), n, next[n])
        BY <3>4, <3>5, <3>6 DEF LinkedIn, IsSuccessor, U
      <3>7. CASE next[n] = NULL /\ IsGreatest(rank, Alike(T, m, n), n)
        <4>1. \A x \in U : ~(rank[n] < rank[x])
          <5>1. \A x \in Alike(T, m, n) : rank[x] <= rank[n]
            BY <3>7 DEF IsGreatest
          <5>2. \A x \in U : rank[x] \in Int /\ rank[n] \in Int
            BY <1>5, <3>3
          <5>3. QED
            BY <3>5, <5>1, <5>2
        <4>2. IsGreatest(rank, U, n)
          <5>1. \A x \in U : rank[x] \in Int /\ rank[n] \in Int
            BY <1>5, <3>3
          <5>2. QED
            BY <4>1, <5>1 DEF IsGreatest
        <4>3. QED
          BY <3>7, <4>2 DEF LinkedIn, U
      <3>8. QED
        BY <3>2, <3>6, <3>7 DEF LinkedIn
    <2>3. QED
      BY <2>1, <2>2
  <1>22. ASSUME NEW n \in S, c1 # NULL, rank[c1] <= rank[n] PROVE LinkedIn(rank, S, n)
    <2>1. rank[cut] <= rank[n]
      BY <1>3, <1>5, <1>17, <1>22
    <2>2. QED
      BY <1>6, <2>1
  <1>23. beyond \in members \cup {NULL}
    BY <1>4, <1>17
  <1>24. \E U \in SUBSET S : Chained(rank, U) /\ n0 \in U /\ \A x \in U : rank[n0] <= rank[x]
    BY <1>11, <1>13
  <1>25. QED
    BY <1>3, <1>15, <1>17, <1>20, <1>21, <1>22, <1>23, <1>24 DEF S, own, n0
LEMMA UnzipStep ==
  ASSUME IInv, unzipOneSegment
  PROVE  IInv'
  <1>1. PICK rank, m, h, k : Sizes(m, h, k) /\ Loops(h) /\ Chains(rank, m, h, k)
    BY DEF IInv, TableInv
  <1>2. PICK c1, beyond :
          /\ c1 = SegmentEnd(next[Cut], NrBuckets(current))
          /\ beyond = IF c1 = NULL THEN NULL ELSE next[c1]
          /\ UnzipWith(c1, beyond)
    BY DEF unzipOneSegment, NextCut, BeyondNextCut
  <1>3. /\ wpc = "unzip" /\ wpc' = "unzip" /\ iHalf < NrBuckets(other) /\ Cut # NULL
        /\ buckets' = [buckets EXCEPT ![other][iHalf] = c1]
        /\ next' = [next EXCEPT ![Cut] = beyond]
        /\ iHalf' = iHalf + 1 /\ allFinished' = FALSE
        /\ UNCHANGED <<zoneVars, readerVars, current, size, limbo, members, releases, answers>>
    BY <1>2 DEF UnzipWith, Writer
  <1>4. VarTypes /\ WriterInv /\ ~releases /\ writer \notin syncing /\ iHalf \in Nat
        /\ members \in SUBSET Nodes /\ NULL \notin Nodes /\ NextType
        /\ current \in Arrays /\ DOMAIN buckets = Arrays /\ limbo \cap members = {}
    BY <1>3, TableAssumption DEF IInv, WriterInv, Continuation, VarTypes
  <1>5. /\ m \in Powers /\ m \in Nat /\ m > 1 /\ m <= MaxBuckets /\ NrBuckets(current) = m
        /\ h \in Nat /\ h # 0 /\ h \in Powers /\ h = m \div 2 /\ k = h /\ m = 2 * h
        /\ NrBuckets(other) = h
        /\ buckets[other] \in Heads(h) /\ DOMAIN buckets[other] = 0 .. h - 1
        /\ MaxBuckets \in Nat
    BY <1>1, <1>3, <1>4, UnzipSizes
  <1>6. iHalf \in 0 .. h - 1 /\ Cut = buckets[other][iHalf]
    <2>1. h \in Nat /\ iHalf \in Nat /\ iHalf < h
      BY <1>3, <1>4, <1>5
    <2>2. QED
      BY <2>1 DEF Cut
  <1>7. PICK b, cut : b = iHalf /\ cut = Cut
    OBVIOUS
  <1>8. /\ cut \in In(h, b) /\ beyond \in members \cup {NULL}
        /\ c1 # NULL => /\ c1 \in In(h, b) /\ c1 # cut
                        /\ next[c1] # NULL /\ BucketOf(next[c1], m) # BucketOf(c1, m)
        /\ \/ IsSuccessor(rank, In(m, BucketOf(cut, m)), cut, beyond)
           \/ beyond = NULL /\ IsGreatest(rank, In(m, BucketOf(cut, m)), cut)
        /\ \A n \in In(h, b) : n # cut /\ (c1 = NULL \/ ~(rank[c1] <= rank[n])) =>
             LinkedIn(rank, In(m, BucketOf(n, m)), n)
        /\ c1 # NULL => ~(rank[c1] <= rank[cut])
        /\ \A n \in In(h, b) : c1 # NULL /\ rank[c1] <= rank[n] => LinkedIn(rank, In(h, b), n)
    <2>1. b \in 0 .. h - 1 /\ cut = buckets[other][b] /\ cut # NULL
          /\ c1 = SegmentEnd(next[cut], m)
      BY <1>2, <1>3, <1>5, <1>6, <1>7
    <2>2. QED
      BY <1>1, <1>2, <1>3, <1>4, <2>1, OneSegment
  <1>9. \A c, d : In(c, d)' = In(c, d)
    BY <1>3 DEF In
  <1>10. /\ cut \in members /\ BucketOf(cut, h) = b
         /\ c1 # NULL => c1 \in members
    BY <1>8 DEF In
  <1>11. other \in Arrays /\ other # current /\ other' = other
    BY <1>3, <1>4 DEF other, Arrays
  <1>12. /\ DOMAIN buckets' = Arrays /\ buckets'[current] = buckets[current]
         /\ DOMAIN buckets'[other] = 0 .. h - 1
         /\ \A d \in 0 .. h - 1 : buckets'[other][d] = IF d = b THEN c1 ELSE buckets[other][d]
    BY <1>3, <1>4, <1>5, <1>6, <1>7, <1>11
  <1>13. buckets'[other] \in Heads(h)
    <2>1. \A d \in 0 .. h - 1 : buckets[other][d] \in Nodes \cup {NULL}
      BY <1>5 DEF Heads
    <2>2. c1 \in Nodes \cup {NULL}
      BY <1>4, <1>10
    <2>3. buckets'[other] = [buckets[other] EXCEPT ![b] = c1]
      BY <1>3, <1>4, <1>7, <1>11
    <2>4. QED
      BY <1>5, <1>6, <1>7, <2>2, <2>3 DEF Heads
  <1>14. /\ NextType' /\ next'[cut] = beyond
         /\ \A n \in Nodes : n # cut => next'[n] = next[n]
    BY <1>3, <1>4, <1>7, <1>8, <1>10 DEF NextType
  <1>15. VarTypes'
    <2>1. iHalf' \in Nat
      BY <1>3, <1>4
    <2>2. QED
      BY <1>3, <1>4, <1>12, <1>14, <2>1
      DEF VarTypes, ReadersTypes, Zone!TypeOK, zoneVars, readerVars
  <1>16. Sizes(m, h, k)'
    BY <1>1, <1>3, <1>5, <1>11, <1>12, <1>13 DEF Sizes, Expanding
  <1>17. Loops(h)'
    <2>1. iHalf' <= h /\ iHalf' <= MaxBuckets
      BY <1>3, <1>4, <1>5, <1>6
    <2>2. QED
      BY <1>3, <2>1 DEF Loops
  <1>18. ASSUME NEW n \in members PROVE LinkedIn(rank, Peers(rank, m, h, n), n)'
    <2>1. BucketOf(n, h) \in 0 .. h - 1
      BY <1>4, <1>5, BucketFacts
    <2>2. CASE BucketOf(n, h) # b
      <3>1. buckets'[other'][BucketOf(n, h)] = buckets[other][BucketOf(n, h)]
        BY <1>11, <1>12, <2>1, <2>2
      <3>2. Joined(rank, h, n)' = Joined(rank, h, n)
        BY <1>3, <3>1 DEF Joined
      <3>3. Peers(rank, m, h, n)' = Peers(rank, m, h, n)
        BY <1>9, <3>2 DEF Peers
      <3>4. n # cut
        BY <1>10, <2>2
      <3>5. next'[n] = next[n]
        BY <1>4, <1>14, <3>4
      <3>6. LinkedIn(rank, Peers(rank, m, h, n), n)
        BY <1>1 DEF Chains, Links
      <3>7. QED
        BY <3>3, <3>5, <3>6 DEF LinkedIn
    <2>3. CASE BucketOf(n, h) = b
      <3>1. Joined(rank, h, n)' <=> c1 # NULL /\ rank[c1] <= rank[n]
        <4>1. buckets'[other'][BucketOf(n, h)] = c1
          BY <1>11, <1>12, <2>1, <2>3
        <4>2. QED
          BY <1>3, <4>1 DEF Joined
      <3>2. n \in In(h, b)
        BY <2>3 DEF In
      <3>3. Peers(rank, m, h, n)' =
              IF Joined(rank, h, n)' THEN In(h, b) ELSE In(m, BucketOf(n, m))
        BY <1>9, <2>3 DEF Peers
      <3>4. CASE n = cut
        <4>1. Peers(rank, m, h, n)' = In(m, BucketOf(cut, m))
          BY <1>8, <3>1, <3>3, <3>4
        <4>2. QED
          BY <1>8, <1>14, <3>4, <4>1 DEF LinkedIn
      <3>5. CASE n # cut
        <4>1. LinkedIn(rank, Peers(rank, m, h, n)', n)
          BY <1>8, <3>1, <3>2, <3>3, <3>5
        <4>2. next'[n] = next[n]
          BY <1>4, <1>14, <3>5
        <4>3. QED
          BY <4>1, <4>2 DEF LinkedIn
      <3>6. QED
        BY <3>4, <3>5
    <2>4. QED
      BY <2>2, <2>3
  <1>19. Links(rank, m, h)'
    BY <1>3, <1>18 DEF Links
  <1>20. Published(rank, m)'
    BY <1>1, <1>3, <1>9, <1>12 DEF Chains, Published
  <1>21. Cuts(rank, m, h)'
    <2>1. ASSUME NEW d \in 0 .. h - 1, buckets'[other'][d] # NULL
          PROVE  LET c == buckets'[other'][d]
                 IN  /\ c \in In(h, d)
                     /\ next'[c] # NULL
                     /\ BucketOf(next'[c], m) # BucketOf(c, m)
      <3>1. CASE d = b
        <4>1. buckets'[other'][d] = c1 /\ c1 # NULL /\ c1 \in Nodes
          BY <1>4, <1>10, <1>11, <1>12, <2>1, <3>1
        <4>2. next'[c1] = next[c1]
          BY <1>8, <1>14, <4>1
        <4>3. QED
          BY <1>8, <3>1, <4>1, <4>2
      <3>2. CASE d # b
        <4>1. buckets'[other'][d] = buckets[other][d]
          BY <1>11, <1>12, <3>2
        <4>2. PICK c : c = buckets[other][d]
          OBVIOUS
        <4>3. c \in In(h, d) /\ next[c] # NULL /\ BucketOf(next[c], m) # BucketOf(c, m)
          BY <1>1, <1>3, <2>1, <4>1, <4>2 DEF Chains, Cuts
        <4>4. c # cut /\ c \in Nodes
          BY <1>4, <1>10, <3>2, <4>3 DEF In
        <4>5. next'[c] = next[c]
          BY <1>14, <4>4
        <4>6. QED
          BY <4>1, <4>2, <4>3, <4>5
      <3>3. QED
        BY <3>1, <3>2
    <2>2. QED
      BY <1>9, <2>1 DEF Cuts
  <1>22. OldHeads(rank, h)' /\ OldHeadsJoined(rank, k)' /\ JoinOrder(rank, m, h)'
    BY <1>3 DEF OldHeads, OldHeadsJoined, JoinOrder
  <1>23. TableInv'
    <2>1. rank \in [Nodes -> Int] /\ Ranked(rank, members')
      BY <1>1, <1>3 DEF Chains
    <2>2. QED
      BY <1>16, <1>17, <1>19, <1>20, <1>21, <1>22, <2>1 DEF TableInv, Chains
  <1>24. WriterInv'
    <2>1. \A x \in limbo : next'[x] = next[x]
      BY <1>4, <1>10, <1>14 DEF VarTypes
    <2>2. QED
      BY <1>3, <1>4, <2>1 DEF WriterInv, zoneVars
  <1>25. ReadersInv'
    BY <1>3, <1>4, ReadersStay
  <1>26. QED
    BY <1>15, <1>23, <1>24, <1>25 DEF IInv
-----------------------------------------------------------------------------
(* Halving the buckets.                                                     *)

\* The ranks rank1 are like rank, but those of B are above all others.
Lifted(rank, rank1, B) ==
  /\ \A x, y \in members : (x \in B <=> y \in B) =>
       /\ rank1[x] < rank1[y] <=> rank[x] < rank[y]
       /\ rank1[x] <= rank1[y] <=> rank[x] <= rank[y]
       /\ rank1[x] = rank1[y] => rank[x] = rank[y]
  /\ \A x, y \in members : x \notin B /\ y \in B => rank1[x] < rank1[y]

LEMMA LiftRanks ==
  ASSUME members \in SUBSET Nodes, NEW rank \in [Nodes -> Int], NEW B
  PROVE  \E rank1 \in [Nodes -> Int] : Lifted(rank, rank1, B)
  <1>1. IsFiniteSet(members)
    BY TableAssumption, FS_Subset
  <1>2. \A x \in members : rank[x] \in Int
    OBVIOUS
  <1>3. CASE members = {}
    BY <1>3 DEF Lifted
  <1>4. CASE members # {}
    <2>1. PICK lo \in members : \A x \in members : rank[lo] <= rank[x]
      BY <1>1, <1>2, <1>4, LeastRank
    <2>2. PICK hi \in members : \A x \in members : rank[x] <= rank[hi]
      BY <1>1, <1>2, <1>4, GreatestRank
    <2> DEFINE K == (rank[hi] - rank[lo]) + 1
               rank1 == [x \in Nodes |-> IF x \in B THEN rank[x] + K ELSE rank[x]]
    <2>3. K \in Int /\ \A x, y \in members : rank[x] < rank[y] + K
      BY <1>2, <2>1, <2>2
    <2>4. /\ \A x \in members : x \in B => rank1[x] = rank[x] + K
          /\ \A x \in members : x \notin B => rank1[x] = rank[x]
      OBVIOUS
    <2> HIDE DEF K
    <2>5. rank1 \in [Nodes -> Int]
      BY <2>3
    <2> HIDE DEF rank1
    <2>6. \A x, y \in members : x \notin B /\ y \in B => rank1[x] < rank1[y]
      BY <2>3, <2>4
    <2>7. ASSUME NEW x \in members, NEW y \in members, x \in B <=> y \in B
          PROVE  /\ rank1[x] < rank1[y] <=> rank[x] < rank[y]
                 /\ rank1[x] <= rank1[y] <=> rank[x] <= rank[y]
                 /\ rank1[x] = rank1[y] => rank[x] = rank[y]
      <3>1. rank[x] \in Int /\ rank[y] \in Int
        BY <1>2
      <3>2. CASE x \in B
        BY <2>3, <2>4, <2>7, <3>1, <3>2
      <3>3. CASE x \notin B
        BY <2>4, <2>7, <3>1, <3>3
      <3>4. QED
        BY <3>2, <3>3
    <2>8. QED
      BY <2>5, <2>6, <2>7 DEF Lifted
  <1>5. QED
    BY <1>3, <1>4

\* Chains apart from B, and within B, stay linked in the order of ranks.
LEMMA LiftedChain ==
  ASSUME NEW rank, NEW rank1, NEW B, Lifted(rank, rank1, B),
         NEW U, U \subseteq members, U \subseteq B \/ U \cap B = {}
  PROVE  /\ \A n \in U : LinkedIn(rank, U, n) => LinkedIn(rank1, U, n)
         /\ \A p : IsFirst(rank, U, p) => IsFirst(rank1, U, p)
  <1>1. \A x, y \in U : /\ rank1[x] < rank1[y] <=> rank[x] < rank[y]
                        /\ rank1[x] <= rank1[y] <=> rank[x] <= rank[y]
    BY DEF Lifted
  <1>2. ASSUME NEW n \in U, LinkedIn(rank, U, n) PROVE LinkedIn(rank1, U, n)
    <2>1. CASE IsSuccessor(rank, U, n, next[n])
      BY <1>1, <2>1 DEF LinkedIn, IsSuccessor
    <2>2. CASE next[n] = NULL /\ IsGreatest(rank, U, n)
      BY <1>1, <2>2 DEF LinkedIn, IsGreatest
    <2>3. QED
      BY <1>2, <2>1, <2>2 DEF LinkedIn
  <1>3. ASSUME NEW p, IsFirst(rank, U, p) PROVE IsFirst(rank1, U, p)
    BY <1>1, <1>3 DEF IsFirst
  <1>4. QED
    BY <1>2, <1>3

\* The chain from p1 is linked to the end of the chain from p0.
LinksEnd(p0, p1) ==
  next' = IF Chain(p0) = <<>> \/ p1 = NULL THEN next
          ELSE [next EXCEPT ![Last(Chain(p0))] = p1]

\* The chain of B linked to the end of the chain of A.
LEMMA JoinedChain ==
  ASSUME NextType, NULL \notin Nodes, members \in SUBSET Nodes,
         NEW rank, NEW rank1 \in [Nodes -> Int], Ranked(rank, members), NEW B \in SUBSET members,
         NEW A \in SUBSET members, A \cap B = {}, Lifted(rank, rank1, B),
         Chained(rank, A), Chained(rank, B),
         NEW p0, NEW p1, IsFirst(rank, A, p0), IsFirst(rank, B, p1),
         LinksEnd(p0, p1)
  PROVE  /\ NextType'
         /\ \A n \in Nodes \ A : next'[n] = next[n]
         /\ \A n \in A \cup B : \/ IsSuccessor(rank1, A \cup B, n, next'[n])
                                \/ next'[n] = NULL /\ IsGreatest(rank1, A \cup B, n)
  <1> DEFINE last == Last(Chain(p0))
  <1>1. A \in SUBSET Nodes /\ B \in SUBSET Nodes
    OBVIOUS
  <1>2. A = {} => p0 = NULL /\ Chain(p0) = <<>>
    BY ChainOfNULL DEF IsFirst
  <1>3. B = {} <=> p1 = NULL
    BY <1>1 DEF IsFirst
  <1>4. A # {} => /\ p0 \in A /\ Chain(p0) # <<>> /\ last \in A /\ next[last] = NULL
    <2>1. Ranked(rank, A)
      BY DEF Ranked
    <2>2. A # {} => p0 \in A
      BY DEF IsFirst
    <2>3. A # {} => Lists(Chain(p0), rank, A, p0)
      BY <1>1, <2>1, <2>2, ChainLists
    <2>4. QED
      BY <1>1, <2>2, <2>3, LastEndsChain
  <1>5. next' = IF A = {} \/ B = {} THEN next ELSE [next EXCEPT ![last] = p1]
    BY <1>2, <1>3, <1>4 DEF LinksEnd
  <1> HIDE DEF last
  <1>6. p1 \in Nodes \cup {NULL}
    BY <1>1 DEF IsFirst
  <1>7. NextType' /\ \A n \in Nodes \ A : next'[n] = next[n]
    <2>1. CASE A = {} \/ B = {}
      BY <1>5, <2>1 DEF NextType
    <2>2. CASE A # {} /\ B # {}
      BY <1>1, <1>4, <1>5, <1>6, <2>2 DEF NextType
    <2>3. QED
      BY <2>1, <2>2
  <1>8. /\ \A n \in A : LinkedIn(rank1, A, n)
        /\ \A n \in B : LinkedIn(rank1, B, n)
        /\ IsFirst(rank1, B, p1)
    <2>1. A \subseteq members /\ A \cap B = {} /\ B \subseteq members /\ B \subseteq B
      OBVIOUS
    <2>2. \A n \in A : LinkedIn(rank1, A, n)
      BY <2>1, LiftedChain DEF Chained
    <2>3. \A n \in B : LinkedIn(rank1, B, n)
      BY <2>1, LiftedChain DEF Chained
    <2>4. IsFirst(rank1, B, p1)
      BY <2>1, LiftedChain
    <2>5. QED
      BY <2>2, <2>3, <2>4
  <1>9. /\ \A x \in A : \A y \in B : rank1[x] < rank1[y]
        /\ \A x \in A \cup B : rank1[x] \in Int
    BY <1>1 DEF Lifted
  <1>10. \A x, y \in A : rank1[x] = rank1[y] => x = y
    BY DEF Lifted, Ranked
  <1>11. ASSUME NEW n \in B
         PROVE  \/ IsSuccessor(rank1, A \cup B, n, next[n])
                \/ next[n] = NULL /\ IsGreatest(rank1, A \cup B, n)
    <2>1. CASE IsSuccessor(rank1, B, n, next[n])
      BY <1>9, <2>1 DEF IsSuccessor
    <2>2. CASE next[n] = NULL /\ IsGreatest(rank1, B, n)
      BY <1>9, <2>2 DEF IsGreatest
    <2>3. QED
      BY <1>8, <2>1, <2>2 DEF LinkedIn
  <1>12. ASSUME NEW n \in A
         PROVE  \/ IsSuccessor(rank1, A \cup B, n, next'[n])
                \/ next'[n] = NULL /\ IsGreatest(rank1, A \cup B, n)
    <2>1. CASE B = {}
      BY <1>5, <1>8, <2>1 DEF LinkedIn
    <2>2. CASE B # {} /\ n = last
      <3>1. next'[n] = p1 /\ p1 \in B /\ \A y \in B : rank1[p1] <= rank1[y]
        BY <1>1, <1>5, <1>8, <2>2 DEF NextType, IsFirst
      <3>2. IsGreatest(rank1, A, n)
        BY <1>1, <1>4, <1>8, <2>2 DEF LinkedIn, IsSuccessor
      <3>3. \A x \in A : ~(rank1[n] < rank1[x])
        BY <1>9, <3>2 DEF IsGreatest
      <3>4. IsSuccessor(rank1, A \cup B, n, p1)
        BY <1>9, <3>1, <3>3 DEF IsSuccessor
      <3>5. QED
        BY <3>1, <3>4
    <2>3. CASE n # last
      <3>1. next'[n] = next[n]
        BY <1>1, <1>4, <1>5, <2>3 DEF NextType
      <3>2. IsSuccessor(rank1, A, n, next[n])
        <4>1. IsGreatest(rank1, A, last) /\ last \in A
          BY <1>1, <1>4, <1>8 DEF LinkedIn, IsSuccessor
        <4>2. ~IsGreatest(rank1, A, n)
          BY <1>9, <1>10, <2>3, <4>1 DEF IsGreatest
        <4>3. QED
          BY <1>8, <4>2 DEF LinkedIn
      <3>3. next[n] \in A /\ \A y \in B : rank1[next[n]] <= rank1[y]
        BY <1>9, <3>2 DEF IsSuccessor
      <3>4. IsSuccessor(rank1, A \cup B, n, next[n])
        BY <3>2, <3>3 DEF IsSuccessor
      <3>5. QED
        BY <3>1, <3>4
    <2>4. QED
      BY <2>1, <2>2, <2>3
  <1>13. \A n \in B : next'[n] = next[n]
    BY <1>1, <1>7
  <1>14. QED
    BY <1>7, <1>11, <1>12, <1>13
LEMMA JoinStep ==
  ASSUME IInv, shrinkTwoBucketsToOne
  PROVE  IInv'
  <1>1. PICK rank, m, h, k : Sizes(m, h, k) /\ Loops(h) /\ Chains(rank, m, h, k)
    BY DEF IInv, TableInv
  <1>2. PICK last : last = Last(FirstChain) /\ Join(last, buckets[current][iHalf + half])
    BY DEF shrinkTwoBucketsToOne
  <1>3. /\ wpc = "shrink" /\ iHalf < half
        /\ wpc' = IF iHalf + 1 = half THEN "publish" ELSE "shrink"
        /\ next' = IF FirstChain = <<>> \/ buckets[current][iHalf + half] = NULL
                   THEN next
                   ELSE [next EXCEPT ![last] = buckets[current][iHalf + half]]
        /\ iHalf' = IF iHalf + 1 = half THEN 0 ELSE iHalf + 1
        /\ UNCHANGED <<zoneVars, readerVars, buckets, current, size, members, limbo,
                       allFinished, releases, answers>>
    BY <1>2 DEF Join, Writer
  <1>4. VarTypes /\ WriterInv /\ writer \notin syncing /\ iHalf \in Nat
        /\ members \in SUBSET Nodes /\ NULL \notin Nodes /\ NextType
        /\ limbo \cap members = {} /\ limbo \subseteq Nodes
    BY <1>3, TableAssumption DEF IInv, WriterInv, Continuation, VarTypes
  <1>5. /\ m \in Powers /\ m \in Nat /\ m > 1 /\ m <= MaxBuckets
        /\ NrBuckets(current) = m /\ h = m \div 2
    BY <1>1, <1>3, PowerFacts, NrBucketsOf DEF Sizes
  <1>6. h \in Nat /\ h # 0 /\ h \in Powers /\ m = 2 * h /\ half = h
    BY <1>5, Twins DEF half
  <1>7. PICK b : b = iHalf
    OBVIOUS
  <1>8. b \in 0 .. h - 1 /\ b + h \in 0 .. m - 1 /\ b \in 0 .. m - 1
    BY <1>3, <1>4, <1>6, <1>7
  <1>9. \A n \in members : /\ BucketOf(n, h) \in 0 .. h - 1
                           /\ BucketOf(n, m) \in {BucketOf(n, h), BucketOf(n, h) + h}
    BY <1>4, <1>5, Twins
  <1>10. rank \in [Nodes -> Int] /\ Ranked(rank, members)
    BY <1>1 DEF Chains
  <1>11. PICK A, B, p0, p1 :
           /\ A = In(m, b) /\ B = In(m, b + h)
           /\ p0 = buckets[current][b] /\ p1 = buckets[current][b + h]
    OBVIOUS
  <1>12. /\ A \in SUBSET members /\ B \in SUBSET members /\ A \cap B = {}
         /\ A \cup B = In(h, b)
         /\ \A n \in members : BucketOf(n, h) # b => n \notin A /\ n \notin B
         /\ \A n \in members : BucketOf(n, m) = b + h <=> n \in B
    <2>1. A \cup B = In(h, b)
      BY <1>4, <1>5, <1>8, <1>11, TwinSets
    <2>2. A \in SUBSET members /\ B \in SUBSET members /\ A \cap B = {}
      BY <1>6, <1>8, <1>11 DEF In
    <2>3. \A n \in A \cup B : BucketOf(n, h) = b
      BY <2>1 DEF In
    <2>4. QED
      BY <1>11, <2>1, <2>2, <2>3 DEF In
  <1>13. \A n \in A \cup B : ~Joined(rank, h, n)
    <2>1. \A n \in A \cup B : BucketOf(n, h) = b
      BY <1>12 DEF In
    <2>2. QED
      BY <1>3, <1>6, <1>7, <1>8, <2>1 DEF Joined
  <1>14. Chained(rank, A) /\ Chained(rank, B)
    <2>1. \A n \in A \cup B : LinkedIn(rank, In(m, BucketOf(n, m)), n)
      BY <1>1, <1>12, <1>13 DEF Chains, Links, Peers
    <2>2. /\ \A n \in A : BucketOf(n, m) = b
          /\ \A n \in B : BucketOf(n, m) = b + h
      BY <1>11 DEF In
    <2>3. QED
      BY <1>11, <2>1, <2>2 DEF Chained
  <1>15. IsFirst(rank, A, p0) /\ IsFirst(rank, B, p1)
    BY <1>1, <1>8, <1>11 DEF Chains, Published
  <1>16. PICK rank1 \in [Nodes -> Int] : Lifted(rank, rank1, B)
    BY <1>4, <1>10, LiftRanks
  <1>17. LinksEnd(p0, p1)
    BY <1>2, <1>3, <1>6, <1>7, <1>11 DEF FirstChain, LinksEnd
  <1>18. /\ NextType'
         /\ \A n \in Nodes \ A : next'[n] = next[n]
         /\ \A n \in A \cup B : \/ IsSuccessor(rank1, A \cup B, n, next'[n])
                                \/ next'[n] = NULL /\ IsGreatest(rank1, A \cup B, n)
    <2>1. NextType /\ NULL \notin Nodes /\ members \in SUBSET Nodes
      BY <1>4
    <2>2. A \in SUBSET members /\ B \in SUBSET members /\ A \cap B = {}
      BY <1>12
    <2>3. rank1 \in [Nodes -> Int] /\ Ranked(rank, members)
      BY <1>10, <1>16
    <2>4. QED
      BY <1>14, <1>15, <1>16, <1>17, <2>1, <2>2, <2>3, JoinedChain
  <1>19. /\ \A c, d : In(c, d)' = In(c, d)
         /\ other' = other
    BY <1>3 DEF In, other
  <1>20. wpc' \in {"shrink", "publish"} /\ iHalf' \in Nat
         /\ (wpc' = "shrink" => iHalf' = b + 1 /\ b + 1 < h)
         /\ (wpc' = "publish" => iHalf' = 0 /\ b + 1 = h)
    BY <1>3, <1>4, <1>6, <1>7, <1>8
  <1>21. VarTypes'
    <2>1. wpc' \in WriterPC
      BY <1>20 DEF WriterPC
    <2>2. QED
      BY <1>3, <1>4, <1>18, <1>20, <2>1
      DEF VarTypes, ReadersTypes, Zone!TypeOK, zoneVars, readerVars
  <1>22. Sizes(m, h, k)'
    BY <1>1, <1>3, <1>5, <1>19, <1>20 DEF Sizes, Expanding
  <1>23. Loops(h)'
    BY <1>20 DEF Loops
  <1>24. \A n \in members : Joined(rank1, h, n)' <=> BucketOf(n, h) <= b
    <2>1. CASE wpc' = "shrink"
      BY <1>8, <1>9, <1>20, <2>1 DEF Joined
    <2>2. CASE wpc' = "publish"
      BY <1>6, <1>8, <1>9, <1>20, <2>2 DEF Joined
    <2>3. QED
      BY <1>20, <2>1, <2>2
  <1>25. \A n \in members : BucketOf(n, h) # b =>
           (Joined(rank1, h, n)' <=> Joined(rank, h, n))
    <2>1. \A n \in members : Joined(rank, h, n) <=> BucketOf(n, h) < b
      BY <1>3, <1>7 DEF Joined
    <2>2. QED
      BY <1>8, <1>9, <1>24, <2>1
  <1>26. ASSUME NEW n \in members PROVE LinkedIn(rank1, Peers(rank1, m, h, n), n)'
    <2>1. CASE BucketOf(n, h) = b
      <3>1. n \in A \cup B
        BY <1>12, <2>1 DEF In
      <3>2. Joined(rank1, h, n)'
        BY <1>8, <1>24, <2>1
      <3>3. Peers(rank1, m, h, n)' = A \cup B
        BY <1>12, <1>19, <2>1, <3>2 DEF Peers
      <3>4. QED
        BY <1>18, <3>1, <3>3 DEF LinkedIn
    <2>2. CASE BucketOf(n, h) # b
      <3>1. PICK U : U = Peers(rank, m, h, n)
        OBVIOUS
      <3>2. Peers(rank1, m, h, n)' = U
        BY <1>19, <1>25, <2>2, <3>1 DEF Peers
      <3>3. n \in U /\ U \subseteq members /\ \A x \in U : BucketOf(x, h) # b
        <4>1. \A x \in members : BucketOf(x, m) = BucketOf(n, m) => BucketOf(x, h) = BucketOf(n, h)
          BY <1>4, <1>5, TwinSets
        <4>2. QED
          BY <2>2, <3>1, <4>1 DEF Peers, In
      <3>4. LinkedIn(rank, U, n)
        BY <1>1, <3>1 DEF Chains, Links
      <3>5. U \cap B = {} /\ n \notin A
        BY <1>12, <2>2, <3>3
      <3>6. LinkedIn(rank1, U, n)
        BY <1>16, <3>3, <3>4, <3>5, LiftedChain
      <3>7. next'[n] = next[n]
        BY <1>4, <1>18, <3>5
      <3>8. QED
        BY <3>2, <3>6, <3>7 DEF LinkedIn
    <2>3. QED
      BY <2>1, <2>2
  <1>27. Links(rank1, m, h)'
    BY <1>3, <1>26 DEF Links
  <1>28. Published(rank1, m)'
    <2>1. ASSUME NEW c \in 0 .. m - 1 PROVE IsFirst(rank1, In(m, c), buckets[current][c])
      <3>1. IsFirst(rank, In(m, c), buckets[current][c])
        BY <1>1 DEF Chains, Published
      <3>2. /\ In(m, c) \subseteq members
            /\ In(m, c) \subseteq B \/ In(m, c) \cap B = {}
        BY <1>11 DEF In
      <3>3. QED
        BY <1>16, <3>1, <3>2, LiftedChain
    <2>2. QED
      BY <1>3, <1>19, <2>1 DEF Published
  <1>29. JoinOrder(rank1, m, h)'
    <2>1. ASSUME NEW x \in members, NEW y \in members,
                 BucketOf(x, h) = BucketOf(y, h), Joined(rank1, h, x)',
                 BucketOf(x, m) < h, h <= BucketOf(y, m)
          PROVE  rank1[x] < rank1[y]
      <3>1. CASE BucketOf(x, h) = b
        <4>1. BucketOf(x, m) # b + h /\ BucketOf(y, m) = b + h
          <5>1. h \in Nat /\ b \in Nat /\ b < h
            BY <1>6, <1>8
          <5>2. BucketOf(x, m) \in {b, b + h} /\ BucketOf(y, m) \in {b, b + h}
            BY <1>9, <2>1, <3>1
          <5>3. QED
            BY <2>1, <5>1, <5>2
        <4>2. x \notin B /\ y \in B
          BY <1>12, <4>1
        <4>3. QED
          BY <1>16, <4>2 DEF Lifted
      <3>2. CASE BucketOf(x, h) # b
        <4>1. Joined(rank, h, x)
          BY <1>25, <2>1, <3>2
        <4>2. rank[x] < rank[y]
          BY <1>1, <1>3, <2>1, <4>1 DEF Chains, JoinOrder
        <4>3. x \notin B /\ y \notin B
          BY <1>12, <2>1, <3>2
        <4>4. QED
          BY <1>16, <4>2, <4>3 DEF Lifted
      <3>3. QED
        BY <3>1, <3>2
    <2>2. QED
      BY <1>3, <2>1 DEF JoinOrder
  <1>30. Ranked(rank1, members')
    <2>1. \A x \in members : rank1[x] \in Int
      BY <1>4
    <2>2. ASSUME NEW x \in members, NEW y \in members, rank1[x] = rank1[y] PROVE x = y
      <3>1. x \in B <=> y \in B
        BY <1>16, <2>1, <2>2 DEF Lifted
      <3>2. QED
        BY <1>10, <1>16, <2>2, <3>1 DEF Lifted, Ranked
    <2>3. QED
      BY <1>3, <2>1, <2>2 DEF Ranked
  <1>31. OldHeads(rank1, h)' /\ OldHeadsJoined(rank1, k)' /\ Cuts(rank1, m, h)'
    BY <1>20 DEF OldHeads, OldHeadsJoined, Cuts
  <1>32. TableInv'
    BY <1>22, <1>23, <1>27, <1>28, <1>29, <1>30, <1>31 DEF TableInv, Chains
  <1>33. WriterInv'
    <2>1. \A x \in limbo : next'[x] = next[x]
      BY <1>4, <1>12, <1>18
    <2>2. QED
      BY <1>3, <1>4, <1>20, <2>1 DEF WriterInv, zoneVars
  <1>34. ReadersInv'
    BY <1>3, <1>4, <1>20, ReadersStay
  <1>35. QED
    BY <1>21, <1>32, <1>33, <1>34 DEF IInv
LEMMA PublishShrunkStep ==
  ASSUME IInv, PublishShrunk
  PROVE  IInv'
  <1>1. PICK rank, m, h, k : Sizes(m, h, k) /\ Loops(h) /\ Chains(rank, m, h, k)
    BY DEF IInv, TableInv
  <1>2. /\ wpc = "publish" /\ wpc' = "shrunk"
        /\ UNCHANGED <<zoneVars, readerVars, next, size, limbo, members, iHalf,
                       allFinished, releases, answers>>
        /\ buckets' = [buckets EXCEPT ![other] = JoinedBuckets]
        /\ current' = other
    BY DEF PublishShrunk, Publish, Writer
  <1>3. /\ VarTypes /\ WriterInv /\ writer \notin syncing
        /\ current \in Arrays /\ DOMAIN buckets = Arrays /\ members \in SUBSET Nodes
    BY <1>2 DEF IInv, WriterInv, Continuation, VarTypes
  <1>4. /\ m \in Powers /\ m \in Nat /\ m > 1 /\ m <= MaxBuckets
        /\ NrBuckets(current) = m /\ h = m \div 2 /\ buckets[current] \in Heads(m)
    BY <1>1, <1>2, PowerFacts, NrBucketsOf DEF Sizes
  <1>5. /\ h \in Nat /\ h # 0 /\ h \in Powers /\ m = 2 * h /\ half = h
        /\ MaxBuckets \in Nat /\ h <= MaxBuckets
    <2>1. MaxBuckets \in Nat
      BY TableAssumption, PowerFacts
    <2>2. h \in Nat /\ h # 0 /\ h \in Powers /\ m = 2 * h /\ half = h
      BY <1>4, Twins DEF half
    <2>3. QED
      BY <1>4, <2>1, <2>2
  <1>6. other \in Arrays /\ other # current /\ other' = current
    BY <1>2, <1>3 DEF other, Arrays
  <1>7. /\ DOMAIN buckets' = Arrays /\ buckets'[current'] = JoinedBuckets
        /\ buckets'[other'] = buckets[current]
    BY <1>2, <1>3, <1>6
  <1>8. \A n \in members : /\ BucketOf(n, h) \in 0 .. h - 1
                           /\ BucketOf(n, m) \in {BucketOf(n, h), BucketOf(n, h) + h}
    BY <1>3, <1>4, Twins
  <1>9. \A b \in 0 .. h - 1 : IsFirst(rank, In(h, b), buckets'[current'][b])
    <2>1. SUFFICES ASSUME NEW b \in 0 .. h - 1
                   PROVE  IsFirst(rank, In(h, b), buckets'[current'][b])
      OBVIOUS
    <2>2. PICK A, B, p0, p1 :
            /\ A = In(m, b) /\ B = In(m, b + h)
            /\ p0 = buckets[current][b] /\ p1 = buckets[current][b + h]
      OBVIOUS
    <2>3. buckets'[current'][b] = IF p0 # NULL THEN p0 ELSE p1
      BY <1>5, <1>7, <2>2 DEF JoinedBuckets
    <2>4. b \in 0 .. m - 1 /\ b + h \in 0 .. m - 1
      BY <1>5
    <2>5. IsFirst(rank, A, p0) /\ IsFirst(rank, B, p1)
      BY <1>1, <2>2, <2>4 DEF Chains, Published
    <2>6. In(h, b) = A \cup B
      BY <1>3, <1>4, <2>2, TwinSets
    <2>7. \A x \in A : \A y \in B : rank[x] < rank[y]
      <3>1. SUFFICES ASSUME NEW x \in A, NEW y \in B PROVE rank[x] < rank[y]
        OBVIOUS
      <3>2. x \in members /\ y \in members /\ BucketOf(x, h) = b /\ BucketOf(y, h) = b
        BY <2>2, <2>6 DEF In
      <3>3. BucketOf(x, m) < h /\ h <= BucketOf(y, m)
        BY <1>5, <2>2 DEF In
      <3>4. Joined(rank, h, x)
        BY <1>2 DEF Joined
      <3>5. QED
        BY <1>1, <1>2, <3>2, <3>3, <3>4 DEF Chains, JoinOrder
    <2>8. /\ A \cup B \subseteq Nodes /\ NULL \notin Nodes
          /\ \A x \in A \cup B : rank[x] \in Int
      BY <1>1, <1>3, <2>2, TableAssumption DEF In, Chains
    <2>9. IsFirst(rank, A \cup B, IF p0 # NULL THEN p0 ELSE p1)
      <3>1. CASE A = {}
        BY <2>5, <3>1 DEF IsFirst
      <3>2. CASE A # {}
        <4>1. p0 # NULL /\ p0 \in A /\ \A x \in A : rank[p0] <= rank[x]
          BY <2>5, <2>8, <3>2 DEF IsFirst
        <4>2. \A y \in B : rank[p0] <= rank[y]
          BY <2>7, <2>8, <4>1
        <4>3. QED
          BY <4>1, <4>2 DEF IsFirst
      <3>3. QED
        BY <3>1, <3>2
    <2>10. QED
      BY <2>3, <2>6, <2>9
  <1>10. buckets'[current'] \in Heads(h)
    <2>1. ASSUME NEW b \in 0 .. h - 1 PROVE buckets'[current'][b] \in Nodes \cup {NULL}
      BY <1>3, <1>9 DEF IsFirst, In
    <2>2. buckets'[current'] = [b \in 0 .. h - 1 |-> buckets'[current'][b]]
      BY <1>5, <1>7 DEF JoinedBuckets
    <2>3. QED
      BY <2>1, <2>2 DEF Heads
  <1>11. VarTypes'
    <2>1. wpc' \in WriterPC /\ current' \in Arrays
      BY <1>2, <1>6 DEF WriterPC
    <2>2. QED
      BY <1>2, <1>3, <1>7, <2>1
      DEF VarTypes, NextType, ReadersTypes, Zone!TypeOK, zoneVars, readerVars
  <1>12. PICK h1 : h1 = h \div 2
    OBVIOUS
  <1>13. Sizes(h, h1, m)'
    BY <1>2, <1>4, <1>5, <1>7, <1>10, <1>12 DEF Sizes, Expanding
  <1>14. Loops(h1)'
    BY <1>1, <1>2 DEF Loops
  <1>15. \A c, b : In(c, b)' = In(c, b)
    BY <1>2 DEF In
  <1>16. Plain(rank, h)'
    <2>1. \A n \in members : Peers(rank, m, h, n) = In(h, BucketOf(n, h))
      BY <1>2 DEF Peers, Joined
    <2>2. \A n \in members' : LinkedIn(rank, In(h, BucketOf(n, h)), n)'
      BY <1>1, <1>2, <1>15, <2>1 DEF Chains, Links, LinkedIn
    <2>3. Published(rank, h)'
      BY <1>9, <1>15 DEF Published
    <2>4. rank \in [Nodes -> Int] /\ Ranked(rank, members')
      BY <1>1, <1>2 DEF Chains
    <2>5. QED
      BY <2>2, <2>3, <2>4 DEF Plain
  <1>17. OldHeadsJoined(rank, m)'
    <2>1. \A b \in 0 .. m - 1 : IsFirst(rank, In(m, b), buckets[current][b])
      BY <1>1 DEF Chains, Published
    <2>2. QED
      BY <1>2, <1>7, <1>15, <2>1 DEF OldHeadsJoined
  <1>18. TableInv'
    <2>1. wpc' \in PlainPC /\ members' \in SUBSET Nodes
      BY <1>2, <1>3 DEF PlainPC
    <2>2. Chains(rank, h, h1, m)'
      BY <1>13, <1>16, <1>17, <2>1, ChainsOfPlain
    <2>3. QED
      BY <1>13, <1>14, <2>2 DEF TableInv
  <1>19. WriterInv'
    BY <1>2, <1>3 DEF WriterInv, zoneVars
  <1>20. ReadersInv'
    BY <1>2, <1>3, ReadersStay
  <1>21. QED
    BY <1>11, <1>18, <1>19, <1>20 DEF IInv

-----------------------------------------------------------------------------
(* The return of a call.                                                    *)

LEMMA FreeOldStep ==
  ASSUME IInv, FreeOld
  PROVE  IInv'
  <1>1. PICK rank, m, h, k : Sizes(m, h, k) /\ Loops(h) /\ Chains(rank, m, h, k)
    BY DEF IInv, TableInv
  <1>2. /\ wpc = "free" /\ wpc' = "idle"
        /\ UNCHANGED <<zoneVars, readerVars, current, size, members, allFinished, answers>>
        /\ buckets' = [buckets EXCEPT ![other] = free]
        /\ GiveBackIf(releases) /\ iHalf' = 0
    BY DEF FreeOld, Free, Writer
  <1>3. /\ VarTypes /\ WriterInv /\ writer \notin syncing
        /\ current \in Arrays /\ DOMAIN buckets = Arrays /\ members \in SUBSET Nodes
        /\ NextType /\ limbo \cap members = {} /\ limbo \subseteq Nodes
        /\ releases \in BOOLEAN /\ NULL \notin Nodes
    BY <1>2, TableAssumption DEF IInv, WriterInv, Continuation, VarTypes
  <1>4. /\ limbo' = IF releases THEN {} ELSE limbo
        /\ releases' = FALSE
        /\ NextType'
        /\ \A n \in members : next'[n] = next[n]
        /\ \A n \in limbo' : next'[n] = next[n]
    <2>1. CASE releases
      BY <1>2, <1>3, <2>1 DEF GiveBackIf, NextType
    <2>2. CASE ~releases
      BY <1>2, <1>3, <2>2 DEF GiveBackIf, NextType
    <2>3. QED
      BY <2>1, <2>2
  <1>5. other \in Arrays /\ other # current /\ other' = other
    BY <1>2, <1>3 DEF other, Arrays
  <1>6. /\ DOMAIN buckets' = Arrays /\ buckets'[current'] = buckets[current]
        /\ buckets'[other'] = free
    BY <1>2, <1>3, <1>5
  <1>7. free \in Heads(0)
    BY DEF free, Heads
  <1>8. VarTypes'
    <2>1. wpc' \in WriterPC
      BY <1>2 DEF WriterPC
    <2>2. ReadersTypes'
      BY <1>2, <1>3 DEF VarTypes, ReadersTypes, Zone!TypeOK, zoneVars, readerVars
    <2>3. QED
      BY <1>2, <1>3, <1>4, <1>6, <2>1, <2>2 DEF VarTypes
  <1>9. Sizes(m, h, 0)'
    BY <1>1, <1>2, <1>6, <1>7 DEF Sizes, Expanding
  <1>10. Loops(h)'
    BY <1>2 DEF Loops
  <1>11. Plain(rank, m)
    <2>1. wpc \in PlainPC
      BY <1>2 DEF PlainPC
    <2>2. QED
      BY <1>1, <1>3, <2>1, PlainChains
  <1>12. \A c, b : In(c, b)' = In(c, b)
    BY <1>2 DEF In
  <1>13. Plain(rank, m)'
    <2>1. Published(rank, m)'
      BY <1>6, <1>11, <1>12 DEF Plain, Published
    <2>2. \A n \in members' : LinkedIn(rank, In(m, BucketOf(n, m)), n)'
      BY <1>2, <1>4, <1>11, <1>12 DEF Plain, LinkedIn
    <2>3. QED
      BY <1>2, <1>11, <2>1, <2>2 DEF Plain
  <1>14. TableInv'
    <2>1. OldHeadsJoined(rank, 0)' /\ wpc' \in PlainPC /\ members' \in SUBSET Nodes
      BY <1>2, <1>3 DEF PlainPC, OldHeadsJoined
    <2>2. Chains(rank, m, h, 0)'
      BY <1>9, <1>13, <2>1, ChainsOfPlain
    <2>3. QED
      BY <1>9, <1>10, <2>2 DEF TableInv
  <1>15. WriterInv'
    BY <1>2, <1>3, <1>4 DEF WriterInv, zoneVars
  <1>16. ASSUME NEW r \in Readers PROVE ReaderInv(r)'
    <2>1. ReaderInv(r)
      BY DEF IInv, ReadersInv
    <2>2. UNCHANGED <<inside, syncing, waiting, rpc, target, array, pos, held>>
      BY <1>2 DEF zoneVars, readerVars
    <2>3. Uses(r)' = Uses(r) /\ ~Fresh(r)'
      BY <1>2, <1>4, <2>2 DEF Uses, Fresh
    <2>4. Uses(r) \subseteq members' \cup limbo'
      <3>1. CASE releases
        BY <1>2, <2>1, <3>1 DEF ReaderInv, Fresh
      <3>2. CASE ~releases
        BY <1>2, <1>4, <2>1, <3>2 DEF ReaderInv
      <3>3. QED
        BY <3>1, <3>2
    <2>5. rpc[r] = "head" => array[r] = current
      BY <1>2, <2>1 DEF ReaderInv
    <2>6. QED
      BY <1>2, <2>1, <2>2, <2>3, <2>4, <2>5 DEF ReaderInv
  <1>17. QED
    BY <1>8, <1>14, <1>15, <1>16 DEF IInv, ReadersInv
-----------------------------------------------------------------------------
(* The invariant.                                                           *)

LEMMA InitIInv == Init => IInv
  <1> SUFFICES ASSUME Init PROVE IInv
    OBVIOUS
  <1>1. /\ next = [n \in Nodes |-> NULL] /\ current = 0 /\ size = 0
        /\ members = {} /\ limbo = {} /\ wpc = "idle" /\ iHalf = 0
        /\ allFinished = TRUE /\ releases = FALSE /\ Zone!Init
        /\ rpc = [r \in Readers |-> "out"]
        /\ target = [r \in Readers |-> NULL]
        /\ array = [r \in Readers |-> 0]
        /\ pos = [r \in Readers |-> NULL]
        /\ held = [r \in Readers |-> {}]
        /\ answers = [r \in Readers |-> {}]
        /\ DOMAIN buckets = Arrays
        /\ buckets[0] = [b \in 0 .. nrBuckets - 1 |-> NULL]
        /\ buckets[1] = free
    BY DEF Init, Arrays
  <1>2. MaxInserts \in Nat /\ NULL \notin Nodes
    BY TableAssumption
  <1>3. VarTypes
    <2>1. ReadersTypes
      BY <1>1 DEF ReadersTypes, Zone!TypeOK, Zone!Init, Arrays
    <2>2. NextType /\ size \in 0 .. MaxInserts /\ wpc \in WriterPC /\ current \in Arrays
      BY <1>1, <1>2 DEF NextType, WriterPC, Arrays
    <2>3. QED
      BY <1>1, <2>1, <2>2 DEF VarTypes
  <1>4. other = 1
    BY <1>1 DEF other
  <1>5. Sizes(nrBuckets, nrBuckets \div 2, 0)
    <2>1. nrBuckets \in Powers /\ nrBuckets <= MaxBuckets
      BY TableAssumption
    <2>2. buckets[current] \in Heads(nrBuckets)
      BY <1>1 DEF Heads
    <2>3. free \in Heads(0)
      BY DEF Heads, free
    <2>4. QED
      BY <1>1, <1>4, <2>1, <2>2, <2>3 DEF Sizes, Expanding
  <1>6. Loops(nrBuckets \div 2)
    BY <1>1 DEF Loops
  <1>7. PICK rank : rank = [n \in Nodes |-> 0]
    OBVIOUS
  <1>8. Chains(rank, nrBuckets, nrBuckets \div 2, 0)
    <2>1. rank \in [Nodes -> Int] /\ Ranked(rank, members)
      BY <1>1, <1>7 DEF Ranked
    <2>2. Links(rank, nrBuckets, nrBuckets \div 2)
      BY <1>1 DEF Links
    <2>3. Published(rank, nrBuckets)
      BY <1>1 DEF Published, In, IsFirst
    <2>4. /\ OldHeads(rank, nrBuckets \div 2) /\ OldHeadsJoined(rank, 0)
          /\ Cuts(rank, nrBuckets, nrBuckets \div 2)
          /\ JoinOrder(rank, nrBuckets, nrBuckets \div 2)
      BY <1>1 DEF OldHeads, OldHeadsJoined, Cuts, JoinOrder
    <2>5. QED
      BY <2>1, <2>2, <2>3, <2>4 DEF Chains
  <1>9. TableInv
    BY <1>5, <1>6, <1>8 DEF TableInv
  <1>10. WriterInv /\ ReadersInv
    BY <1>1 DEF WriterInv, ReadersInv, ReaderInv, Fresh, Uses, Zone!Init
  <1>11. QED
    BY <1>3, <1>9, <1>10 DEF IInv

LEMMA NextIInv == IInv /\ [Next]_vars => IInv'
  <1> SUFFICES ASSUME IInv, [Next]_vars PROVE IInv'
    OBVIOUS
  <1>1. CASE UNCHANGED vars
    <2>1. UNCHANGED <<next, buckets, current, size, limbo, members, wpc, iHalf, allFinished,
                      releases, inside, syncing, waiting, rpc, target, array, pos, held, answers>>
      BY <1>1 DEF vars, tableVars, writerVars, zoneVars, readerVars
    <2>2. TableInv'
      BY <2>1, TableUnchanged DEF IInv
    <2>3. VarTypes' /\ WriterInv'
      BY <2>1 DEF IInv, VarTypes, NextType, ReadersTypes, Zone!TypeOK, WriterInv
    <2>4. ReadersInv'
      BY <2>1 DEF IInv, ReadersInv, ReaderInv, Uses, Fresh
    <2>5. QED
      BY <2>2, <2>3, <2>4 DEF IInv
  <1>2. CASE \E r \in Readers : \/ ReadLock(r) \/ ReadUnlock(r) \/ Lookup(r)
                                \/ \E k \in Keys : FindStart(r, k)
    BY <1>2, ReaderSteps
  <1>3. CASE \E n \in Nodes : TryInsertNoExpand(n) \/ TryInsert(n)
    BY <1>3, InsertStep
  <1>4. CASE \E k \in Keys : \/ TryDetachNoShrink(k) \/ TryDetachAutoShrink(k)
                             \/ TryDetachAndSynchronize(k)
    BY <1>4, DetachStep
  <1>5. CASE Synchronize \/ ExpandBuckets2x \/ ShrinkBuckets2x
    BY <1>5, CallStep
  <1>6. CASE WriterGoesOn
    BY <1>6, SyncStartStep, SyncEndStep, PublishExpandedStep, FindStartsStep, UnzipStep,
       PassStep, JoinStep, PublishShrunkStep, FreeOldStep DEF WriterGoesOn
  <1>7. QED
    BY <1>1, <1>2, <1>3, <1>4, <1>5, <1>6 DEF Next

LEMMA IInvAlways == Spec => []IInv
  BY InitIInv, NextIInv, PTL DEF Spec

-----------------------------------------------------------------------------
(* What follows from it.                                                    *)

(***************************************************************************)
(* Every variable of the table, its writer and its readers stays in its    *)
(* type: the arrays have a power of two of buckets each, all of them heads *)
(* of chains, and no loop over buckets of expand or shrink leaves its      *)
(* array.                                                                  *)
(***************************************************************************)
THEOREM TableTypeCorrect == Spec => []TypeOK
  <1>1. IInv => TypeOK
    <2> SUFFICES ASSUME IInv PROVE TypeOK
      OBVIOUS
    <2>1. VarTypes
      BY DEF IInv
    <2>2. PICK rank, m, h, k : Sizes(m, h, k) /\ Loops(h)
      BY DEF IInv, TableInv
    <2>3. /\ m \in Powers /\ k \in Powers \cup {0} /\ m <= MaxBuckets /\ h = m \div 2
          /\ buckets[current] \in Heads(m) /\ buckets[other] \in Heads(k)
      BY <2>2 DEF Sizes
    <2>4. m \in Nat /\ m # 0 /\ h \in Nat /\ h <= m /\ MaxBuckets \in Nat
      BY <2>3, PowerFacts, TableAssumption
    <2>5. iHalf \in 0 .. MaxBuckets
      <3>1. iHalf \in Nat
        BY <2>1 DEF VarTypes
      <3>2. CASE wpc = "shrink"
        BY <2>2, <2>3, <2>4, <3>1, <3>2 DEF Loops
      <3>3. CASE wpc \in {"unzip", "passed", "free"}
        BY <2>2, <2>4, <3>1, <3>3 DEF Loops
      <3>4. CASE wpc \notin {"shrink", "unzip", "passed", "free"}
        BY <2>2, <2>4, <3>4 DEF Loops
      <3>5. QED
        BY <3>2, <3>3, <3>4
    <2>6. \A a \in Arrays : \E j \in Powers \cup {0} : buckets[a] \in Heads(j)
      <3>1. \A a \in Arrays : a = current \/ a = other
        BY <2>1 DEF VarTypes, Arrays, other
      <3>2. QED
        BY <2>3, <3>1
    <2>7. buckets[current] # free
      <3>1. 0 \in DOMAIN buckets[current]
        BY <2>3, <2>4 DEF Heads
      <3>2. QED
        BY <3>1 DEF free
    <2>8. members \subseteq Nodes /\ limbo \subseteq Nodes \ members
      BY <2>1 DEF VarTypes
    <2>9. QED
      BY <2>1, <2>5, <2>6, <2>7, <2>8 DEF VarTypes, NextType, ReadersTypes, TypeOK
  <1>2. QED
    BY <1>1, IInvAlways, PTL

(***************************************************************************)
(* A reader touches no freed memory, whatever the writer does: the array   *)
(* it has loaded is not freed under it, and the nodes it has reached or    *)
(* found have not been given back to their owner.                          *)
(***************************************************************************)
THEOREM TableNoUseAfterFree == Spec => []NoUseAfterFree
  <1>1. IInv => NoUseAfterFree
    <2> SUFFICES ASSUME IInv, NEW r \in Readers
                 PROVE  /\ rpc[r] = "head" => buckets[array[r]] # free
                        /\ {pos[r]} \cup held[r] \subseteq members \cup limbo \cup {NULL}
      BY DEF NoUseAfterFree
    <2>1. VarTypes /\ TableInv /\ ReaderInv(r)
      BY DEF IInv, ReadersInv
    <2>2. ASSUME rpc[r] = "head" PROVE buckets[array[r]] # free
      <3>1. array[r] \in Arrays /\ (array[r] = current \/ wpc \in {"published", "shrunk"})
        BY <2>1, <2>2 DEF VarTypes, ReadersTypes, ReaderInv
      <3>2. 0 \in Nat /\ NrBuckets(array[r]) # 0
        BY <2>1, <3>1, HeadsAreMembers
      <3>3. NrBuckets(array[r]) = 0 \/ buckets[array[r]] # free
        BY FS_EmptySet DEF NrBuckets, free
      <3>4. QED
        BY <3>2, <3>3
    <2>3. {pos[r]} \cup held[r] \subseteq members \cup limbo \cup {NULL}
      BY <2>1 DEF ReaderInv, Uses
    <2>4. QED
      BY <2>2, <2>3
  <1>2. QED
    BY <1>1, IInvAlways, PTL
\* T holds the nodes that the chain of the bucket with content S may lead to.
Covers(rank, T, S) ==
  /\ T \in SUBSET members
  /\ S \subseteq T
  /\ Chained(rank, T)
  /\ wpc = "idle" => T = S

(***************************************************************************)
(* While chains are unzipped, the chain of a bucket leads to its own       *)
(* members and to all members of both halves behind the next cut.          *)
(***************************************************************************)
LEMMA CutChain ==
  ASSUME VarTypes, wpc \in {"unzip", "passed"}, NEW rank, NEW m \in Powers, m > 1,
         NEW h, h = m \div 2, NEW k, Chains(rank, m, h, k),
         NEW b \in 0 .. m - 1, NEW d \in 0 .. h - 1, In(m, b) \subseteq In(h, d)
  PROVE  \E T : /\ Covers(rank, T, In(m, b))
                /\ buckets[other][d] \in T => BucketOf(buckets[other][d], m) = b
  <1> DEFINE S == In(h, d)
             own == In(m, b)
             cut == buckets[other][d]
             T == own \cup {x \in S : cut # NULL /\ rank[cut] < rank[x]}
  <1>1. members \in SUBSET Nodes /\ NULL \notin Nodes
    BY TableAssumption DEF VarTypes
  <1>2. S \subseteq members /\ own \subseteq S /\ \A x \in S : BucketOf(x, h) = d
    BY DEF In
  <1>3. \A n \in own : In(m, BucketOf(n, m)) = own
    BY DEF In
  <1>4. \A n \in S : LinkedIn(rank, IF cut # NULL /\ rank[cut] <= rank[n]
                                    THEN S ELSE In(m, BucketOf(n, m)), n)
    <2>1. ASSUME NEW n \in S
          PROVE  Joined(rank, h, n) <=> cut # NULL /\ rank[cut] <= rank[n]
      BY <1>2, <2>1 DEF Joined
    <2>2. ASSUME NEW n \in S
          PROVE  LinkedIn(rank, IF Joined(rank, h, n) THEN S ELSE In(m, BucketOf(n, m)), n)
      <3>1. LinkedIn(rank, Peers(rank, m, h, n), n)
        BY <1>2 DEF Chains, Links
      <3>2. QED
        BY <1>2, <3>1 DEF Peers
    <2>3. QED
      BY <2>1, <2>2
  <1>5. cut # NULL => /\ cut \in S /\ next[cut] # NULL
                      /\ BucketOf(next[cut], m) # BucketOf(cut, m)
    BY DEF Chains, Cuts
  <1>6. \A x, y \in S : rank[x] \in Int /\ (rank[x] = rank[y] => x = y)
    BY <1>1, <1>2 DEF Chains, Ranked
  <1>7. \A x, y, z \in S : /\ BucketOf(x, m) # BucketOf(z, m) /\ BucketOf(y, m) # BucketOf(z, m)
                           => BucketOf(x, m) = BucketOf(y, m)
    BY <1>1, <1>2, TwinSets
  <1>8. \A x \in S : x \in own <=> BucketOf(x, m) = b
    BY <1>2 DEF In
  <1> HIDE DEF S, own, cut
  <1>9. CASE cut = NULL
    <2>1. T = own
      BY <1>9
    <2>2. Chained(rank, own)
      BY <1>2, <1>3, <1>4, <1>9 DEF Chained
    <2>3. Covers(rank, own, own) /\ cut \notin own
      BY <1>1, <1>2, <1>9, <2>2 DEF Covers
    <2>4. QED
      BY <2>3 DEF own, cut
  <1>10. CASE cut # NULL
    <2>1. IsSuccessor(rank, S, cut, next[cut])
      BY <1>1, <1>2, <1>4, <1>5, <1>6, <1>10 DEF LinkedIn
    <2>2. next[cut] \in S /\ \A x \in S : rank[cut] < rank[x] => rank[next[cut]] <= rank[x]
      BY <2>1 DEF IsSuccessor
    <2>3. \A x \in S : x \in T <=> x \in own \/ rank[cut] < rank[x]
      BY <1>10
    <2>4. T \subseteq S /\ own \subseteq T
      BY <1>2
    <2> HIDE DEF T
    <2>5. ASSUME NEW n \in T PROVE LinkedIn(rank, T, n)
      <3>1. CASE rank[cut] <= rank[n]
        <4>1. LinkedIn(rank, S, n) /\ n \in S
          BY <1>4, <1>10, <2>4, <3>1
        <4>2. CASE IsSuccessor(rank, S, n, next[n])
          <5>1. next[n] \in T
            BY <1>5, <1>6, <1>10, <2>3, <3>1, <4>1, <4>2 DEF IsSuccessor
          <5>2. QED
            BY <2>4, <4>2, <5>1 DEF LinkedIn, IsSuccessor
        <4>3. CASE next[n] = NULL /\ IsGreatest(rank, S, n)
          BY <2>4, <4>3 DEF LinkedIn, IsGreatest
        <4>4. QED
          BY <4>1, <4>2, <4>3 DEF LinkedIn
      <3>2. CASE ~(rank[cut] <= rank[n])
        <4>1. n \in own /\ n \in S /\ rank[n] < rank[cut]
          BY <1>5, <1>6, <1>10, <2>3, <2>4, <3>2
        <4>2. LinkedIn(rank, own, n)
          BY <1>3, <1>4, <3>2, <4>1
        <4>3. cut \in own \/ next[cut] \in own
          <5>1. BucketOf(n, m) = b
            BY <1>8, <4>1
          <5>2. BucketOf(cut, m) = b \/ BucketOf(next[cut], m) = b
            BY <1>5, <1>7, <1>10, <2>2, <4>1, <5>1
          <5>3. QED
            BY <1>5, <1>8, <1>10, <2>2, <5>2
        <4>4. PICK c \in own : /\ rank[n] < rank[c]
                               /\ \A x \in S : rank[cut] < rank[x] => rank[c] <= rank[x]
          <5>1. rank[n] < rank[next[cut]]
            BY <1>5, <1>6, <1>10, <2>1, <2>2, <4>1 DEF IsSuccessor
          <5>2. \A x \in S : rank[cut] < rank[x] => rank[cut] <= rank[x]
            BY <1>5, <1>6, <1>10
          <5>3. QED
            BY <2>2, <4>1, <4>3, <5>1, <5>2
        <4>5. IsSuccessor(rank, own, n, next[n])
          <5>1. ~IsGreatest(rank, own, n)
            BY <1>2, <1>6, <4>1, <4>4 DEF IsGreatest
          <5>2. QED
            BY <4>2, <5>1 DEF LinkedIn
        <4>6. /\ next[n] \in own /\ rank[n] < rank[next[n]]
              /\ \A x \in own : rank[n] < rank[x] => rank[next[n]] <= rank[x]
          BY <4>5 DEF IsSuccessor
        <4>7. rank[next[n]] <= rank[c]
          BY <4>4, <4>6
        <4>8. \A x \in S : rank[cut] < rank[x] => rank[next[n]] <= rank[x]
          BY <1>2, <1>6, <4>4, <4>6, <4>7
        <4>9. \A x \in T : rank[n] < rank[x] => rank[next[n]] <= rank[x]
          BY <2>3, <2>4, <4>6, <4>8
        <4>10. QED
          BY <2>4, <4>6, <4>9 DEF LinkedIn, IsSuccessor
      <3>3. QED
        BY <3>1, <3>2
    <2>6. Covers(rank, T, own)
      BY <1>2, <2>4, <2>5 DEF Covers, Chained
    <2>7. cut \in T => BucketOf(cut, m) = b
      BY <1>5, <1>6, <1>8, <1>10, <2>3
    <2>8. QED
      BY <2>6, <2>7 DEF own, cut
  <1>11. QED
    BY <1>9, <1>10

LEMMA BucketChain ==
  ASSUME VarTypes, NEW rank, NEW m, NEW h, NEW k, Sizes(m, h, k), Chains(rank, m, h, k),
         NEW b \in 0 .. m - 1
  PROVE  \E T : Covers(rank, T, In(m, b))
  <1>1. In(m, b) \subseteq members /\ \A n \in In(m, b) : BucketOf(n, m) = b
    BY DEF In
  <1>2. ASSUME \A n \in In(m, b) : ~Joined(rank, h, n)
        PROVE  Covers(rank, In(m, b), In(m, b))
    <2>1. \A n \in In(m, b) : LinkedIn(rank, Peers(rank, m, h, n), n)
      BY <1>1 DEF Chains, Links
    <2>2. QED
      BY <1>1, <1>2, <2>1 DEF Covers, Chained, Peers
  <1>3. CASE wpc \in PlainPC
    <2>1. \A n \in In(m, b) : ~Joined(rank, h, n)
      BY <1>3 DEF PlainPC, Joined
    <2>2. QED
      BY <1>2, <2>1
  <1>4. CASE wpc \notin PlainPC
    <2>1. /\ m \in Powers /\ m > 1 /\ h = m \div 2
          /\ wpc \in Expanding \cup {"shrink", "publish"}
      BY <1>4 DEF VarTypes, WriterPC, PlainPC, Sizes, Expanding
    <2>2. h \in Nat /\ h # 0 /\ m = 2 * h /\ m \in Nat
      BY <2>1, Twins
    <2>3. \A n \in members : /\ BucketOf(n, h) \in 0 .. h - 1
                             /\ BucketOf(n, m) \in {BucketOf(n, h), BucketOf(n, h) + h}
      BY <2>1, Twins DEF VarTypes
    <2>4. PICK d : d = IF b < h THEN b ELSE b - h
      OBVIOUS
    <2>5. d \in 0 .. h - 1 /\ b \in {d, d + h}
      BY <2>2, <2>4
    <2>6. In(m, b) \subseteq In(h, d)
      <3>1. SUFFICES ASSUME NEW n \in members, BucketOf(n, m) = b PROVE BucketOf(n, h) = d
        BY DEF In
      <3>2. h \in Nat /\ d \in 0 .. h - 1 /\ b \in {d, d + h}
        BY <2>2, <2>5
      <3>3. BucketOf(n, h) \in 0 .. h - 1 /\ b \in {BucketOf(n, h), BucketOf(n, h) + h}
        BY <2>3, <3>1
      <3>4. QED
        BY <3>2, <3>3
    <2>7. \A n \in In(h, d) : n \in members /\ BucketOf(n, h) = d
      BY DEF In
    <2>8. ASSUME \A n \in In(h, d) : Joined(rank, h, n)
          PROVE  Covers(rank, In(h, d), In(m, b))
      <3>1. \A n \in In(h, d) : LinkedIn(rank, Peers(rank, m, h, n), n)
        BY <2>7 DEF Chains, Links
      <3>2. Chained(rank, In(h, d))
        BY <2>7, <2>8, <3>1 DEF Chained, Peers
      <3>3. wpc # "idle"
        BY <1>4 DEF PlainPC
      <3>4. In(h, d) \in SUBSET members
        BY <2>7
      <3>5. QED
        BY <2>6, <3>2, <3>3, <3>4 DEF Covers
    <2>9. CASE wpc \in {"published", "starts", "publish"}
      <3>1. \A n \in In(h, d) : Joined(rank, h, n)
        BY <2>9 DEF Joined
      <3>2. QED
        BY <2>8, <3>1
    <2>10. CASE wpc = "shrink"
      <3>1. \A n \in In(h, d) : Joined(rank, h, n) <=> d < iHalf
        BY <2>7, <2>10 DEF Joined
      <3>2. CASE d < iHalf
        BY <2>8, <3>1, <3>2
      <3>3. CASE ~(d < iHalf)
        BY <1>2, <2>6, <3>1, <3>3
      <3>4. QED
        BY <3>2, <3>3
    <2>11. CASE wpc \in {"unzip", "passed"}
      BY <2>1, <2>5, <2>6, <2>11, CutChain
    <2>12. QED
      BY <2>1, <2>9, <2>10, <2>11 DEF Expanding
  <1>5. QED
    BY <1>3, <1>4

(***************************************************************************)
(* In every state of a resize, every bucket's chain holds the members that *)
(* hash to the bucket, each of them once, and no others between calls.     *)
(***************************************************************************)
THEOREM TableChainsHoldMembers == Spec => []ChainsHoldMembers
  <1>1. IInv => ChainsHoldMembers
    <2>1. SUFFICES ASSUME IInv, NEW b \in DOMAIN buckets[current]
                   PROVE  LET chain == Chain(buckets[current][b])
                              own == {n \in members : BucketOf(n, NrBuckets(current)) = b}
                          IN  /\ own \subseteq Range(chain)
                              /\ IsInjective(chain)
                              /\ wpc = "idle" => Range(chain) = own
      BY DEF ChainsHoldMembers
    <2>2. PICK rank, m, h, k : Sizes(m, h, k) /\ Loops(h) /\ Chains(rank, m, h, k)
      <3>1. TableInv
        BY <2>1 DEF IInv
      <3>2. QED
        BY <3>1 DEF TableInv
    <2>3. /\ VarTypes /\ NextType /\ members \in SUBSET Nodes /\ NULL \notin Nodes
          /\ b \in 0 .. m - 1 /\ NrBuckets(current) = m
      <3>1. VarTypes /\ NextType /\ members \in SUBSET Nodes /\ NULL \notin Nodes
        BY <2>1, TableAssumption DEF IInv, VarTypes
      <3>2. m \in Nat /\ buckets[current] \in Heads(m)
        BY <2>2, PowerFacts DEF Sizes
      <3>3. DOMAIN buckets[current] = 0 .. m - 1
        BY <3>2 DEF Heads
      <3>4. QED
        BY <2>1, <3>1, <3>2, <3>3, NrBucketsOf
    <2>4. PICK p, c, own, T :
            /\ p = buckets[current][b] /\ c = Chain(p)
            /\ own = In(m, b) /\ Covers(rank, T, In(m, b))
      BY <2>2, <2>3, BucketChain
    <2>5. IsFirst(rank, own, p)
      BY <2>2, <2>3, <2>4 DEF Chains, Published
    <2>6. own \subseteq T /\ T \in SUBSET Nodes /\ Chained(rank, T) /\ (wpc = "idle" => T = own)
      BY <2>3, <2>4 DEF Covers
    <2>7. Ranked(rank, T)
      BY <2>2, <2>4 DEF Chains, Ranked, Covers
    <2>8. own \subseteq Range(c) /\ IsInjective(c) /\ (wpc = "idle" => Range(c) = own)
      <3>1. CASE own = {}
        <4>1. c = <<>>
          BY <2>3, <2>4, <2>5, <3>1, ChainOfNULL DEF IsFirst
        <4>2. QED
          BY <3>1, <4>1 DEF Range, IsInjective
      <3>2. CASE own # {}
        <4>1. p \in own /\ \A x \in own : rank[p] <= rank[x]
          BY <2>5, <3>2 DEF IsFirst
        <4>2. Lists(c, rank, T, p)
          BY <2>3, <2>4, <2>6, <2>7, <4>1, ChainLists
        <4>3. /\ DOMAIN c = 1 .. Len(c) /\ Len(c) \in Nat
              /\ \A i \in 1 .. Len(c) : c[i] \in T
              /\ \A i, j \in 1 .. Len(c) : i < j => rank[c[i]] < rank[c[j]]
              /\ \A x \in T : rank[p] <= rank[x] => \E i \in 1 .. Len(c) : c[i] = x
          BY <4>2 DEF Lists
        <4>4. own \subseteq Range(c)
          BY <2>6, <4>1, <4>3 DEF Range
        <4>5. IsInjective(c)
          <5>1. ASSUME NEW i \in 1 .. Len(c), NEW j \in 1 .. Len(c), c[i] = c[j] PROVE i = j
            <6>1. rank[c[i]] \in Int
              BY <2>7, <4>3 DEF Ranked
            <6>2. ~(rank[c[i]] < rank[c[j]]) /\ ~(rank[c[j]] < rank[c[i]])
              BY <5>1, <6>1
            <6>3. QED
              BY <4>3, <6>2
          <5>2. QED
            BY <4>3, <5>1 DEF IsInjective
        <4>6. Range(c) \subseteq T
          BY <4>3 DEF Range
        <4>7. QED
          BY <2>6, <4>4, <4>5, <4>6
      <3>3. QED
        BY <3>1, <3>2
    <2>9. QED
      BY <2>3, <2>4, <2>8 DEF In
  <1>2. QED
    BY <1>1, IInvAlways, PTL

-----------------------------------------------------------------------------
(***************************************************************************)
(* RTable implements RTableMap.                                            *)
(*                                                                         *)
(* A lookup finds what it must because some set of nodes leads from where  *)
(* it is to the node with its key: chains may change as long as they do    *)
(* not lead out of this set.  Ranks are not needed to say so.              *)
(***************************************************************************)

KeysDistinct == \A x, y \in members : Key[x] = Key[y] => x = y

\* The node at which the writer will next cut the chain on which twin
\* buckets of hash d are joined, or NULL.
NextCutOf(d) ==
  IF wpc \in {"unzip", "passed"} \/ buckets[other][d] = NULL
  THEN buckets[other][d]
  ELSE SegmentEnd(buckets[other][d], NrBuckets(current))

\* Has r begun its walks after the last cut of this chain, in the array that
\* is published?
Later(r, d) ==
  \/ wpc = "starts"
  \/ wpc = "unzip" /\ iHalf <= d
  \/ /\ wpc \in {"published", "passed"}
     /\ writer \in syncing /\ r \notin waiting[writer]

\* A walk that began after the last cut is on no node of the twin bucket
\* from which the chain will be bent away.
Avoids(r, Q) ==
  LET d == Hash[target[r]] % NrBuckets(other)
      cut == NextCutOf(d)
  IN  Later(r, d) /\ cut # NULL
        /\ BucketOf(cut, NrBuckets(current)) # Hash[target[r]] % NrBuckets(current)
      => cut \notin Q

\* P has all nodes that r may still meet, and what it may find there was in
\* the table while its lookup ran.
Safe(r, P) ==
  /\ pos[r] \in P \cup {NULL}
  /\ members \subseteq P
  /\ \A n \in P : next[n] \in P \cup {NULL}
  /\ \A n \in P : Key[n] = target[r] => n \in answers[r]

\* r does not leave Q before it has found its key.
Route(r, Q) ==
  /\ pos[r] \in Q /\ Q \subseteq members \cup limbo
  /\ \A n \in Q : Key[n] # target[r] => next[n] \in Q
  /\ Avoids(r, Q)

AnswersInv(r) ==
  /\ target[r] = NULL => answers[r] = {}
  /\ target[r] # NULL => NodeOf(members, target[r]) \in answers[r]
  /\ answers[r] \subseteq members \cup limbo \cup {NULL}
  /\ Fresh(r) => answers[r] \subseteq members \cup {NULL}

WalkInv(r) ==
  rpc[r] = "walk" =>
    /\ \E P \in SUBSET Nodes : Safe(r, P)
    /\ NULL \notin answers[r] => \E Q \in SUBSET Nodes : Route(r, Q)

MapInv == KeysDistinct /\ \A r \in Readers : AnswersInv(r) /\ WalkInv(r)

-----------------------------------------------------------------------------
(* NodeOf.                                                                  *)

LEMMA NodeOfMember ==
  ASSUME NEW S \in SUBSET Nodes, NEW k
  PROVE  /\ NodeOf(S, k) = NULL <=> \A x \in S : Key[x] # k
         /\ NodeOf(S, k) # NULL => NodeOf(S, k) \in S /\ Key[NodeOf(S, k)] = k
  <1>1. NULL \notin S
    BY TableAssumption
  <1>2. CASE \E x \in S : Key[x] = k
    <2>1. NodeOf(S, k) \in S /\ Key[NodeOf(S, k)] = k
      BY <1>2 DEF NodeOf
    <2>2. QED
      BY <1>1, <1>2, <2>1
  <1>3. CASE ~\E x \in S : Key[x] = k
    BY <1>3 DEF NodeOf
  <1>4. QED
    BY <1>2, <1>3

LEMMA NodeOfOnly ==
  ASSUME members \in SUBSET Nodes, KeysDistinct, NEW x \in members
  PROVE  NodeOf(members, Key[x]) = x
  <1>1. NodeOf(members, Key[x]) \in members /\ Key[NodeOf(members, Key[x])] = Key[x]
    BY NodeOfMember
  <1>2. QED
    BY <1>1 DEF KeysDistinct

-----------------------------------------------------------------------------
(* Steps of the writer, seen from a lookup.                                 *)

\* The answers that the lookups may give take the content into account.
Recorded ==
  \A r \in Readers :
    answers'[r] = IF target[r] = NULL THEN {}
                  ELSE answers[r] \cup {NodeOf(members', target[r])}

LEMMA WriterStep ==
  ASSUME IInv, IInv', MapInv, KeysDistinct', UNCHANGED readerVars, Recorded,
         \A x \in Nodes \ members' : next'[x] = next[x],
         members \cup limbo \subseteq members' \cup limbo',
         \A r \in Readers : Fresh(r)' /\ target[r] # NULL =>
           Fresh(r) /\ members \subseteq members',
         \A r \in Readers, Q \in SUBSET Nodes :
           Route(r, Q) /\ rpc[r] = "walk" /\ NULL \notin answers'[r] => Route(r, Q)'
  PROVE  MapInv'
  <1>1. UNCHANGED <<rpc, target, array, pos, held>>
    BY DEF readerVars
  <1>2. /\ VarTypes' /\ TableInv' /\ members' \in SUBSET Nodes /\ NULL \notin Nodes
        /\ next' \in [Nodes -> Nodes \cup {NULL}] /\ members \in SUBSET Nodes
        /\ limbo \in SUBSET Nodes /\ NULL \notin Keys
    BY TableAssumption DEF IInv, VarTypes, NextType
  <1>3. \A x \in members' : next'[x] \in members' \cup {NULL}
    BY <1>2 DEF TableInv, Chains, Links, LinkedIn, IsSuccessor, Peers, In
  <1>4. ASSUME NEW r \in Readers PROVE AnswersInv(r)'
    <2>1. AnswersInv(r)
      BY DEF MapInv
    <2>2. answers'[r] = IF target[r] = NULL THEN {}
                        ELSE answers[r] \cup {NodeOf(members', target[r])}
      BY DEF Recorded
    <2>3. NodeOf(members', target[r]) \in members' \cup {NULL}
      BY <1>2, NodeOfMember
    <2>4. NodeOf(members, target[r])' = NodeOf(members', target[r])
      BY <1>1 DEF NodeOf
    <2>5. CASE target[r] = NULL
      BY <1>1, <2>2, <2>5 DEF AnswersInv
    <2>6. CASE target[r] # NULL
      <3>1. answers'[r] \subseteq members' \cup limbo' \cup {NULL}
        BY <2>1, <2>2, <2>3, <2>6 DEF AnswersInv
      <3>2. Fresh(r)' => answers'[r] \subseteq members' \cup {NULL}
        BY <2>1, <2>2, <2>3, <2>6 DEF AnswersInv
      <3>3. QED
        BY <1>1, <2>2, <2>4, <2>6, <3>1, <3>2 DEF AnswersInv
    <2>7. QED
      BY <2>5, <2>6
  <1>5. ASSUME NEW r \in Readers PROVE WalkInv(r)'
    <2>1. SUFFICES ASSUME rpc[r] = "walk"
                   PROVE  /\ \E P \in SUBSET Nodes : Safe(r, P)'
                          /\ NULL \notin answers'[r] => \E Q \in SUBSET Nodes : Route(r, Q)'
      BY <1>1 DEF WalkInv
    <2>2. target[r] # NULL
      BY <2>1 DEF IInv, ReadersInv, ReaderInv
    <2>3. answers'[r] = answers[r] \cup {NodeOf(members', target[r])}
      BY <2>2 DEF Recorded
    <2>4. \E P \in SUBSET Nodes : Safe(r, P)'
      <3>1. PICK P \in SUBSET Nodes : Safe(r, P)
        BY <2>1 DEF MapInv, WalkInv
      <3>2. PICK P1 \in SUBSET Nodes : P1 = P \cup members'
        BY <1>2
      <3>3. ASSUME NEW x \in members', Key[x] = target[r] PROVE x \in answers'[r]
        <4>1. \A y \in members' : Key[y] = Key[x] => y = x
          BY DEF KeysDistinct
        <4>2. /\ NodeOf(members', Key[x]) \in members'
              /\ Key[NodeOf(members', Key[x])] = Key[x]
          BY <1>2, NodeOfMember
        <4>3. NodeOf(members', Key[x]) = x
          BY <4>1, <4>2
        <4>4. QED
          BY <2>3, <3>3, <4>3
      <3>4. \A n \in P1 : next'[n] \in P1 \cup {NULL}
        <4>1. SUFFICES ASSUME NEW n \in P1 PROVE next'[n] \in P1 \cup {NULL}
          OBVIOUS
        <4>2. CASE n \in members'
          BY <1>3, <3>2, <4>2
        <4>3. CASE n \notin members'
          BY <3>1, <3>2, <4>3 DEF Safe
        <4>4. QED
          BY <4>2, <4>3
      <3>5. \A n \in P1 : Key[n] = target[r] => n \in answers'[r]
        BY <2>3, <3>1, <3>2, <3>3 DEF Safe
      <3>6. pos[r] \in P1 \cup {NULL} /\ members' \subseteq P1
        BY <3>1, <3>2 DEF Safe
      <3>7. Safe(r, P1)'
        BY <1>1, <3>4, <3>5, <3>6 DEF Safe
      <3>8. QED
        BY <3>7
    <2>5. NULL \notin answers'[r] => \E Q \in SUBSET Nodes : Route(r, Q)'
      <3>1. SUFFICES ASSUME NULL \notin answers'[r]
                     PROVE  \E Q \in SUBSET Nodes : Route(r, Q)'
        OBVIOUS
      <3>2. PICK Q \in SUBSET Nodes : Route(r, Q)
        BY <2>1, <2>3, <3>1 DEF MapInv, WalkInv
      <3>3. Route(r, Q)'
        BY <2>1, <3>1, <3>2
      <3>4. QED
        BY <3>3
    <2>6. QED
      BY <2>4, <2>5
  <1>6. QED
    BY <1>4, <1>5 DEF MapInv
-----------------------------------------------------------------------------
(* Where a lookup begins its walk.                                          *)

\* Q leads from p to x along the links.
Leads(Q, p, x) ==
  /\ Q \in SUBSET members /\ p \in Q
  /\ \A n \in Q : n # x => next[n] \in Q

LEMMA Stretch ==
  ASSUME NULL \notin Nodes, members \in SUBSET Nodes, NEW T \in SUBSET members, NEW rank,
         Ranked(rank, T), Chained(rank, T), NEW p \in T, NEW x \in T, rank[p] <= rank[x]
  PROVE  \E Q : Leads(Q, p, x) /\ Q \subseteq {y \in T : rank[p] <= rank[y]}
  <1> DEFINE Q == {y \in T : rank[p] <= rank[y] /\ rank[y] <= rank[x]}
  <1>1. \A y \in T : rank[y] \in Int
    BY DEF Ranked
  <1>2. p \in Q /\ Q \in SUBSET members /\ Q \subseteq {y \in T : rank[p] <= rank[y]}
    BY <1>1
  <1>3. ASSUME NEW n \in Q, n # x PROVE next[n] \in Q
    <2>1. n \in T /\ rank[n] < rank[x] /\ rank[p] <= rank[n]
      BY <1>1, <1>3 DEF Ranked
    <2>2. IsSuccessor(rank, T, n, next[n])
      BY <1>1, <2>1 DEF Chained, LinkedIn, IsGreatest
    <2>3. next[n] \in T /\ rank[n] < rank[next[n]] /\ rank[next[n]] <= rank[x]
      BY <2>1, <2>2 DEF IsSuccessor
    <2>4. rank[p] <= rank[next[n]]
      BY <1>1, <2>1, <2>3
    <2>5. QED
      BY <2>3, <2>4
  <1>4. QED
    BY <1>2, <1>3 DEF Leads

\* The sets in which the chain of a bucket is linked.
LEMMA PlainChained ==
  ASSUME NEW rank, NEW m, Plain(rank, m), NEW b
  PROVE  Chained(rank, In(m, b))
  BY DEF Plain, Chained, In

LEMMA TwinChained ==
  ASSUME NEW rank, NEW m, NEW h, NEW k, Chains(rank, m, h, k), NEW d,
         \A n \in In(h, d) : Joined(rank, h, n)
  PROVE  Chained(rank, In(h, d))
  <1>1. \A n \in In(h, d) : n \in members /\ BucketOf(n, h) = d
    BY DEF In
  <1>2. \A n \in In(h, d) : LinkedIn(rank, Peers(rank, m, h, n), n)
    BY <1>1 DEF Chains, Links
  <1>3. QED
    BY <1>1, <1>2 DEF Chained, Peers

(***************************************************************************)
(* In the published array, the head of the bucket leads to x; while chains *)
(* are unzipped, not across the next cut of the twin bucket.               *)
(***************************************************************************)
LEMMA PublishedLeads ==
  ASSUME VarTypes, NEW rank, NEW m, NEW h, NEW k, Sizes(m, h, k), Chains(rank, m, h, k),
         NEW x \in members, NEW b, b = BucketOf(x, m), NEW d, d = BucketOf(x, h),
         NEW cut, cut = NextCutOf(d)
  PROVE  \E Q : /\ Leads(Q, buckets[current][b], x)
                /\ wpc \in Expanding /\ cut # NULL /\ BucketOf(cut, m) # b => cut \notin Q
  <1>1. /\ members \in SUBSET Nodes /\ NULL \notin Nodes /\ NextType /\ x \in Nodes
        /\ Ranked(rank, members) /\ m \in Powers
    BY TableAssumption DEF VarTypes, Chains, Sizes
  <1>2. b \in 0 .. m - 1 /\ x \in In(m, b)
    BY <1>1, BucketFacts DEF In
  <1>3. PICK p : p = buckets[current][b]
    OBVIOUS
  <1>4. p \in In(m, b) /\ \A y \in In(m, b) : rank[p] <= rank[y]
    BY <1>2, <1>3 DEF Chains, Published, IsFirst
  <1>5. ASSUME NEW T, T \in SUBSET members, In(m, b) \subseteq T, Chained(rank, T),
               wpc \in Expanding /\ cut # NULL /\ BucketOf(cut, m) # b /\ cut \in T
                 => ~(rank[p] <= rank[cut])
        PROVE  \E Q : /\ Leads(Q, p, x)
                      /\ wpc \in Expanding /\ cut # NULL /\ BucketOf(cut, m) # b => cut \notin Q
    <2>1. Ranked(rank, T)
      BY <1>1, <1>5 DEF Ranked
    <2>2. PICK Q : Leads(Q, p, x) /\ Q \subseteq {y \in T : rank[p] <= rank[y]}
      BY <1>1, <1>2, <1>4, <1>5, <2>1, Stretch
    <2>3. QED
      BY <1>5, <2>2
  <1>6. CASE wpc \notin Expanding
    BY <1>2, <1>3, <1>5, <1>6, BucketChain DEF Covers
  <1>7. CASE wpc \in Expanding
    <2>1. m > 1 /\ h = m \div 2 /\ k = h
      BY <1>7 DEF Sizes
    <2>2. In(m, b) \subseteq In(h, d) /\ d \in 0 .. h - 1
      BY <1>1, <2>1, TwinSets, Twins DEF In
    <2>3. CASE wpc \in {"unzip", "passed"}
      <3>1. cut = buckets[other][d]
        BY <2>3 DEF NextCutOf
      <3>2. PICK T : Covers(rank, T, In(m, b)) /\ (cut \in T => BucketOf(cut, m) = b)
        BY <1>1, <1>2, <2>1, <2>2, <2>3, <3>1, CutChain
      <3>3. QED
        BY <1>3, <1>5, <3>2 DEF Covers
    <2>4. CASE wpc \in {"published", "starts"}
      <3>1. PICK T : T = In(h, d)
        OBVIOUS
      <3>2. T \in SUBSET members /\ In(m, b) \subseteq T
        BY <2>2, <3>1 DEF In
      <3>3. Chained(rank, T)
        BY <2>4, <3>1, TwinChained DEF Joined
      <3>4. PICK q : q = buckets[other][d]
        OBVIOUS
      <3>5. q \in T /\ \A y \in T : rank[q] <= rank[y]
        <4>1. T # {}
          BY <1>2, <3>2
        <4>2. IsFirst(rank, T, q)
          BY <2>2, <2>4, <3>1, <3>4 DEF Chains, OldHeads
        <4>3. QED
          BY <4>1, <4>2 DEF IsFirst
      <3>6. NrBuckets(current) = m
        BY <1>1, NrBucketsOf, PowerFacts DEF Sizes
      <3>7. cut = SegmentEnd(q, m)
        BY <1>1, <2>4, <3>2, <3>4, <3>5, <3>6 DEF NextCutOf
      <3>8. cut # NULL => \A y \in T : rank[y] <= rank[cut] => BucketOf(y, m) = BucketOf(cut, m)
        <4>1. Ranked(rank, T)
          BY <1>1, <3>2 DEF Ranked
        <4>2. T \in SUBSET Nodes /\ NextType /\ NULL \notin Nodes
          BY <1>1, <3>2
        <4>3. q \in T
          BY <3>5
        <4>4. \A y \in T : rank[q] <= rank[y]
          BY <3>5
        <4>5. /\ cut # NULL => BucketOf(cut, m) = BucketOf(q, m)
              /\ cut # NULL => \A y \in T : rank[y] <= rank[cut] => BucketOf(y, m) = BucketOf(q, m)
          BY <3>3, <3>7, <4>1, <4>2, <4>3, <4>4, CutOnChain
        <4>6. QED
          BY <4>5
      <3>9. p \in T /\ BucketOf(p, m) = b
        BY <1>4, <3>2 DEF In
      <3>10. QED
        BY <1>3, <1>5, <3>2, <3>3, <3>8, <3>9
    <2>5. QED
      BY <1>7, <2>3, <2>4 DEF Expanding
  <1>8. QED
    BY <1>6, <1>7

(***************************************************************************)
(* So does the head of the bucket in the array that was just replaced.     *)
(***************************************************************************)
LEMMA ReplacedLeads ==
  ASSUME VarTypes, NEW rank, NEW m, NEW h, NEW k, Sizes(m, h, k), Chains(rank, m, h, k),
         wpc \in {"published", "shrunk"}, NEW x \in members
  PROVE  \E Q : Leads(Q, buckets[other][BucketOf(x, k)], x)
  <1>1. /\ members \in SUBSET Nodes /\ NULL \notin Nodes /\ x \in Nodes
        /\ Ranked(rank, members) /\ m \in Powers /\ m \in Nat /\ m # 0
    BY TableAssumption, PowerFacts DEF VarTypes, Chains, Sizes
  <1>2. PICK p : p = buckets[other][BucketOf(x, k)]
    OBVIOUS
  <1>3. PICK T \in SUBSET members : /\ Chained(rank, T) /\ p \in T /\ x \in T
                                    /\ rank[p] <= rank[x]
    <2>1. CASE wpc = "published"
      <3>1. m > 1 /\ h = m \div 2 /\ k = h
        BY <2>1 DEF Sizes, Expanding
      <3>2. BucketOf(x, h) \in 0 .. h - 1
        BY <1>1, <3>1, Twins
      <3>3. x \in In(h, BucketOf(x, h)) /\ In(h, BucketOf(x, h)) \in SUBSET members
        BY DEF In
      <3>4. IsFirst(rank, In(h, BucketOf(x, h)), p)
        BY <1>2, <2>1, <3>1, <3>2 DEF Chains, OldHeads
      <3>5. Chained(rank, In(h, BucketOf(x, h)))
        BY <2>1, TwinChained DEF Joined
      <3>6. QED
        BY <3>3, <3>4, <3>5 DEF IsFirst
    <2>2. CASE wpc = "shrunk"
      <3>1. k = 2 * m /\ k \in Powers \cup {0}
        BY <2>2 DEF Sizes
      <3>2. k # 0 /\ k > 1 /\ m = k \div 2
        BY <1>1, <3>1
      <3>3. k \in Powers
        BY <3>1, <3>2
      <3>4. BucketOf(x, k) \in 0 .. k - 1
        BY <1>1, <3>3, BucketFacts
      <3>5. x \in In(k, BucketOf(x, k))
        BY DEF In
      <3>6. IsFirst(rank, In(k, BucketOf(x, k)), p)
        BY <1>2, <2>2, <3>4 DEF Chains, OldHeadsJoined
      <3>7. p \in In(k, BucketOf(x, k)) /\ rank[p] <= rank[x]
        BY <3>5, <3>6 DEF IsFirst
      <3>8. BucketOf(p, m) = BucketOf(x, m)
        <4>1. p \in members /\ BucketOf(p, k) = BucketOf(x, k)
          BY <3>7 DEF In
        <4>2. QED
          BY <1>1, <3>2, <3>3, <4>1, TwinSets
      <3>9. /\ p \in In(m, BucketOf(x, m)) /\ x \in In(m, BucketOf(x, m))
            /\ In(m, BucketOf(x, m)) \in SUBSET members
        BY <3>7, <3>8 DEF In
      <3>10. Chained(rank, In(m, BucketOf(x, m)))
        BY <2>2, PlainChains, PlainChained DEF PlainPC
      <3>11. QED
        BY <3>7, <3>9, <3>10
    <2>3. QED
      BY <2>1, <2>2
  <1>4. Ranked(rank, T)
    BY <1>1, <1>3 DEF Ranked
  <1>5. QED
    BY <1>1, <1>2, <1>3, <1>4, Stretch
-----------------------------------------------------------------------------
(* Steps of readers.                                                        *)

LEMMA CutStays ==
  ASSUME UNCHANGED <<next, buckets, current>>, wpc' = wpc, NEW d
  PROVE  NextCutOf(d)' = NextCutOf(d)
  <1>1. \A p : Chain(p)' = Chain(p)
    BY DEF Chain
  <1>2. \A p, m : SegmentEnd(p, m)' = SegmentEnd(p, m)
    BY <1>1 DEF SegmentEnd, SelectInSeq, BucketOf
  <1>3. QED
    BY <1>2 DEF NextCutOf, other, NrBuckets

\* A reader that a step leaves where it is.
LEMMA LookupStays ==
  ASSUME UNCHANGED <<tableVars, writerVars, syncing>>, NEW q \in Readers,
         AnswersInv(q), WalkInv(q),
         UNCHANGED <<rpc[q], target[q], pos[q], answers[q]>>,
         q \in waiting'[writer] <=> q \in waiting[writer]
  PROVE  AnswersInv(q)' /\ WalkInv(q)'
  <1>1. UNCHANGED <<next, buckets, current, members, limbo, wpc, iHalf, releases, syncing>>
    BY DEF tableVars, writerVars
  <1>2. /\ NodeOf(members, target[q])' = NodeOf(members, target[q])
        /\ Fresh(q)' = Fresh(q)
    BY <1>1 DEF NodeOf, Fresh
  <1>3. AnswersInv(q)'
    BY <1>1, <1>2 DEF AnswersInv
  <1>4. \A P : Safe(q, P) => Safe(q, P)'
    BY <1>1 DEF Safe
  <1>5. \A Q : Route(q, Q) => Route(q, Q)'
    <2>1. \A d : NextCutOf(d)' = NextCutOf(d)
      BY <1>1, CutStays
    <2>2. \A d : Later(q, d)' = Later(q, d)
      BY <1>1 DEF Later
    <2>3. \A Q : Avoids(q, Q) => Avoids(q, Q)'
      BY <1>1, <2>1, <2>2 DEF Avoids, other, NrBuckets, BucketOf
    <2>4. QED
      BY <1>1, <2>3 DEF Route
  <1>6. QED
    BY <1>3, <1>4, <1>5 DEF WalkInv

LEMMA LoadHeadLeads ==
  ASSUME IInv, KeysDistinct, NEW r \in Readers, rpc[r] = "head", AnswersInv(r),
         NEW p, p = buckets[array[r]][Hash[target[r]] % NrBuckets(array[r])]
  PROVE  /\ p \in members \cup {NULL}
         /\ NULL \notin answers[r] =>
              \E Q \in SUBSET members :
                /\ p \in Q /\ \A n \in Q : Key[n] # target[r] => next[n] \in Q
                /\ Avoids(r, Q)
  <1>1. /\ VarTypes /\ TableInv /\ ReaderInv(r) /\ ReadersTypes
        /\ members \in SUBSET Nodes /\ NULL \notin Nodes /\ target[r] \in Keys
        /\ target[r] # NULL
    BY TableAssumption DEF IInv, ReadersInv, ReaderInv, VarTypes, ReadersTypes
  <1>2. /\ array[r] \in Arrays /\ array[r] \in {current, other}
        /\ array[r] = current
             \/ (wpc \in {"published", "shrunk"} /\ (writer \in syncing => r \in waiting[writer]))
    BY <1>1 DEF ReaderInv, ReadersTypes, VarTypes, Arrays, other
  <1>3. Hash[target[r]] \in Nat
    BY <1>1, TableAssumption
  <1>4. p \in members \cup {NULL}
    BY <1>1, <1>2, <1>3, HeadsAreMembers
  <1>5. ASSUME NULL \notin answers[r]
        PROVE  \E Q \in SUBSET members :
                 /\ p \in Q /\ \A n \in Q : Key[n] # target[r] => next[n] \in Q
                 /\ Avoids(r, Q)
    <2>1. PICK x \in members : Key[x] = target[r]
      BY <1>1, <1>5, NodeOfMember DEF AnswersInv
    <2>2. \A j : BucketOf(x, j) = Hash[target[r]] % j
      BY <2>1 DEF BucketOf
    <2>3. PICK rank, m, h, k : Sizes(m, h, k) /\ Chains(rank, m, h, k)
      BY <1>1 DEF TableInv
    <2>4. /\ m \in Nat /\ NrBuckets(current) = m /\ k \in Nat /\ NrBuckets(other) = k
          /\ wpc \in Expanding => k = h
      <3>1. m \in Powers /\ k \in Powers \cup {0} /\ buckets[current] \in Heads(m)
            /\ buckets[other] \in Heads(k)
        BY <2>3 DEF Sizes
      <3>2. m \in Nat /\ k \in Nat
        BY <3>1, PowerFacts
      <3>3. QED
        BY <2>3, <3>1, <3>2, NrBucketsOf DEF Sizes
    <2>5. \A d : Later(r, d) => wpc \in Expanding
      BY DEF Later, Expanding
    <2>6. CASE array[r] = current
      <3>1. PICK Q : /\ Leads(Q, buckets[current][BucketOf(x, m)], x)
                     /\ wpc \in Expanding /\ NextCutOf(BucketOf(x, h)) # NULL
                          /\ BucketOf(NextCutOf(BucketOf(x, h)), m) # BucketOf(x, m)
                        => NextCutOf(BucketOf(x, h)) \notin Q
        BY <1>1, <2>3, PublishedLeads
      <3>2. p = buckets[current][BucketOf(x, m)]
        BY <2>2, <2>4, <2>6
      <3>3. Avoids(r, Q)
        BY <2>2, <2>4, <2>5, <3>1 DEF Avoids
      <3>4. QED
        BY <2>1, <3>1, <3>2, <3>3 DEF Leads
    <2>7. CASE array[r] # current
      <3>1. /\ array[r] = other /\ wpc \in {"published", "shrunk"}
            /\ writer \in syncing => r \in waiting[writer]
        BY <1>2, <2>7
      <3>2. p = buckets[other][BucketOf(x, k)]
        BY <2>2, <2>4, <3>1
      <3>3. PICK Q : Leads(Q, buckets[other][BucketOf(x, k)], x)
        BY <1>1, <2>3, <3>1, ReplacedLeads
      <3>4. Avoids(r, Q)
        BY <3>1 DEF Avoids, Later
      <3>5. QED
        BY <2>1, <3>2, <3>3, <3>4 DEF Leads
    <2>8. QED
      BY <2>6, <2>7
  <1>6. QED
    BY <1>4, <1>5

LEMMA ReaderMap ==
  ASSUME IInv, MapInv, NEW r \in Readers,
         \/ ReadLock(r) \/ ReadUnlock(r) \/ Lookup(r)
         \/ \E k \in Keys : FindStart(r, k)
  PROVE  MapInv'
  <1>1. UNCHANGED <<tableVars, writerVars, syncing>>
    BY DEF ReadLock, ReadUnlock, Lookup, LoadHead, LoadNext, FindEnd, FindStart,
           Reader, zoneVars, Zone!ReadLock, Zone!ReadUnlock
  <1>2. UNCHANGED <<next, buckets, current, members, limbo, wpc, iHalf, releases, syncing>>
    BY <1>1 DEF tableVars, writerVars
  <1>3. /\ VarTypes /\ TableInv /\ ReadersTypes /\ ReaderInv(r) /\ KeysDistinct
        /\ \A q \in Readers : AnswersInv(q) /\ WalkInv(q)
    BY DEF IInv, ReadersInv, VarTypes, MapInv
  <1>4. NULL \notin Nodes \cup Keys /\ members \in SUBSET Nodes /\ waiting \in [{writer} -> SUBSET Readers]
    BY <1>3, TableAssumption DEF VarTypes, ReadersTypes, Zone!TypeOK
  <1>5. ASSUME AnswersInv(r)' /\ WalkInv(r)',
               \A q \in Readers \ {r} :
                 /\ UNCHANGED <<rpc[q], target[q], pos[q], answers[q]>>
                 /\ q \in waiting'[writer] <=> q \in waiting[writer]
        PROVE  MapInv'
    <2>1. \A q \in Readers \ {r} : AnswersInv(q)' /\ WalkInv(q)'
      BY <1>1, <1>3, <1>5, LookupStays
    <2>2. KeysDistinct'
      BY <1>2, <1>3 DEF KeysDistinct
    <2>3. QED
      BY <1>5, <2>1, <2>2 DEF MapInv
  <1>6. CASE ReadLock(r)
    <2>1. /\ rpc[r] = "out" /\ rpc' = [rpc EXCEPT ![r] = "section"]
          /\ UNCHANGED <<waiting, target, pos, answers>>
      BY <1>6 DEF ReadLock, Reader, Zone!ReadLock
    <2>2. AnswersInv(r)'
      <3>1. Fresh(r)' = Fresh(r) /\ NodeOf(members, target[r])' = NodeOf(members, target[r])
        BY <1>2, <2>1 DEF Fresh, NodeOf
      <3>2. QED
        BY <1>2, <1>3, <2>1, <3>1 DEF AnswersInv
    <2>3. WalkInv(r)'
      BY <1>3, <2>1 DEF WalkInv, ReadersTypes
    <2>4. QED
      BY <1>3, <1>5, <2>1, <2>2, <2>3 DEF ReadersTypes
  <1>7. CASE ReadUnlock(r)
    <2>1. /\ rpc[r] = "section" /\ rpc' = [rpc EXCEPT ![r] = "out"]
          /\ waiting' = [w \in {writer} |-> waiting[w] \ {r}]
          /\ UNCHANGED <<target, pos, answers>>
      BY <1>7 DEF ReadUnlock, Reader, Zone!ReadUnlock
    <2>2. AnswersInv(r)'
      BY <1>3, <2>1 DEF AnswersInv, ReaderInv
    <2>3. WalkInv(r)'
      BY <1>3, <2>1 DEF WalkInv, ReadersTypes
    <2>4. QED
      BY <1>3, <1>5, <2>1, <2>2, <2>3 DEF ReadersTypes
  <1>8. ASSUME NEW k \in Keys, FindStart(r, k) PROVE MapInv'
    <2>1. /\ rpc' = [rpc EXCEPT ![r] = "head"]
          /\ target' = [target EXCEPT ![r] = k]
          /\ answers' = [answers EXCEPT ![r] = {NodeOf(members, k)}]
          /\ UNCHANGED <<waiting, pos>>
      BY <1>8 DEF FindStart, Reader, zoneVars
    <2>2. /\ target'[r] = k /\ answers'[r] = {NodeOf(members, k)} /\ k # NULL
          /\ rpc'[r] = "head"
      BY <1>3, <1>4, <2>1 DEF ReadersTypes
    <2>3. AnswersInv(r)'
      <3>1. NodeOf(members, target[r])' = NodeOf(members, k)
        BY <1>2, <2>2 DEF NodeOf
      <3>2. NodeOf(members, k) \in members \cup {NULL}
        BY <1>4, NodeOfMember
      <3>3. QED
        BY <1>2, <2>2, <3>1, <3>2 DEF AnswersInv
    <2>4. WalkInv(r)'
      BY <2>2 DEF WalkInv
    <2>5. QED
      BY <1>3, <1>5, <2>1, <2>3, <2>4 DEF ReadersTypes
  <1>9. CASE LoadHead(r)
    <2> DEFINE p == buckets[array[r]][Hash[target[r]] % NrBuckets(array[r])]
    <2>1. /\ rpc[r] = "head" /\ rpc' = [rpc EXCEPT ![r] = "walk"]
          /\ pos' = [pos EXCEPT ![r] = p]
          /\ UNCHANGED <<waiting, target, answers>>
      BY <1>9 DEF LoadHead, Reader, zoneVars
    <2>2. /\ p \in members \cup {NULL}
          /\ NULL \notin answers[r] =>
               \E Q \in SUBSET members :
                 /\ p \in Q /\ \A n \in Q : Key[n] # target[r] => next[n] \in Q
                 /\ Avoids(r, Q)
      BY <1>3, <2>1, LoadHeadLeads
    <2> HIDE DEF p
    <2>3. pos'[r] = p
      BY <1>3, <2>1 DEF ReadersTypes
    <2>4. AnswersInv(r)'
      <3>1. Fresh(r)' = Fresh(r) /\ NodeOf(members, target[r])' = NodeOf(members, target[r])
        BY <1>2, <2>1 DEF Fresh, NodeOf
      <3>2. QED
        BY <1>2, <1>3, <2>1, <3>1 DEF AnswersInv
    <2>5. Safe(r, members)'
      <3>1. NodeOf(members, target[r]) \in answers[r]
        BY <1>3, <2>1 DEF AnswersInv, ReaderInv
      <3>2. \A n \in members : Key[n] = target[r] => n \in answers[r]
        BY <1>3, <1>4, <3>1, NodeOfOnly
      <3>3. \A n \in members : next[n] \in members \cup {NULL}
        BY <1>3, NextOfMember
      <3>4. QED
        BY <1>2, <2>1, <2>2, <2>3, <3>2, <3>3 DEF Safe
    <2>6. ASSUME NULL \notin answers'[r] PROVE \E Q \in SUBSET Nodes : Route(r, Q)'
      <3>1. PICK Q \in SUBSET members :
              /\ p \in Q /\ \A n \in Q : Key[n] # target[r] => next[n] \in Q
              /\ Avoids(r, Q)
        BY <2>1, <2>2, <2>6
      <3>2. Avoids(r, Q)'
        <4>1. \A d : NextCutOf(d)' = NextCutOf(d)
          BY <1>2, CutStays
        <4>2. \A d : Later(r, d)' = Later(r, d)
          BY <1>2, <2>1 DEF Later
        <4>3. QED
          BY <1>2, <2>1, <3>1, <4>1, <4>2 DEF Avoids, other, NrBuckets, BucketOf
      <3>3. Route(r, Q)'
        BY <1>2, <2>1, <2>3, <3>1, <3>2 DEF Route
      <3>4. Q \in SUBSET Nodes
        BY <1>4, <3>1
      <3>5. QED
        BY <3>3, <3>4
    <2>7. WalkInv(r)'
      BY <1>2, <1>4, <2>5, <2>6 DEF WalkInv
    <2>8. QED
      BY <1>3, <1>5, <2>1, <2>4, <2>7 DEF ReadersTypes
  <1>10. CASE LoadNext(r)
    <2>1. /\ rpc[r] = "walk" /\ rpc' = [rpc EXCEPT ![r] = "walk"]
          /\ pos[r] # NULL /\ Key[pos[r]] # target[r]
          /\ pos' = [pos EXCEPT ![r] = next[pos[r]]]
          /\ UNCHANGED <<waiting, target, answers>>
      BY <1>10 DEF LoadNext, Reader, zoneVars
    <2>2. pos'[r] = next[pos[r]]
      BY <1>3, <2>1 DEF ReadersTypes
    <2>3. AnswersInv(r)'
      <3>1. Fresh(r)' = Fresh(r) /\ NodeOf(members, target[r])' = NodeOf(members, target[r])
        BY <1>2, <2>1 DEF Fresh, NodeOf
      <3>2. QED
        BY <1>2, <1>3, <2>1, <3>1 DEF AnswersInv
    <2>4. \A P : Safe(r, P) => Safe(r, P)'
      BY <1>2, <2>1, <2>2 DEF Safe
    <2>5. \A Q : Route(r, Q) => Route(r, Q)'
      <3>1. \A d : NextCutOf(d)' = NextCutOf(d)
        BY <1>2, CutStays
      <3>2. \A d : Later(r, d)' = Later(r, d)
        BY <1>2, <2>1 DEF Later
      <3>3. \A Q : Avoids(r, Q) => Avoids(r, Q)'
        BY <1>2, <2>1, <3>1, <3>2 DEF Avoids, other, NrBuckets, BucketOf
      <3>4. QED
        BY <1>2, <2>1, <2>2, <3>3 DEF Route
    <2>6. WalkInv(r)'
      BY <1>3, <2>1, <2>4, <2>5 DEF WalkInv
    <2>7. QED
      BY <1>3, <1>5, <2>1, <2>3, <2>6 DEF ReadersTypes
  <1>11. CASE FindEnd(r)
    <2>1. /\ rpc' = [rpc EXCEPT ![r] = "section"]
          /\ pos' = [pos EXCEPT ![r] = NULL]
          /\ target' = [target EXCEPT ![r] = NULL]
          /\ answers' = [answers EXCEPT ![r] = {}]
          /\ UNCHANGED waiting
      BY <1>11 DEF FindEnd, Reader, zoneVars
    <2>2. rpc'[r] = "section" /\ target'[r] = NULL /\ answers'[r] = {}
      BY <1>3, <2>1 DEF ReadersTypes
    <2>3. AnswersInv(r)' /\ WalkInv(r)'
      BY <2>2 DEF AnswersInv, WalkInv
    <2>4. QED
      BY <1>3, <1>5, <2>1, <2>3 DEF ReadersTypes
  <1>12. QED
    BY <1>6, <1>7, <1>8, <1>9, <1>10, <1>11 DEF Lookup
-----------------------------------------------------------------------------
(* Steps of the writer that leave the links alone.                          *)

LEMMA QuietStep ==
  ASSUME IInv, IInv', MapInv, UNCHANGED <<readerVars, answers, next, members, limbo>>,
         \A r \in Readers : Fresh(r)' /\ target[r] # NULL => Fresh(r),
         \A r \in Readers, Q \in SUBSET Nodes :
           Route(r, Q) /\ rpc[r] = "walk" => Avoids(r, Q)'
  PROVE  MapInv'
  <1>1. UNCHANGED <<rpc, target, pos>>
    BY DEF readerVars
  <1>2. KeysDistinct'
    BY DEF MapInv, KeysDistinct
  <1>3. Recorded
    <2>1. ASSUME NEW r \in Readers
          PROVE  answers'[r] = IF target[r] = NULL THEN {}
                               ELSE answers[r] \cup {NodeOf(members', target[r])}
      <3>1. AnswersInv(r)
        BY DEF MapInv
      <3>2. NodeOf(members', target[r]) = NodeOf(members, target[r])
        OBVIOUS
      <3>3. QED
        BY <3>1, <3>2 DEF AnswersInv
    <2>2. QED
      BY <2>1 DEF Recorded
  <1>4. \A r \in Readers, Q \in SUBSET Nodes :
          Route(r, Q) /\ rpc[r] = "walk" /\ NULL \notin answers'[r] => Route(r, Q)'
    BY <1>1 DEF Route
  <1>5. QED
    BY <1>2, <1>3, <1>4, WriterStep

\* A step after which no walk has begun after the last cut.
LEMMA NoneLater ==
  ASSUME IInv, IInv', MapInv, UNCHANGED <<readerVars, answers, next, members, limbo>>,
         \A r \in Readers : Fresh(r)' /\ target[r] # NULL => Fresh(r),
         \A r \in Readers : \A d : rpc[r] = "walk" => ~Later(r, d)'
  PROVE  MapInv'
  BY QuietStep DEF Avoids

LEMMA CallMap ==
  ASSUME IInv, IInv', MapInv,
         \/ Synchronize \/ ExpandBuckets2x \/ ShrinkBuckets2x
         \/ PublishExpanded \/ UnzipPassEnd \/ PublishShrunk
  PROVE  MapInv'
  <1>1. /\ UNCHANGED <<readerVars, answers, next, members, limbo, syncing>>
        /\ wpc \in {"idle", "expand", "unzip", "publish"}
        /\ wpc' \in {"sync", "expand", "shrink", "published", "free", "passed", "shrunk"}
        /\ wpc' = "free" => wpc = "unzip" /\ releases' = releases
    BY DEF Synchronize, ExpandBuckets2x, ShrinkBuckets2x, PublishExpanded, UnzipPassEnd,
           PublishShrunk, Publish, Writer, tableVars, zoneVars
  <1>2. writer \notin syncing' /\ ~(wpc' = "free" /\ releases')
    BY <1>1 DEF IInv, WriterInv, Continuation
  <1>3. \A r \in Readers : ~Fresh(r)'
    BY <1>2 DEF Fresh
  <1>4. \A r \in Readers : \A d : ~Later(r, d)'
    BY <1>1, <1>2 DEF Later
  <1>5. QED
    BY <1>1, <1>3, <1>4, NoneLater

LEMMA SyncStartMap ==
  ASSUME IInv, IInv', MapInv, SyncStart
  PROVE  MapInv'
  <1>1. /\ UNCHANGED <<readerVars, answers, next, members, limbo, wpc, releases>>
        /\ wpc \in {"published", "passed", "shrunk", "sync"}
        /\ syncing' = syncing \cup {writer}
        /\ waiting' = [waiting EXCEPT ![writer] = inside]
    BY DEF SyncStart, Zone!SyncStart, tableVars, writerVars, Continuation
  <1>2. waiting'[writer] = inside
    BY <1>1 DEF IInv, VarTypes, ReadersTypes, Zone!TypeOK
  <1>3. \A r \in Readers : target[r] # NULL => r \in inside
    BY DEF IInv, ReadersInv, ReaderInv
  <1>4. \A r \in Readers : rpc[r] = "walk" => r \in inside
    BY DEF IInv, ReadersInv, ReaderInv
  <1>5. \A r \in Readers : Fresh(r)' /\ target[r] # NULL => Fresh(r)
    BY <1>1, <1>2, <1>3 DEF Fresh
  <1>6. \A r \in Readers : \A d : rpc[r] = "walk" => ~Later(r, d)'
    BY <1>1, <1>2, <1>4 DEF Later
  <1>7. QED
    BY <1>1, <1>5, <1>6, NoneLater

\* The node at which a chain will be cut is the same.
LEMMA SameCut ==
  ASSUME UNCHANGED <<next, current>>, buckets'[current] = buckets[current],
         NEW d, buckets'[other][d] = buckets[other][d],
         wpc \in {"unzip", "passed"} <=> wpc' \in {"unzip", "passed"}
  PROVE  NextCutOf(d)' = NextCutOf(d)
  <1>1. \A p : Chain(p)' = Chain(p)
    BY DEF Chain
  <1>2. \A p, m : SegmentEnd(p, m)' = SegmentEnd(p, m)
    BY <1>1 DEF SegmentEnd, SelectInSeq, BucketOf
  <1>3. QED
    BY <1>2 DEF NextCutOf, other, NrBuckets

LEMMA SyncEndMap ==
  ASSUME IInv, IInv', MapInv, SyncEnd, wpc # "sync"
  PROVE  MapInv'
  <1>1. /\ writer \in syncing /\ waiting[writer] = {}
        /\ UNCHANGED <<readerVars, answers, buckets, current, members>>
        /\ wpc' = Continuation[wpc] /\ iHalf' = 0 /\ GiveBackIf(wpc = "sync")
    BY DEF SyncEnd, Zone!SyncEnd
  <1>2. /\ wpc \in {"published", "passed", "shrunk"}
        /\ wpc = "published" => wpc' = "starts"
        /\ wpc = "passed" => wpc' = "unzip"
        /\ wpc = "shrunk" => wpc' = "free"
    BY <1>1 DEF IInv, WriterInv, Continuation
  <1>3. UNCHANGED <<limbo, next, releases>>
    BY <1>1, <1>2 DEF GiveBackIf, IInv, VarTypes, NextType
  <1>4. \A r \in Readers : Fresh(r)' => Fresh(r)
    <2>1. \A r \in Readers : Fresh(r)' => wpc = "shrunk"
      BY <1>1, <1>2, <1>3 DEF Fresh, IInv, WriterInv
    <2>2. QED
      BY <1>1, <2>1 DEF Fresh
  <1>5. ASSUME NEW r \in Readers, NEW Q \in SUBSET Nodes, Route(r, Q) PROVE Avoids(r, Q)'
    <2>1. target' = target
      BY <1>1 DEF readerVars
    <2>2. \A d : Later(r, d)' => Later(r, d) /\ wpc \in {"published", "passed"}
      BY <1>1, <1>2 DEF Later
    <2>3. wpc \in {"published", "passed"} => \A d : NextCutOf(d)' = NextCutOf(d)
      BY <1>1, <1>2, <1>3, SameCut
    <2>4. QED
      BY <1>1, <1>5, <2>1, <2>2, <2>3 DEF Route, Avoids, NrBuckets, other, BucketOf
  <1>6. QED
    BY <1>1, <1>3, <1>4, <1>5, QuietStep

LEMMA FindStartsMap ==
  ASSUME IInv, IInv', MapInv, findFirstUnzipStarts
  PROVE  MapInv'
  <1> DEFINE starts == [b \in DOMAIN buckets[other] |->
        IF buckets[other][b] = NULL
        THEN NULL
        ELSE SegmentEnd(buckets[other][b], NrBuckets(current))]
  <1>1. /\ UNCHANGED <<readerVars, answers, next, members, limbo, current, iHalf, releases>>
        /\ wpc = "starts" /\ wpc' \in {"free", "unzip"}
        /\ buckets' = [buckets EXCEPT ![other] = starts]
    BY DEF findFirstUnzipStarts, Writer
  <1>2. VarTypes /\ TableInv /\ ~releases /\ \A r \in Readers : ReaderInv(r)
    BY <1>1 DEF IInv, WriterInv, ReadersInv
  <1>3. PICK rank, m, h, k : Sizes(m, h, k) /\ Loops(h)
    BY <1>2 DEF TableInv
  <1>4. /\ NrBuckets(other) = h /\ DOMAIN buckets[other] = 0 .. h - 1
        /\ h \in Nat /\ h # 0
    <2>1. m \in Powers /\ m > 1 /\ h = m \div 2 /\ k = h /\ buckets[other] \in Heads(k)
      BY <1>1, <1>3 DEF Sizes, Expanding
    <2>2. h \in Nat /\ h # 0
      BY <2>1, Twins
    <2>3. QED
      BY <2>1, <2>2, NrBucketsOf
  <1>5. /\ buckets'[other] = starts /\ buckets'[current] = buckets[current]
        /\ other' = other /\ DOMAIN starts = DOMAIN buckets[other]
    BY <1>1, <1>2 DEF VarTypes, Arrays, other
  <1>6. NrBuckets(other)' = NrBuckets(other) /\ NrBuckets(current)' = NrBuckets(current)
    BY <1>1, <1>5 DEF NrBuckets
  <1>7. \A r \in Readers : ~Fresh(r)'
    BY <1>1, <1>2 DEF Fresh
  <1>8. ASSUME NEW r \in Readers, NEW Q \in SUBSET Nodes, Route(r, Q), rpc[r] = "walk"
        PROVE  Avoids(r, Q)'
    <2> DEFINE d == Hash[target[r]] % NrBuckets(other)
    <2>1. target' = target
      BY <1>1 DEF readerVars
    <2>2. d \in 0 .. h - 1
      <3>1. target[r] \in Keys
        BY <1>2, <1>8 DEF ReaderInv, VarTypes, ReadersTypes
      <3>2. Hash[target[r]] \in Nat
        BY <3>1, TableAssumption
      <3>3. QED
        BY <1>4, <3>2
    <2>3. d' = d
      BY <1>6, <2>1
    <2> HIDE DEF d
    <2>4. starts[d] = NextCutOf(d)
      BY <1>1, <1>4, <2>2 DEF NextCutOf
    <2>5. Later(r, d)' => wpc' = "unzip"
      BY <1>1 DEF Later
    <2>6. wpc' = "unzip" => NextCutOf(d)' = NextCutOf(d)
      BY <1>5, <2>3, <2>4 DEF NextCutOf
    <2>7. Later(r, d)
      BY <1>1 DEF Later
    <2>8. Avoids(r, Q)
      BY <1>8 DEF Route
    <2>9. Avoids(r, Q)' <=>
            (Later(r, d)' /\ NextCutOf(d)' # NULL
               /\ BucketOf(NextCutOf(d)', NrBuckets(current)) # Hash[target[r]] % NrBuckets(current)
             => NextCutOf(d)' \notin Q)
      BY <1>6, <2>1, <2>3 DEF Avoids, d, BucketOf
    <2>10. QED
      BY <2>5, <2>6, <2>7, <2>8, <2>9 DEF Avoids, d
  <1>9. QED
    BY <1>1, <1>7, <1>8, QuietStep

LEMMA SkipMap ==
  ASSUME IInv, IInv', MapInv, SkipUnzipped
  PROVE  MapInv'
  <1>1. /\ UNCHANGED <<readerVars, answers, next, members, limbo, current, buckets>>
        /\ wpc = "unzip" /\ wpc' = "unzip" /\ iHalf' = iHalf + 1 /\ iHalf \in Nat
    BY DEF SkipUnzipped, Writer, tableVars, IInv, VarTypes
  <1>2. \A r \in Readers : ~Fresh(r)'
    BY <1>1 DEF Fresh
  <1>3. ASSUME NEW r \in Readers, NEW Q \in SUBSET Nodes, Route(r, Q), rpc[r] = "walk"
        PROVE  Avoids(r, Q)'
    <2> DEFINE d == Hash[target[r]] % NrBuckets(other)
    <2>1. target' = target
      BY <1>1 DEF readerVars
    <2>2. d \in Int
      <3>1. target[r] \in Keys
        BY <1>3 DEF IInv, ReadersInv, ReaderInv, VarTypes, ReadersTypes
      <3>2. Hash[target[r]] \in Nat
        BY <3>1, TableAssumption
      <3>3. NrBuckets(other) \in Nat \ {0}
        <4>1. wpc = "unzip" /\ VarTypes /\ TableInv
          BY <1>1 DEF IInv
        <4>2. PICK rank, m, h, k : Sizes(m, h, k)
          BY <4>1 DEF TableInv
        <4>3. QED
          BY <4>1, <4>2, UnzipSizes
      <3>4. QED
        BY <3>2, <3>3
    <2>3. Later(r, d)' => Later(r, d)
      <3>1. d' = d
        BY <1>1, <2>1 DEF NrBuckets, other
      <3> HIDE DEF d
      <3>2. QED
        BY <1>1, <2>2, <3>1 DEF Later
    <2>4. NextCutOf(d)' = NextCutOf(d)
      <3>1. d' = d
        BY <1>1, <2>1 DEF NrBuckets, other
      <3>2. \A c : NextCutOf(c)' = NextCutOf(c)
        BY <1>1, CutStays
      <3> HIDE DEF d
      <3>3. QED
        BY <3>1, <3>2
    <2>5. QED
      BY <1>1, <1>3, <2>1, <2>3, <2>4 DEF Route, Avoids, NrBuckets, other, BucketOf
  <1>4. QED
    BY <1>1, <1>2, <1>3, QuietStep
-----------------------------------------------------------------------------
(* Insertions and removals.                                                 *)

(***************************************************************************)
(* A search of the writer that finds nothing has missed nothing.           *)
(***************************************************************************)
LEMMA MatchMissesNone ==
  ASSUME VarTypes, NEW rank, NEW m \in Powers, Plain(rank, m),
         buckets[current] \in Heads(m), NEW key \in Keys, Match(key) = NULL
  PROVE  \A x \in members : Key[x] # key
  <1> DEFINE b == BucketOfKey(key)
             p == buckets[current][b]
             S == In(m, b)
  <1>1. m \in Nat /\ m # 0 /\ NrBuckets(current) = m
    BY PowerFacts, NrBucketsOf
  <1>2. b \in 0 .. m - 1
    BY <1>1, TwinBuckets, TableAssumption DEF BucketOfKey
  <1>3. IsFirst(rank, S, p)
    BY <1>2 DEF Plain, Published
  <1>4. \A x \in members : Key[x] = key => x \in S
    BY <1>1 DEF In, BucketOf, BucketOfKey
  <1>5. CASE S = {}
    BY <1>4, <1>5
  <1>6. CASE S # {}
    <2>1. p \in S /\ S \in SUBSET Nodes /\ \A x \in S : rank[p] <= rank[x]
      BY <1>3, <1>6 DEF IsFirst, In, VarTypes
    <2>2. Ranked(rank, S) /\ Chained(rank, S)
      BY <2>1 DEF Plain, Ranked, Chained, In
    <2>3. p = buckets[current][BucketOfKey(key)]
      OBVIOUS
    <2> HIDE DEF S, p, b
    <2>4. Lists(Chain(p), rank, S, p)
      BY <2>1, <2>2, ChainLists DEF VarTypes
    <2>5. \A x \in S : rank[p] <= rank[x] => Key[x] # key
      BY <2>1, <2>2, <2>3, <2>4, MatchFirst
    <2>6. QED
      BY <1>4, <2>1, <2>5
  <1>7. QED
    BY <1>5, <1>6

\* The chains between the calls of the writer.
LEMMA IdleChains ==
  ASSUME IInv, wpc = "idle"
  PROVE  \E rank, m : m \in Powers /\ Plain(rank, m) /\ buckets[current] \in Heads(m)
  <1>1. PICK rank, m, h, k : Sizes(m, h, k) /\ Chains(rank, m, h, k)
    BY DEF IInv, TableInv
  <1>2. wpc \in PlainPC
    BY DEF PlainPC
  <1>3. Plain(rank, m)
    BY <1>1, <1>2, PlainChains DEF IInv
  <1>4. QED
    BY <1>1, <1>3 DEF Sizes

LEMMA RecordedByContent ==
  ASSUME NEW S, ContentBecomes(S)
  PROVE  Recorded /\ members' = S
  BY DEF ContentBecomes, Recorded

LEMMA InsertMap ==
  ASSUME IInv, IInv', MapInv, NEW n \in Nodes, TryInsertNoExpand(n) \/ TryInsert(n)
  PROVE  MapInv'
  <1>1. /\ wpc = "idle" /\ wpc' \in {"idle", "expand"}
        /\ UNCHANGED <<zoneVars, readerVars>>
        /\ MayInsert(n) /\ Prepend(n) /\ Match(Key[n]) = NULL
    BY DEF TryInsertNoExpand, TryInsert, Writer
  <1>2. /\ n \notin members /\ n \notin limbo
        /\ ContentBecomes(members \cup {n}) /\ limbo' = limbo
        /\ next' = [next EXCEPT ![n] = buckets[current][BucketOfKey(Key[n])]]
    BY <1>1 DEF MayInsert, Prepend
  <1>3. Recorded /\ members' = members \cup {n}
    BY <1>2, RecordedByContent
  <1>4. VarTypes /\ \A x \in Nodes : x # n => next'[x] = next[x]
    BY <1>2 DEF IInv, VarTypes, NextType
  <1>5. PICK rank, m : m \in Powers /\ Plain(rank, m) /\ buckets[current] \in Heads(m)
    BY <1>1, IdleChains
  <1>6. \A x \in members : Key[x] # Key[n]
    <2>1. Key[n] \in Keys
      BY TableAssumption
    <2>2. QED
      BY <1>1, <1>4, <1>5, <2>1, MatchMissesNone
  <1>7. KeysDistinct'
    BY <1>3, <1>6 DEF MapInv, KeysDistinct
  <1>8. ASSUME NEW r \in Readers PROVE ~Fresh(r)' /\ \A d : ~Later(r, d)'
    BY <1>1 DEF Fresh, Later
  <1>9. ASSUME NEW r \in Readers, NEW Q \in SUBSET Nodes, Route(r, Q) PROVE Route(r, Q)'
    <2>1. Avoids(r, Q)'
      BY <1>8 DEF Avoids
    <2>2. UNCHANGED <<pos, target>>
      BY <1>1 DEF readerVars
    <2>3. \A x \in Q : x # n
      BY <1>2, <1>9 DEF Route
    <2>4. QED
      BY <1>2, <1>3, <1>4, <1>9, <2>1, <2>2, <2>3 DEF Route
  <1>10. \A x \in Nodes \ members' : next'[x] = next[x]
    BY <1>3, <1>4
  <1>11. members \cup limbo \subseteq members' \cup limbo'
    BY <1>2, <1>3
  <1>12. QED
    BY <1>1, <1>3, <1>7, <1>8, <1>9, <1>10, <1>11, WriterStep

LEMMA DetachMap ==
  ASSUME IInv, IInv', MapInv, NEW key \in Keys,
         \/ TryDetachNoShrink(key) \/ TryDetachAutoShrink(key)
         \/ TryDetachAndSynchronize(key)
  PROVE  MapInv'
  <1>1. PICK n : n = Match(key)
    OBVIOUS
  <1>2. /\ wpc = "idle" /\ wpc' \in {"idle", "shrink", "sync"}
        /\ UNCHANGED <<zoneVars, readerVars>>
        /\ n # NULL /\ Unlink(n)
    BY <1>1 DEF TryDetachNoShrink, TryDetachAutoShrink, TryDetachAndSynchronize, Writer
  <1>3. limbo' = limbo \cup {n} /\ ContentBecomes(members \ {n})
    BY <1>2 DEF Unlink
  <1>4. Recorded /\ members' = members \ {n}
    BY <1>3, RecordedByContent
  <1>5. VarTypes
    BY DEF IInv
  <1>6. PICK rank, m : m \in Powers /\ Plain(rank, m) /\ buckets[current] \in Heads(m)
    BY <1>2, IdleChains
  <1>7. n \in members
    BY <1>1, <1>2, <1>5, <1>6, MatchIsMember
  <1>8. /\ \A x \in Nodes \ members : next'[x] = next[x]
        /\ next'[n] = next[n]
        /\ \A x \in Nodes : next'[x] = next[x] \/ (next[x] = n /\ next'[x] = next[n])
    BY <1>2, <1>5, <1>6, <1>7, UnlinkPlain
  <1>9. KeysDistinct'
    BY <1>4 DEF MapInv, KeysDistinct
  <1>10. ASSUME NEW r \in Readers PROVE ~Fresh(r)' /\ \A d : ~Later(r, d)'
    <2>1. writer \notin syncing'
      BY <1>2 DEF IInv, WriterInv, zoneVars, Continuation
    <2>2. QED
      BY <1>2, <2>1 DEF Fresh, Later
  <1>11. ASSUME NEW r \in Readers, NEW Q \in SUBSET Nodes, Route(r, Q), rpc[r] = "walk",
                NULL \notin answers'[r]
         PROVE  Route(r, Q)'
    <2>1. Avoids(r, Q)'
      BY <1>10 DEF Avoids
    <2>2. UNCHANGED <<pos, target>>
      BY <1>2 DEF readerVars
    <2>3. Key[n] # target[r]
      <3>1. target[r] # NULL
        BY <1>11 DEF IInv, ReadersInv, ReaderInv
      <3>2. NodeOf(members', target[r]) # NULL
        BY <1>4, <1>11, <3>1 DEF Recorded
      <3>3. members' \in SUBSET Nodes
        BY <1>4, <1>5 DEF VarTypes
      <3>4. PICK x \in members' : Key[x] = target[r]
        BY <3>2, <3>3, NodeOfMember
      <3>5. QED
        BY <1>4, <1>7, <3>4 DEF MapInv, KeysDistinct
    <2>4. \A x \in Q : Key[x] # target[r] => next[x] \in Q
      BY <1>11 DEF Route
    <2>5. ASSUME NEW x \in Q, Key[x] # target[r] PROVE next'[x] \in Q
      BY <1>8, <2>3, <2>4, <2>5
    <2>6. QED
      BY <1>3, <1>4, <1>11, <2>1, <2>2, <2>5 DEF Route
  <1>12. \A x \in Nodes \ members' : next'[x] = next[x]
    BY <1>4, <1>8
  <1>13. members \cup limbo \subseteq members' \cup limbo'
    BY <1>3, <1>4
  <1>14. QED
    BY <1>2, <1>4, <1>9, <1>10, <1>11, <1>12, <1>13, WriterStep
-----------------------------------------------------------------------------
(* Halving and doubling the buckets.                                        *)

LEMMA RecordedByNone ==
  ASSUME MapInv, UNCHANGED <<answers, members>>
  PROVE  Recorded /\ KeysDistinct'
  <1>1. ASSUME NEW r \in Readers
        PROVE  answers'[r] = IF target[r] = NULL THEN {}
                             ELSE answers[r] \cup {NodeOf(members', target[r])}
    <2>1. AnswersInv(r)
      BY DEF MapInv
    <2>2. NodeOf(members', target[r]) = NodeOf(members, target[r])
      OBVIOUS
    <2>3. QED
      BY <2>1, <2>2 DEF AnswersInv
  <1>2. QED
    BY <1>1 DEF Recorded, MapInv, KeysDistinct

\* Joining two buckets changes only a link that led nowhere.
LEMMA JoinedEnd ==
  ASSUME IInv, shrinkTwoBucketsToOne
  PROVE  /\ \A x \in Nodes : next'[x] = next[x] \/ next[x] = NULL
         /\ \A x \in Nodes \ members : next'[x] = next[x]
  <1>1. PICK rank, m, h, k : Sizes(m, h, k) /\ Chains(rank, m, h, k)
    BY DEF IInv, TableInv
  <1>2. PICK p, last :
          /\ p = buckets[current][iHalf] /\ last = Last(Chain(p))
          /\ Join(last, buckets[current][iHalf + half])
    BY DEF shrinkTwoBucketsToOne, FirstChain
  <1>3. /\ wpc = "shrink" /\ iHalf < half
        /\ next' = IF Chain(p) = <<>> \/ buckets[current][iHalf + half] = NULL
                   THEN next
                   ELSE [next EXCEPT ![last] = buckets[current][iHalf + half]]
    BY <1>2 DEF Join, Writer, FirstChain
  <1>4. VarTypes /\ iHalf \in Nat /\ members \in SUBSET Nodes /\ NULL \notin Nodes /\ NextType
    BY TableAssumption DEF IInv, VarTypes
  <1>5. CASE Chain(p) = <<>>
    BY <1>3, <1>5
  <1>6. CASE Chain(p) # <<>>
    <2>1. m \in Powers /\ m > 1 /\ NrBuckets(current) = m
      BY <1>1, <1>3, PowerFacts, NrBucketsOf DEF Sizes
    <2>2. half \in Nat /\ half # 0 /\ m = 2 * half
      BY <2>1, Twins DEF half
    <2>3. iHalf \in 0 .. m - 1
      BY <1>3, <1>4, <2>2
    <2>4. PICK T : Covers(rank, T, In(m, iHalf))
      BY <1>1, <1>4, <2>3, BucketChain
    <2>5. p # NULL
      BY <1>4, <1>6, ChainOfNULL
    <2>6. p \in T /\ T \in SUBSET Nodes /\ Chained(rank, T) /\ T \subseteq members
      BY <1>1, <1>2, <1>4, <2>3, <2>4, <2>5 DEF Chains, Published, IsFirst, Covers
    <2>7. Ranked(rank, T)
      BY <1>1, <2>6 DEF Chains, Ranked
    <2>8. Lists(Chain(p), rank, T, p)
      BY <1>4, <2>6, <2>7, ChainLists
    <2>9. last \in T /\ next[last] = NULL
      BY <1>2, <2>6, <2>8, LastEndsChain
    <2>10. QED
      BY <1>3, <1>4, <2>6, <2>9 DEF NextType
  <1>7. QED
    BY <1>5, <1>6

LEMMA JoinMap ==
  ASSUME IInv, IInv', MapInv, shrinkTwoBucketsToOne
  PROVE  MapInv'
  <1>1. /\ wpc' \in {"publish", "shrink"}
        /\ UNCHANGED <<readerVars, members, limbo, answers>>
    BY DEF shrinkTwoBucketsToOne, Join, Writer
  <1>2. /\ \A x \in Nodes : next'[x] = next[x] \/ next[x] = NULL
        /\ \A x \in Nodes \ members : next'[x] = next[x]
    BY JoinedEnd
  <1>3. Recorded /\ KeysDistinct'
    BY <1>1, RecordedByNone
  <1>4. \A r \in Readers : ~Fresh(r)' /\ \A d : ~Later(r, d)'
    BY <1>1 DEF Fresh, Later
  <1>5. ASSUME NEW r \in Readers, NEW Q \in SUBSET Nodes, Route(r, Q) PROVE Route(r, Q)'
    <2>1. Avoids(r, Q)'
      BY <1>4 DEF Avoids
    <2>2. UNCHANGED <<pos, target>>
      BY <1>1 DEF readerVars
    <2>3. \A x \in Q : next'[x] = next[x] \/ Key[x] = target[r]
      <3>1. NULL \notin Q
        BY TableAssumption
      <3>2. QED
        BY <1>2, <1>5, <3>1 DEF Route
    <2>4. QED
      BY <1>1, <1>5, <2>1, <2>2, <2>3 DEF Route
  <1>6. QED
    BY <1>1, <1>2, <1>3, <1>4, <1>5, WriterStep

\* The links of nodes in bucket b do not lead out of Q.
ClosedIn(Q, b, m) == \A n \in Q : BucketOf(n, m) = b => next[n] \in Q

(***************************************************************************)
(* A set that is closed under the links of one bucket has the first node   *)
(* behind the segment of this bucket, if it has the segment's first node.  *)
(***************************************************************************)
LEMMA AcrossSegment ==
  ASSUME NextType, NULL \notin Nodes, NEW T \in SUBSET Nodes, NEW rank,
         Ranked(rank, T), Chained(rank, T), NEW p \in T, \A x \in T : rank[p] <= rank[x],
         NEW m, NEW cut, cut = SegmentEnd(p, m)
  PROVE  \A Q \in SUBSET Nodes : p \in Q /\ ClosedIn(Q, BucketOf(p, m), m)
           => cut # NULL /\ next[cut] \in Q
  <1>1. /\ cut = NULL => \A x \in T : BucketOf(x, m) = BucketOf(p, m)
        /\ cut # NULL =>
             /\ cut \in T /\ BucketOf(cut, m) = BucketOf(p, m)
             /\ \A x \in T : rank[x] <= rank[cut] => BucketOf(x, m) = BucketOf(p, m)
    BY CutOnChain
  <1>2. SUFFICES ASSUME NEW Q \in SUBSET Nodes, p \in Q, ClosedIn(Q, BucketOf(p, m), m)
                  PROVE  cut # NULL /\ next[cut] \in Q
    OBVIOUS
  <1> DEFINE R == {x \in T : x \in Q /\ (cut = NULL \/ rank[x] <= rank[cut])}
  <1>3. \A x \in T : rank[x] \in Int
    BY DEF Ranked
  <1>4. p \in R /\ IsFiniteSet(R) /\ \A x \in R : rank[x] \in Int
    <2>1. p \in R
      <3>1. cut # NULL => rank[p] <= rank[cut]
        BY <1>1
      <3>2. QED
        BY <1>2, <3>1
    <2>2. IsFiniteSet(R)
      <3>1. R \in SUBSET Nodes
        OBVIOUS
      <3> HIDE DEF R
      <3>2. QED
        BY <3>1, TableAssumption, FS_Subset
    <2>3. QED
      BY <1>3, <2>1, <2>2
  <1>5. PICK g \in R : \A x \in R : rank[x] <= rank[g]
    <2> HIDE DEF R
    <2>1. QED
      BY <1>4, GreatestRank
  <1>6. g \in T /\ g \in Q /\ BucketOf(g, m) = BucketOf(p, m) /\ next[g] \in Q
    <2>1. g \in T /\ g \in Q /\ (cut = NULL \/ rank[g] <= rank[cut])
      OBVIOUS
    <2>2. BucketOf(g, m) = BucketOf(p, m)
      BY <1>1, <2>1
    <2>3. QED
      BY <1>2, <2>1, <2>2 DEF ClosedIn
  <1>7. IsSuccessor(rank, T, g, next[g])
    BY <1>6 DEF Chained, LinkedIn
  <1>8. next[g] \in T /\ rank[g] < rank[next[g]] /\ next[g] \notin R
    BY <1>3, <1>5, <1>6, <1>7 DEF IsSuccessor
  <1>9. cut # NULL /\ rank[cut] < rank[next[g]]
    BY <1>1, <1>3, <1>6, <1>8
  <1>10. rank[cut] <= rank[g]
    BY <1>1, <1>3, <1>6, <1>7, <1>9 DEF IsSuccessor
  <1>11. cut = g
    BY <1>1, <1>3, <1>6, <1>9, <1>10 DEF Ranked
  <1>12. QED
    BY <1>6, <1>9, <1>11

LEMMA UnzipMap ==
  ASSUME IInv, IInv', MapInv, unzipOneSegment
  PROVE  MapInv'
  <1>1. PICK rank, m, h, k : Sizes(m, h, k) /\ Loops(h) /\ Chains(rank, m, h, k)
    BY DEF IInv, TableInv
  <1>2. PICK b, cut, c1, beyond :
          /\ b = iHalf /\ cut = Cut
          /\ c1 = SegmentEnd(next[cut], NrBuckets(current))
          /\ beyond = IF c1 = NULL THEN NULL ELSE next[c1]
          /\ UnzipWith(c1, beyond)
    BY DEF unzipOneSegment, NextCut, BeyondNextCut
  <1>3. /\ wpc = "unzip" /\ wpc' = "unzip" /\ b < NrBuckets(other) /\ cut # NULL
        /\ buckets' = [buckets EXCEPT ![other][b] = c1]
        /\ next' = [next EXCEPT ![cut] = beyond]
        /\ iHalf' = b + 1
        /\ UNCHANGED <<readerVars, current, limbo, members, answers>>
    BY <1>2 DEF UnzipWith, Writer
  <1>4. /\ VarTypes /\ iHalf \in Nat /\ members \in SUBSET Nodes /\ NULL \notin Nodes
        /\ NextType /\ current \in Arrays /\ DOMAIN buckets = Arrays
    BY TableAssumption DEF IInv, VarTypes
  <1>5. /\ m \in Powers /\ m \in Nat /\ m > 1 /\ NrBuckets(current) = m
        /\ h \in Nat /\ h # 0 /\ h = m \div 2 /\ NrBuckets(other) = h
        /\ DOMAIN buckets[other] = 0 .. h - 1
    BY <1>1, <1>3, <1>4, UnzipSizes
  <1>6. b \in 0 .. h - 1 /\ cut = buckets[other][b]
    BY <1>2, <1>3, <1>4, <1>5 DEF Cut
  <1>7. /\ cut \in In(h, b) /\ BucketOf(next[cut], m) # BucketOf(cut, m)
        /\ \E T \in SUBSET In(h, b) :
             /\ Chained(rank, T) /\ next[cut] \in T
             /\ \A x \in T : rank[next[cut]] <= rank[x]
    <2>1. cut # NULL /\ c1 = SegmentEnd(next[cut], m)
      BY <1>2, <1>3, <1>5
    <2>2. QED
      BY <1>1, <1>2, <1>3, <1>4, <1>6, <2>1, OneSegment
  <1>8. PICK p, T : /\ p = next[cut] /\ p \in T /\ T \in SUBSET Nodes
                    /\ \A x \in T : x \in members /\ BucketOf(x, h) = b
                    /\ Ranked(rank, T) /\ Chained(rank, T)
                    /\ \A x \in T : rank[p] <= rank[x]
    <2>1. PICK T \in SUBSET In(h, b) :
             /\ Chained(rank, T) /\ next[cut] \in T
             /\ \A x \in T : rank[next[cut]] <= rank[x]
      BY <1>7
    <2>2. \A x \in T : x \in members /\ BucketOf(x, h) = b
      BY <2>1 DEF In
    <2>3. Ranked(rank, T)
      BY <1>1, <2>2 DEF Chains, Ranked
    <2>4. QED
      BY <1>4, <2>1, <2>2, <2>3
  <1>9. /\ cut \in members
        /\ \A x \in Nodes : next'[x] = IF x = cut THEN beyond ELSE next[x]
    BY <1>3, <1>4, <1>7 DEF In, NextType
  <1>10. \A r \in Readers : ~Fresh(r)'
    BY <1>3 DEF Fresh
  <1>11. ASSUME NEW r \in Readers, NEW Q \in SUBSET Nodes, Route(r, Q), rpc[r] = "walk",
                NULL \notin answers'[r]
         PROVE  Route(r, Q)'
    <2>1. UNCHANGED <<pos, target>>
      BY <1>3 DEF readerVars
    <2>2. PICK x \in members : Key[x] = target[r]
      <3>1. target[r] # NULL
        BY <1>11 DEF IInv, ReadersInv, ReaderInv
      <3>2. NodeOf(members, target[r]) # NULL
        BY <1>3, <1>11, <3>1 DEF MapInv, AnswersInv
      <3>3. QED
        BY <1>4, <3>2, NodeOfMember
    <2>3. \A j : BucketOf(x, j) = Hash[target[r]] % j
      BY <2>2 DEF BucketOf
    <2>4. ASSUME cut \in Q, Key[cut] # target[r] PROVE beyond \in Q
      <3>1. p \in Q
        BY <1>8, <1>11, <2>4 DEF Route
      <3>2. BucketOf(p, m) # BucketOf(x, m)
        <4>1. SUFFICES ASSUME BucketOf(p, m) = BucketOf(x, m) PROVE FALSE
          OBVIOUS
        <4>2. BucketOf(x, h) = b
          BY <1>4, <1>5, <1>8, <2>2, <4>1, TwinSets
        <4>3. Later(r, b) /\ NextCutOf(b) = cut
          BY <1>2, <1>3, <1>4, <1>6 DEF Later, NextCutOf
        <4>4. BucketOf(cut, m) # BucketOf(x, m)
          BY <1>7, <1>8, <4>1
        <4>5. cut \notin Q
          BY <1>3, <1>5, <1>11, <2>3, <4>2, <4>3, <4>4 DEF Route, Avoids
        <4>6. QED
          BY <2>4, <4>5
      <3>3. ClosedIn(Q, BucketOf(p, m), m)
        <4>1. ASSUME NEW n \in Q, BucketOf(n, m) = BucketOf(p, m) PROVE next[n] \in Q
          <5>1. Key[n] # target[r]
            BY <2>2, <3>2, <4>1 DEF BucketOf
          <5>2. QED
            BY <1>11, <5>1 DEF Route
        <4>2. QED
          BY <4>1 DEF ClosedIn
      <3>4. c1 = SegmentEnd(p, m)
        BY <1>2, <1>5, <1>8
      <3>5. \A U \in SUBSET Nodes : p \in U /\ ClosedIn(U, BucketOf(p, m), m)
              => c1 # NULL /\ next[c1] \in U
        BY <1>4, <1>8, <3>4, AcrossSegment
      <3>6. QED
        BY <1>2, <3>1, <3>3, <3>5
    <2>5. Avoids(r, Q)'
      <3> DEFINE d == Hash[target[r]] % NrBuckets(other)
      <3>1. /\ other' = other /\ buckets'[current] = buckets[current]
            /\ DOMAIN buckets'[other] = DOMAIN buckets[other]
            /\ \A j : j # b => buckets'[other][j] = buckets[other][j]
        BY <1>3, <1>4 DEF Arrays, other
      <3>2. NrBuckets(other)' = NrBuckets(other) /\ NrBuckets(current)' = NrBuckets(current)
        BY <1>3, <3>1 DEF NrBuckets
      <3>3. d' = d
        BY <2>1, <3>2
      <3>4. d \in Nat
        <4>1. Hash[target[r]] \in Nat
          BY <1>4, <2>2, TableAssumption
        <4>2. QED
          BY <1>5, <4>1
      <3> HIDE DEF d
      <3>5. Later(r, d)' => d # b /\ Later(r, d)
        BY <1>2, <1>3, <1>4, <3>3, <3>4 DEF Later
      <3>6. d # b => NextCutOf(d)' = NextCutOf(d)
        BY <1>3, <3>1, <3>3 DEF NextCutOf
      <3>7. Avoids(r, Q)
        BY <1>11 DEF Route
      <3>8. Avoids(r, Q)' <=>
              (Later(r, d)' /\ NextCutOf(d)' # NULL
                 /\ BucketOf(NextCutOf(d)', NrBuckets(current)) # Hash[target[r]] % NrBuckets(current)
               => NextCutOf(d)' \notin Q)
        BY <2>1, <3>2, <3>3 DEF Avoids, d, BucketOf
      <3>9. QED
        BY <3>5, <3>6, <3>7, <3>8 DEF Avoids, d
    <2>6. \A n \in Q : Key[n] # target[r] => next'[n] \in Q
      BY <1>9, <1>11, <2>4 DEF Route
    <2>7. QED
      BY <1>3, <1>11, <2>1, <2>5, <2>6 DEF Route
  <1>12. Recorded /\ KeysDistinct'
    BY <1>3, RecordedByNone
  <1>13. \A x \in Nodes \ members' : next'[x] = next[x]
    BY <1>3, <1>9
  <1>14. members \cup limbo \subseteq members' \cup limbo'
    BY <1>3
  <1>15. QED
    BY <1>3, <1>10, <1>11, <1>12, <1>13, <1>14, WriterStep
-----------------------------------------------------------------------------
(* Nodes go back to their owner.                                            *)

LEMMA GivenBack ==
  ASSUME IInv, MapInv, UNCHANGED <<readerVars, answers, members>>,
         limbo' = {}, \A n \in Nodes : next'[n] = IF n \in limbo THEN NULL ELSE next[n],
         \A r \in Readers : Fresh(r), wpc' = "idle"
  PROVE  MapInv'
  <1>1. UNCHANGED <<rpc, target, pos>>
    BY DEF readerVars
  <1>2. /\ members \in SUBSET Nodes /\ NULL \notin Nodes /\ limbo \cap members = {}
        /\ \A r \in Readers : ReaderInv(r)
    BY TableAssumption DEF IInv, VarTypes, ReadersInv
  <1>3. \A n \in members : next'[n] = next[n] /\ next[n] \in members \cup {NULL}
    BY <1>2, NextOfMember DEF IInv
  <1>4. KeysDistinct'
    BY DEF MapInv, KeysDistinct
  <1>5. ASSUME NEW r \in Readers PROVE AnswersInv(r)'
    <2>1. AnswersInv(r) /\ answers[r] \subseteq members \cup {NULL}
      BY DEF MapInv, AnswersInv
    <2>2. NodeOf(members, target[r])' = NodeOf(members, target[r])
      BY <1>1 DEF NodeOf
    <2>3. QED
      BY <1>1, <2>1, <2>2 DEF AnswersInv
  <1>6. ASSUME NEW r \in Readers, rpc[r] = "walk" PROVE pos[r] \in members \cup {NULL}
    BY <1>2, <1>6 DEF ReaderInv, Uses
  <1>7. ASSUME NEW r \in Readers PROVE WalkInv(r)'
    <2>1. SUFFICES ASSUME rpc[r] = "walk"
                   PROVE  /\ \E P \in SUBSET Nodes : Safe(r, P)'
                          /\ NULL \notin answers[r] => \E Q \in SUBSET Nodes : Route(r, Q)'
      BY <1>1 DEF WalkInv
    <2>2. \E P \in SUBSET Nodes : Safe(r, P)'
      <3>1. PICK P \in SUBSET Nodes : Safe(r, P)
        BY <2>1 DEF MapInv, WalkInv
      <3>2. PICK P1 : P1 = members
        OBVIOUS
      <3>3. \A n \in P1 : Key[n] = target[r] => n \in answers[r]
        BY <3>1, <3>2 DEF Safe
      <3>4. Safe(r, P1)'
        BY <1>1, <1>3, <1>6, <2>1, <3>2, <3>3 DEF Safe
      <3>5. QED
        BY <1>2, <3>2, <3>4
    <2>3. ASSUME NULL \notin answers[r] PROVE \E Q \in SUBSET Nodes : Route(r, Q)'
      <3>1. PICK Q \in SUBSET Nodes : Route(r, Q)
        BY <2>1, <2>3 DEF MapInv, WalkInv
      <3>2. PICK Q1 \in SUBSET Nodes : Q1 = Q \cap members
        OBVIOUS
      <3>3. NULL \notin Q /\ pos[r] \in Q1
        BY <1>2, <1>6, <2>1, <3>1, <3>2 DEF Route
      <3>4. \A n \in Q1 : Key[n] # target[r] => next'[n] \in Q1
        BY <1>3, <3>1, <3>2, <3>3 DEF Route
      <3>5. Avoids(r, Q1)'
        BY DEF Avoids, Later
      <3>6. Q1 \subseteq members' \cup limbo'
        BY <3>2
      <3>7. Route(r, Q1)'
        BY <1>1, <3>3, <3>4, <3>5, <3>6 DEF Route
      <3>8. QED
        BY <3>7
    <2>4. QED
      BY <2>2, <2>3
  <1>8. QED
    BY <1>4, <1>5, <1>7 DEF MapInv

LEMMA GiveBackMap ==
  ASSUME IInv, IInv', MapInv, (SyncEnd /\ wpc = "sync") \/ FreeOld
  PROVE  MapInv'
  <1>1. VarTypes /\ NextType
    BY DEF IInv, VarTypes
  <1>2. CASE SyncEnd /\ wpc = "sync"
    <2>1. /\ writer \in syncing /\ waiting[writer] = {} /\ wpc' = "idle"
          /\ UNCHANGED <<readerVars, answers, members>> /\ GiveBackIf(TRUE)
      BY <1>2 DEF SyncEnd, Zone!SyncEnd, Continuation
    <2>2. \A r \in Readers : Fresh(r)
      BY <1>2, <2>1 DEF Fresh
    <2>3. limbo' = {} /\ \A n \in Nodes : next'[n] = IF n \in limbo THEN NULL ELSE next[n]
      BY <2>1 DEF GiveBackIf
    <2>4. QED
      BY <2>1, <2>2, <2>3, GivenBack
  <1>3. CASE FreeOld
    <2>1. /\ wpc = "free" /\ wpc' = "idle"
          /\ UNCHANGED <<readerVars, answers, members>> /\ GiveBackIf(releases)
      BY <1>3 DEF FreeOld, Free, Writer
    <2>2. CASE releases
      <3>1. \A r \in Readers : Fresh(r)
        BY <2>1, <2>2 DEF Fresh
      <3>2. limbo' = {} /\ \A n \in Nodes : next'[n] = IF n \in limbo THEN NULL ELSE next[n]
        BY <2>1, <2>2 DEF GiveBackIf
      <3>3. QED
        BY <2>1, <3>1, <3>2, GivenBack
    <2>3. CASE ~releases
      <3>1. UNCHANGED <<next, limbo>>
        BY <1>1, <2>1, <2>3 DEF GiveBackIf, NextType
      <3>2. \A r \in Readers : ~Fresh(r)' /\ \A d : ~Later(r, d)'
        BY <2>1 DEF Fresh, Later
      <3>3. QED
        BY <2>1, <3>1, <3>2, NoneLater
    <2>4. QED
      BY <2>2, <2>3
  <1>4. QED
    BY <1>2, <1>3

-----------------------------------------------------------------------------

LEMMA InitMap == Init => MapInv
  <1> SUFFICES ASSUME Init PROVE MapInv
    OBVIOUS
  <1>1. members = {} /\ \A r \in Readers : rpc[r] = "out" /\ target[r] = NULL /\ answers[r] = {}
    BY DEF Init
  <1>2. KeysDistinct
    BY <1>1 DEF KeysDistinct
  <1>3. \A r \in Readers : AnswersInv(r) /\ WalkInv(r)
    BY <1>1 DEF AnswersInv, WalkInv
  <1>4. QED
    BY <1>2, <1>3 DEF MapInv

LEMMA NextMap == IInv /\ IInv' /\ MapInv /\ [Next]_vars => MapInv'
  <1> SUFFICES ASSUME IInv, IInv', MapInv, [Next]_vars PROVE MapInv'
    OBVIOUS
  <1>1. CASE UNCHANGED vars
    <2>1. UNCHANGED <<tableVars, writerVars, zoneVars, readerVars, answers>>
      BY <1>1 DEF vars
    <2>2. UNCHANGED <<syncing, waiting, rpc, target, pos, members>>
      BY <2>1 DEF tableVars, zoneVars, readerVars
    <2>3. KeysDistinct'
      BY <2>2 DEF MapInv, KeysDistinct
    <2>4. \A r \in Readers : AnswersInv(r)' /\ WalkInv(r)'
      BY <2>1, <2>2, LookupStays DEF MapInv
    <2>5. QED
      BY <2>3, <2>4 DEF MapInv
  <1>2. ASSUME NEW r \in Readers,
               \/ ReadLock(r) \/ ReadUnlock(r) \/ Lookup(r)
               \/ \E k \in Keys : FindStart(r, k)
        PROVE  MapInv'
    BY <1>2, ReaderMap
  <1>3. ASSUME NEW n \in Nodes, TryInsertNoExpand(n) \/ TryInsert(n) PROVE MapInv'
    BY <1>3, InsertMap
  <1>4. ASSUME NEW k \in Keys,
               \/ TryDetachNoShrink(k) \/ TryDetachAutoShrink(k)
               \/ TryDetachAndSynchronize(k)
        PROVE  MapInv'
    BY <1>4, DetachMap
  <1>5. CASE \/ Synchronize \/ ExpandBuckets2x \/ ShrinkBuckets2x
             \/ PublishExpanded \/ UnzipPassEnd \/ PublishShrunk
    BY <1>5, CallMap
  <1>6. CASE WriterGoesOn
    <2>1. CASE SyncStart
      BY <2>1, SyncStartMap
    <2>2. CASE SyncEnd
      BY <2>2, SyncEndMap, GiveBackMap
    <2>3. CASE findFirstUnzipStarts
      BY <2>3, FindStartsMap
    <2>4. CASE unzipOneSegment
      BY <2>4, UnzipMap
    <2>5. CASE SkipUnzipped
      BY <2>5, SkipMap
    <2>6. CASE shrinkTwoBucketsToOne
      BY <2>6, JoinMap
    <2>7. CASE FreeOld
      BY <2>7, GiveBackMap
    <2>8. QED
      BY <1>5, <1>6, <2>1, <2>2, <2>3, <2>4, <2>5, <2>6, <2>7 DEF WriterGoesOn
  <1>7. QED
    BY <1>1, <1>2, <1>3, <1>4, <1>5, <1>6 DEF Next

LEMMA MapInvAlways == Spec => [](IInv /\ MapInv)
  <1>1. Init => IInv /\ MapInv
    BY InitIInv, InitMap
  <1>2. (IInv /\ MapInv) /\ [Next]_vars => (IInv /\ MapInv)'
    BY NextIInv, NextMap
  <1>3. QED
    BY <1>1, <1>2, PTL DEF Spec

-----------------------------------------------------------------------------
(* Every step is one of the map's, or changes nothing that the map knows.   *)

LEMMA SameNodeOf == \A S, k : Map!NodeOf(S, k) = NodeOf(S, k)
  BY DEF NodeOf, Map!NodeOf

\* A lookup ends with an answer that it may give.
LEMMA FoundIsAnswer ==
  ASSUME IInv, MapInv, NEW r \in Readers, FindEnd(r)
  PROVE  target[r] # NULL /\ pos[r] \in answers[r] /\ pos[r] \in Nodes \cup {NULL}
  <1>1. rpc[r] = "walk" /\ (pos[r] # NULL => Key[pos[r]] = target[r])
    BY DEF FindEnd, Reader
  <1>2. target[r] # NULL /\ WalkInv(r) /\ NULL \notin Nodes /\ pos[r] \in Nodes \cup {NULL}
    BY <1>1, TableAssumption DEF IInv, ReadersInv, ReaderInv, MapInv, VarTypes, ReadersTypes
  <1>3. CASE pos[r] # NULL
    <2>1. PICK P \in SUBSET Nodes : Safe(r, P)
      BY <1>1, <1>2 DEF WalkInv
    <2>2. QED
      BY <1>1, <1>2, <1>3, <2>1 DEF Safe
  <1>4. CASE pos[r] = NULL
    <2>1. SUFFICES ASSUME NULL \notin answers[r] PROVE FALSE
      BY <1>2, <1>4
    <2>2. PICK Q \in SUBSET Nodes : Route(r, Q)
      BY <1>1, <1>2, <2>1 DEF WalkInv
    <2>3. QED
      BY <1>2, <1>4, <2>2 DEF Route
  <1>5. QED
    BY <1>3, <1>4

LEMMA ReaderImplements ==
  ASSUME IInv, MapInv, NEW r \in Readers,
         \/ ReadLock(r) \/ ReadUnlock(r) \/ Lookup(r)
         \/ \E k \in Keys : FindStart(r, k)
  PROVE  [Map!Next]_(Map!vars)
  <1>1. ReaderInv(r)
    BY DEF IInv, ReadersInv
  <1>2. CASE ReadLock(r)
    <2>1. Map!Lock(r)
      BY <1>2 DEF ReadLock, Reader, tableVars, Zone!ReadLock, Map!Lock
    <2>2. QED
      BY <2>1 DEF Map!Next
  <1>3. CASE ReadUnlock(r)
    <2>1. Map!Unlock(r)
      BY <1>1, <1>3 DEF ReadUnlock, Reader, tableVars, Zone!ReadUnlock, Map!Unlock, ReaderInv
    <2>2. QED
      BY <2>1 DEF Map!Next
  <1>4. ASSUME NEW k \in Keys, FindStart(r, k) PROVE [Map!Next]_(Map!vars)
    <2>1. r \in inside /\ target[r] = NULL
      BY <1>1, <1>4 DEF FindStart, Reader, ReaderInv
    <2>2. Map!FindStart(r, k)
      BY <1>4, <2>1, SameNodeOf DEF FindStart, Reader, tableVars, zoneVars, Map!FindStart
    <2>3. QED
      BY <2>2 DEF Map!Next
  <1>5. CASE LoadHead(r) \/ LoadNext(r)
    <2>1. UNCHANGED <<members, limbo, inside, target, answers, held>>
      BY <1>5 DEF LoadHead, LoadNext, Reader, tableVars, zoneVars
    <2>2. QED
      BY <2>1 DEF Map!vars
  <1>6. CASE FindEnd(r)
    <2>1. target[r] # NULL /\ pos[r] \in answers[r] /\ pos[r] \in Nodes \cup {NULL}
      BY <1>6, FoundIsAnswer
    <2>2. Map!FindEnd(r, pos[r])
      BY <1>6, <2>1 DEF FindEnd, Reader, tableVars, zoneVars, Map!FindEnd
    <2>3. QED
      BY <2>1, <2>2 DEF Map!Next
  <1>7. QED
    BY <1>2, <1>3, <1>4, <1>5, <1>6 DEF Lookup

LEMMA InsertImplements ==
  ASSUME IInv, MapInv, NEW n \in Nodes, TryInsertNoExpand(n) \/ TryInsert(n)
  PROVE  [Map!Next]_(Map!vars)
  <1>1. /\ wpc = "idle" /\ UNCHANGED <<zoneVars, readerVars>>
        /\ MayInsert(n) /\ Prepend(n) /\ Match(Key[n]) = NULL
    BY DEF TryInsertNoExpand, TryInsert, Writer
  <1>2. PICK rank, m : m \in Powers /\ Plain(rank, m) /\ buckets[current] \in Heads(m)
    BY <1>1, IdleChains
  <1>3. \A x \in members : Key[x] # Key[n]
    <2>1. Key[n] \in Keys /\ VarTypes
      BY TableAssumption DEF IInv
    <2>2. QED
      BY <1>1, <1>2, <2>1, MatchMissesNone
  <1>4. Map!NodeOf(members, Key[n]) = NULL
    BY <1>3 DEF Map!NodeOf
  <1>5. n \notin members \cup limbo /\ limbo' = limbo /\ ContentBecomes(members \cup {n})
    BY <1>1 DEF MayInsert, Prepend
  <1>6. Map!Update(members \cup {n})
    BY <1>1, <1>5, SameNodeOf DEF ContentBecomes, Map!Update, zoneVars, readerVars
  <1>7. Map!Insert(n)
    BY <1>4, <1>5, <1>6 DEF Map!Insert
  <1>8. QED
    BY <1>7 DEF Map!Next

LEMMA DetachImplements ==
  ASSUME IInv, MapInv, NEW key \in Keys,
         \/ TryDetachNoShrink(key) \/ TryDetachAutoShrink(key)
         \/ TryDetachAndSynchronize(key)
  PROVE  [Map!Next]_(Map!vars)
  <1>1. PICK n : n = Match(key)
    OBVIOUS
  <1>2. /\ wpc = "idle" /\ UNCHANGED <<zoneVars, readerVars>>
        /\ n # NULL /\ Unlink(n)
    BY <1>1 DEF TryDetachNoShrink, TryDetachAutoShrink, TryDetachAndSynchronize, Writer
  <1>3. PICK rank, m : m \in Powers /\ Plain(rank, m) /\ buckets[current] \in Heads(m)
    BY <1>2, IdleChains
  <1>4. VarTypes
    BY DEF IInv
  <1>5. n \in members /\ n \in Nodes
    BY <1>1, <1>2, <1>3, <1>4, MatchIsMember DEF VarTypes
  <1>6. limbo' = limbo \cup {n} /\ ContentBecomes(members \ {n})
    BY <1>2 DEF Unlink
  <1>7. Map!Update(members \ {n})
    BY <1>2, <1>6, SameNodeOf DEF ContentBecomes, Map!Update, zoneVars, readerVars
  <1>8. Map!Detach(n)
    BY <1>5, <1>6, <1>7 DEF Map!Detach
  <1>9. QED
    BY <1>5, <1>8 DEF Map!Next

LEMMA GiveBackImplements ==
  ASSUME IInv, MapInv, SyncEnd \/ FreeOld
  PROVE  [Map!Next]_(Map!vars)
  <1>1. UNCHANGED <<members, inside, target, answers, held>>
    BY DEF SyncEnd, FreeOld, Free, Writer, Zone!SyncEnd, zoneVars, readerVars
  <1>2. PICK gives \in BOOLEAN :
          GiveBackIf(gives) /\ (gives => \A r \in Readers : Fresh(r))
    <2>1. CASE SyncEnd
      <3>1. /\ writer \in syncing /\ waiting[writer] = {} /\ GiveBackIf(wpc = "sync")
        BY <2>1 DEF SyncEnd, Zone!SyncEnd
      <3>2. wpc = "sync" => \A r \in Readers : Fresh(r)
        BY <3>1 DEF Fresh
      <3>3. QED
        BY <3>1, <3>2
    <2>2. CASE FreeOld
      <3>1. wpc = "free" /\ GiveBackIf(releases) /\ releases \in BOOLEAN
        BY <2>2 DEF FreeOld, Free, Writer, IInv, VarTypes
      <3>2. releases => \A r \in Readers : Fresh(r)
        BY <3>1 DEF Fresh
      <3>3. QED
        BY <3>1, <3>2
    <2>3. QED
      BY <2>1, <2>2
  <1>3. CASE ~gives
    <2>1. limbo' = limbo
      BY <1>2, <1>3 DEF GiveBackIf
    <2>2. QED
      BY <1>1, <2>1 DEF Map!vars
  <1>4. CASE gives
    <2>1. limbo' = {}
      BY <1>2, <1>4 DEF GiveBackIf
    <2>2. ASSUME NEW r \in Readers PROVE (held[r] \cup answers[r]) \cap limbo = {}
      <3>1. ReaderInv(r) /\ AnswersInv(r) /\ Fresh(r)
        BY <1>2, <1>4 DEF IInv, ReadersInv, MapInv
      <3>2. held[r] \cup answers[r] \subseteq members \cup {NULL}
        BY <3>1 DEF ReaderInv, AnswersInv, Uses
      <3>3. NULL \notin limbo /\ limbo \cap members = {}
        BY TableAssumption DEF IInv, VarTypes
      <3>4. QED
        BY <3>2, <3>3
    <2>3. Map!GiveBack
      BY <1>1, <2>1, <2>2 DEF Map!GiveBack
    <2>4. QED
      BY <2>3 DEF Map!Next
  <1>5. QED
    BY <1>3, <1>4

LEMMA NextImplements == IInv /\ MapInv /\ [Next]_vars => [Map!Next]_(Map!vars)
  <1> SUFFICES ASSUME IInv, MapInv, [Next]_vars PROVE [Map!Next]_(Map!vars)
    OBVIOUS
  <1>1. CASE UNCHANGED vars
    BY <1>1 DEF vars, tableVars, zoneVars, readerVars, Map!vars
  <1>2. ASSUME NEW r \in Readers,
               \/ ReadLock(r) \/ ReadUnlock(r) \/ Lookup(r)
               \/ \E k \in Keys : FindStart(r, k)
        PROVE  [Map!Next]_(Map!vars)
    BY <1>2, ReaderImplements
  <1>3. ASSUME NEW n \in Nodes, TryInsertNoExpand(n) \/ TryInsert(n)
        PROVE  [Map!Next]_(Map!vars)
    BY <1>3, InsertImplements
  <1>4. ASSUME NEW k \in Keys,
               \/ TryDetachNoShrink(k) \/ TryDetachAutoShrink(k)
               \/ TryDetachAndSynchronize(k)
        PROVE  [Map!Next]_(Map!vars)
    BY <1>4, DetachImplements
  <1>5. CASE \/ Synchronize \/ ExpandBuckets2x \/ ShrinkBuckets2x \/ SyncStart
             \/ PublishExpanded \/ findFirstUnzipStarts \/ SkipUnzipped \/ UnzipPassEnd
             \/ unzipOneSegment \/ shrinkTwoBucketsToOne \/ PublishShrunk
    <2>1. UNCHANGED <<members, limbo, inside, target, answers, held>>
      BY <1>5 DEF Synchronize, ExpandBuckets2x, ShrinkBuckets2x, SyncStart, Zone!SyncStart,
         PublishExpanded, findFirstUnzipStarts, SkipUnzipped, UnzipPassEnd, unzipOneSegment,
         UnzipWith, shrinkTwoBucketsToOne, Join, PublishShrunk, Publish, Writer,
         tableVars, zoneVars, readerVars
    <2>2. QED
      BY <2>1 DEF Map!vars
  <1>6. CASE SyncEnd \/ FreeOld
    BY <1>6, GiveBackImplements
  <1>7. QED
    BY <1>1, <1>2, <1>3, <1>4, <1>5, <1>6 DEF Next, WriterGoesOn

(***************************************************************************)
(* The table implements RTableMap: while chains are unzipped or joined, a  *)
(* lookup misses no node that was in the table all the time it ran and     *)
(* returns none that was out of it all the time, no key is inserted twice, *)
(* and a node goes back to its owner only when no reader can touch it.     *)
(***************************************************************************)
THEOREM TableImplementsMap == Spec => ImplementsMap
  <1>1. Init => Map!Init
    BY DEF Init, Zone!Init, Map!Init
  <1>2. IInv /\ MapInv /\ [Next]_vars => [Map!Next]_(Map!vars)
    BY NextImplements
  <1>3. QED
    BY <1>1, <1>2, MapInvAlways, PTL DEF Spec, ImplementsMap, Map!Spec
=============================================================================
