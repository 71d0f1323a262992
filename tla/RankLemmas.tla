------------------------------ MODULE RankLemmas ------------------------------
(***************************************************************************)
(* Facts about finite sets whose elements have ranks, for the proofs about *)
(* linked structures: a least element, and the successor of an element.    *)
(***************************************************************************)
EXTENDS Integers, FiniteSets, FiniteSetTheorems, WellFoundedInduction, TLAPS

(***************************************************************************)
(* A finite set that is not empty has an element of least rank.            *)
(***************************************************************************)
LEMMA LeastRank ==
  ASSUME NEW S, IsFiniteSet(S), S # {},
         NEW rank, \A x \in S : rank[x] \in Int
  PROVE  \E x \in S : \A y \in S : rank[x] <= rank[y]
  <1> DEFINE HasLeast(T) == \E x \in T : \A y \in T : rank[x] <= rank[y]
             Bad == {T \in SUBSET S : T # {} /\ ~HasLeast(T)}
  <1>1. SUFFICES ASSUME Bad # {} PROVE FALSE
    <2>1. S \in SUBSET S
      OBVIOUS
    <2>2. QED
      BY <2>1
  <1>2. Bad \subseteq FiniteSubsetsOf(S)
    BY FS_Subset, FS_FiniteSubsetsOfFinite
  <1>3. PICK T \in Bad : \A U \in Bad : <<U, T>> \notin StrictSubsetOrdering(S)
    <2> HIDE DEF Bad
    <2>1. IsWellFoundedOn(StrictSubsetOrdering(S), FiniteSubsetsOf(S))
      BY FS_StrictSubsetOrderingWellFounded
    <2>2. QED
      BY <1>1, <1>2, <2>1, WFMin
  <1>4. PICK x \in T : TRUE
    OBVIOUS
  <1> DEFINE U == T \ {x}
  <1>5. <<U, T>> \in StrictSubsetOrdering(S)
    BY DEF StrictSubsetOrdering
  <1>6. U \notin Bad
    BY <1>3, <1>5
  <1>7. CASE U = {}
    <2>1. \A y \in T : y = x
      BY <1>7
    <2>2. HasLeast(T)
      BY <2>1
    <2>3. QED
      BY <2>2
  <1>8. CASE HasLeast(U)
    <2>1. PICK u \in U : \A y \in U : rank[u] <= rank[y]
      BY <1>8
    <2>2. rank[u] \in Int /\ rank[x] \in Int
      OBVIOUS
    <2>3. CASE rank[u] <= rank[x]
      <3>1. \A y \in T : rank[u] <= rank[y]
        BY <2>1, <2>3
      <3>2. QED
        BY <3>1
    <2>4. CASE rank[x] <= rank[u]
      <3>1. \A y \in T : rank[x] <= rank[y]
        BY <2>1, <2>2, <2>4
      <3>2. QED
        BY <3>1
    <2>5. QED
      BY <2>2, <2>3, <2>4
  <1>9. QED
    BY <1>6, <1>7, <1>8

(***************************************************************************)
(* And one of greatest rank.                                               *)
(***************************************************************************)
LEMMA GreatestRank ==
  ASSUME NEW S, IsFiniteSet(S), S # {},
         NEW rank, \A x \in S : rank[x] \in Int
  PROVE  \E x \in S : \A y \in S : rank[y] <= rank[x]
  <1> DEFINE neg == [x \in S |-> 0 - rank[x]]
  <1>1. \A x \in S : neg[x] = 0 - rank[x] /\ neg[x] \in Int
    OBVIOUS
  <1>2. PICK x \in S : \A y \in S : neg[x] <= neg[y]
    <2> HIDE DEF neg
    <2>1. QED
      BY <1>1, LeastRank
  <1>3. \A y \in S : rank[y] <= rank[x]
    <2> HIDE DEF neg
    <2>1. QED
      BY <1>1, <1>2
  <1>4. QED
    BY <1>3

(***************************************************************************)
(* Some indices among 0 .. N have a least and a greatest one.              *)
(***************************************************************************)
LEMMA LeastIndex ==
  ASSUME NEW N \in Nat, NEW T \in SUBSET (0 .. N), T # {}
  PROVE  /\ \E i \in T : \A j \in T : i <= j
         /\ \E i \in T : \A j \in T : j <= i
  <1> DEFINE id == [i \in T |-> i]
  <1>1. IsFiniteSet(T)
    <2>1. IsFiniteSet(0 .. N)
      BY FS_Interval
    <2>2. QED
      BY <2>1, FS_Subset
  <1>2. \A i \in T : id[i] = i /\ id[i] \in Int
    OBVIOUS
  <1> HIDE DEF id
  <1>3. PICK i \in T : \A j \in T : id[i] <= id[j]
    BY <1>1, <1>2, LeastRank
  <1>4. PICK k \in T : \A j \in T : id[j] <= id[k]
    BY <1>1, <1>2, GreatestRank
  <1>5. QED
    BY <1>2, <1>3, <1>4

-----------------------------------------------------------------------------
(* Walks: sequences of nodes each of which is the successor of the last.    *)

Ranked(rank, S) ==
  /\ \A x \in S : rank[x] \in Int
  /\ \A x, y \in S : rank[x] = rank[y] => x = y

\* q is the element of S that comes next after n.
IsSuccessor(rank, S, n, q) ==
  /\ q \in S /\ rank[n] < rank[q]
  /\ \A x \in S : rank[n] < rank[x] => rank[q] <= rank[x]

IsGreatest(rank, S, n) == \A x \in S : rank[x] <= rank[n]

\* The walk f steps from element to successor and leaves S for ever after
\* the greatest element.
IsWalk(rank, S, N, f) ==
  \A i \in 1 .. N :
    IF f[i - 1] \in S
    THEN \/ IsSuccessor(rank, S, f[i - 1], f[i])
         \/ f[i] \notin S /\ IsGreatest(rank, S, f[i - 1])
    ELSE f[i] \notin S

(***************************************************************************)
(* Going back on a walk one stays in S, and ranks fall.                    *)
(***************************************************************************)
LEMMA WalkAscends ==
  ASSUME NEW S, NEW rank, Ranked(rank, S), NEW N \in Nat, NEW f,
         IsWalk(rank, S, N, f)
  PROVE  \A i \in 0 .. N : f[i] \in S =>
           \A j \in 0 .. N : j < i => f[j] \in S /\ rank[f[j]] < rank[f[i]]
  <1> DEFINE Good(i) == f[i] \in S =>
               \A j \in 0 .. N : j < i => f[j] \in S /\ rank[f[j]] < rank[f[i]]
             Bad == {i \in 0 .. N : ~Good(i)}
  <1>1. SUFFICES ASSUME Bad # {} PROVE FALSE
    OBVIOUS
  <1>2. PICK i \in Bad : \A j \in Bad : i <= j
    <2> HIDE DEF Bad
    <2>1. Bad \in SUBSET (0 .. N)
      BY DEF Bad
    <2>2. QED
      BY <1>1, <2>1, LeastIndex
  <1>3. i \in 1 .. N /\ f[i] \in S
    OBVIOUS
  <1>4. f[i - 1] \in S /\ rank[f[i - 1]] < rank[f[i]]
    BY <1>3 DEF IsWalk, IsSuccessor
  <1>5. Good(i - 1)
    BY <1>2, <1>3
  <1>6. rank[f[i]] \in Int /\ rank[f[i - 1]] \in Int
    BY <1>3, <1>4 DEF Ranked
  <1>7. ASSUME NEW j \in 0 .. N, j < i PROVE f[j] \in S /\ rank[f[j]] < rank[f[i]]
    <2>1. CASE j = i - 1
      BY <1>4, <2>1
    <2>2. CASE j < i - 1
      <3>1. f[j] \in S /\ rank[f[j]] < rank[f[i - 1]]
        BY <1>4, <1>5, <2>2
      <3>2. rank[f[j]] \in Int
        BY <3>1 DEF Ranked
      <3>3. QED
        BY <1>4, <1>6, <3>1, <3>2
    <2>3. QED
      BY <1>3, <1>7, <2>1, <2>2
  <1>8. Good(i)
    BY <1>7
  <1>9. QED
    BY <1>8

(***************************************************************************)
(* A walk of enough steps meets each element of S from its first one on,   *)
(* once, in the order of ranks, and nothing else.                          *)
(***************************************************************************)
Enumerates(rank, S, N, f, length) ==
  /\ length \in 1 .. N
  /\ \A i \in 0 .. N : f[i] \in S <=> i < length
  /\ \A i, j \in 0 .. length - 1 : i < j => rank[f[i]] < rank[f[j]]
  /\ \A x \in S : rank[f[0]] <= rank[x] => \E i \in 0 .. length - 1 : f[i] = x

LEMMA WalkEnumerates ==
  ASSUME NEW S, IsFiniteSet(S), NEW rank, Ranked(rank, S),
         NEW N \in Nat, Cardinality(S) <= N, NEW f, f[0] \in S,
         IsWalk(rank, S, N, f)
  PROVE  \E length \in 1 .. N : Enumerates(rank, S, N, f, length)
  <1>1. \A i, j \in 0 .. N : f[i] \in S /\ j < i => f[j] \in S /\ rank[f[j]] < rank[f[i]]
    BY WalkAscends
  <1> DEFINE Out == {i \in 0 .. N : f[i] \notin S}
  <1>2. Out # {}
    \* N + 1 elements are too many.
    <2>1. SUFFICES ASSUME \A i \in 0 .. N : f[i] \in S PROVE FALSE
      OBVIOUS
    <2> DEFINE g == [i \in 0 .. N |-> f[i]]
    <2>2. g \in [0 .. N -> S]
      BY <2>1
    <2>3. IsFiniteSet(0 .. N) /\ Cardinality(0 .. N) = N + 1
      BY FS_Interval
    <2>4. Cardinality(S) \in Nat
      BY FS_CardinalityType
    <2>5. PICK i, j \in 0 .. N : i # j /\ g[i] = g[j]
      <3> HIDE DEF g
      <3>1. Cardinality(S) < Cardinality(0 .. N)
        BY <2>3, <2>4
      <3>2. QED
        BY <2>2, <2>3, <3>1, FS_PigeonHole
    <2>6. f[i] = f[j] /\ rank[f[i]] \in Int
      BY <2>1, <2>5 DEF Ranked
    <2>7. i < j \/ j < i
      BY <2>5
    <2>8. QED
      BY <1>1, <2>1, <2>6, <2>7
  <1>3. PICK length \in Out : \A i \in Out : length <= i
    <2> HIDE DEF Out
    <2>1. Out \in SUBSET (0 .. N)
      BY DEF Out
    <2>2. QED
      BY <1>2, <2>1, LeastIndex
  <1>4. length \in 1 .. N
    BY <1>3
  <1>5. \A i \in 0 .. N : f[i] \in S <=> i < length
    BY <1>1, <1>3, <1>4
  <1>6. \A i, j \in 0 .. length - 1 : i < j => rank[f[i]] < rank[f[j]]
    BY <1>1, <1>4, <1>5
  <1>7. ASSUME NEW x \in S, rank[f[0]] <= rank[x]
        PROVE  \E i \in 0 .. length - 1 : f[i] = x
    <2> DEFINE Before == {i \in 0 .. length - 1 : rank[f[i]] <= rank[x]}
    <2>1. PICK k \in Before : \A i \in Before : i <= k
      <3>1. Before \in SUBSET (0 .. N) /\ 0 \in Before
        BY <1>4, <1>7
      <3> HIDE DEF Before
      <3>2. QED
        BY <3>1, LeastIndex
    <2>2. k \in 0 .. length - 1 /\ f[k] \in S /\ rank[f[k]] <= rank[x]
      BY <1>4, <1>5, <2>1
    <2>3. rank[f[k]] \in Int /\ rank[x] \in Int
      BY <2>2 DEF Ranked
    <2>4. SUFFICES ASSUME rank[f[k]] < rank[x] PROVE FALSE
      BY <2>2, <2>3 DEF Ranked
    <2>5. k + 1 \in 1 .. N /\ (k + 1) - 1 = k
      BY <1>4, <2>2
    <2>6. IsSuccessor(rank, S, f[k], f[k + 1])
      <3>1. \/ IsSuccessor(rank, S, f[k], f[k + 1])
            \/ IsGreatest(rank, S, f[k])
        BY <2>2, <2>5 DEF IsWalk
      <3>2. ~IsGreatest(rank, S, f[k])
        BY <2>3, <2>4 DEF IsGreatest
      <3>3. QED
        BY <3>1, <3>2
    <2>7. f[k + 1] \in S /\ rank[f[k + 1]] <= rank[x]
      BY <2>4, <2>6 DEF IsSuccessor
    <2>8. k + 1 \in Before
      BY <1>4, <1>5, <2>2, <2>5, <2>7
    <2>9. QED
      BY <2>1, <2>2, <2>8
  <1>8. QED
    BY <1>4, <1>5, <1>6, <1>7 DEF Enumerates

(***************************************************************************)
(* There is a path of N steps along links g from p.                        *)
(***************************************************************************)
IsPath(V, g, p, N, f) ==
  /\ f \in [0 .. N -> V]
  /\ f[0] = p
  /\ \A i \in 1 .. N : f[i] = g[f[i - 1]]

LEMMA PathExists ==
  ASSUME NEW V, NEW g \in [V -> V], NEW p \in V, NEW N \in Nat
  PROVE  \E f : IsPath(V, g, p, N, f)
  <1> DEFINE Good(k) == \E f \in [0 .. k -> V] :
                          f[0] = p /\ \A i \in 1 .. k : f[i] = g[f[i - 1]]
             Bad == {k \in 0 .. N : ~Good(k)}
  <1>1. SUFFICES ASSUME Bad # {} PROVE FALSE
    BY DEF IsPath
  <1>2. PICK k \in Bad : \A j \in Bad : k <= j
    <2> HIDE DEF Bad
    <2>1. Bad \in SUBSET (0 .. N)
      BY DEF Bad
    <2>2. QED
      BY <1>1, <2>1, LeastIndex
  <1>3. CASE k = 0
    <2> DEFINE f == [i \in 0 .. 0 |-> p]
    <2>1. f \in [0 .. 0 -> V] /\ f[0] = p /\ \A i \in 1 .. 0 : f[i] = g[f[i - 1]]
      OBVIOUS
    <2>2. Good(0)
      BY <2>1
    <2>3. QED
      BY <1>3, <2>2
  <1>4. CASE k > 0
    <2>1. k \in 1 .. N /\ Good(k - 1)
      <3>1. k \in 1 .. N /\ k - 1 \in 0 .. N
        BY <1>4
      <3> HIDE DEF Good
      <3>2. k - 1 \notin Bad
        <4> HIDE DEF Bad
        <4>1. QED
          BY <1>2, <3>1
      <3>3. QED
        BY <3>1, <3>2
    <2>2. PICK f \in [0 .. k - 1 -> V] :
            f[0] = p /\ \A i \in 1 .. k - 1 : f[i] = g[f[i - 1]]
      BY <2>1
    <2> DEFINE h == [i \in 0 .. k |-> IF i = k THEN g[f[k - 1]] ELSE f[i]]
    <2>3. h \in [0 .. k -> V]
      BY <2>1, <2>2
    <2>4. h[0] = p
      BY <2>1, <2>2
    <2>5. \A i \in 1 .. k : h[i] = g[h[i - 1]]
      <3>1. SUFFICES ASSUME NEW i \in 1 .. k PROVE h[i] = g[h[i - 1]]
        OBVIOUS
      <3>2. h[i - 1] = f[i - 1]
        BY <2>1
      <3>3. CASE i = k
        BY <2>1, <3>2, <3>3
      <3>4. CASE i # k
        <4>1. i \in 1 .. k - 1 /\ h[i] = f[i]
          BY <2>1, <3>4
        <4>2. QED
          BY <2>2, <3>2, <4>1
      <3>5. QED
        BY <3>3, <3>4
    <2>6. Good(k)
      <3> HIDE DEF h
      <3>1. QED
        BY <2>3, <2>4, <2>5
    <2>7. QED
      BY <2>6
  <1>5. QED
    BY <1>3, <1>4
=============================================================================
