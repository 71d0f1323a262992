--------------------------- MODULE RcuSlistProofs ---------------------------
(***************************************************************************)
(* Proofs about RcuSlist, for all finite sets of nodes and all readers.    *)
(*                                                                         *)
(* The list is described by a rank of every node in it and of every node   *)
(* removed but not given back: links lead upward, past no node that is in  *)
(* the list.  An inserted node gets the rank next above its predecessor.   *)
(***************************************************************************)
EXTENDS RcuSlist, RankLemmas

-----------------------------------------------------------------------------
(* The inductive invariant.                                                 *)

NextType == next \in [Nodes \cup {head} -> Nodes \cup {NULL}]

VarTypes ==
  /\ NextType
  /\ Linked \in SUBSET Nodes
  /\ limbo \in SUBSET Nodes
  /\ wpc \in {"idle", "sync", "free"} \cup Inserting
  /\ at \in Nodes \cup {head, NULL}
  /\ newElem \in Nodes \cup {NULL}
  /\ Zone!TypeOK
  /\ pos \in [Readers -> Nodes \cup {NULL}]
  /\ walk \in [Readers -> Walk!Walks]

\* Node n leads upward, past no node of L.
Leads(nx, rank, L, n) ==
  IF nx[n] = NULL
  THEN \A x \in L : rank[x] <= rank[n]
  ELSE /\ rank[n] < rank[nx[n]]
       /\ \A x \in L : rank[n] < rank[x] => rank[nx[n]] <= rank[x]

\* L is in the list, T has been removed from it.
Ordered(nx, rank, L, T) ==
  /\ Ranked(rank, L \cup T \cup {head})
  /\ \A n \in L \cup T : rank[head] < rank[n]
  /\ \A n \in L \cup T \cup {head} : Leads(nx, rank, L, n)
  /\ \A n \in L \cup {head} : nx[n] \in L \cup {NULL}
  /\ \A n \in T : nx[n] \in L \cup T \cup {NULL}

WriterInv ==
  /\ limbo \cap Linked = {}
  /\ wpc = "sync" => writer \in syncing
  /\ writer \in syncing => wpc = "sync"
  /\ wpc \in Inserting =>
       /\ at \in Linked \cup {head}
       /\ newElem \in Nodes \ (Linked \cup limbo)
       /\ next[newElem] = next[at]

\* Readers that the writer has not to wait for any more.
Passed(r) == wpc = "free" \/ (wpc = "sync" /\ r \notin waiting[writer])

\* A walk that has come to p has met what it must meet up to there.
Progress(rank, p, w) ==
  /\ \A x \in w.steady : x \in w.seen <=> rank[x] <= rank[p]
  /\ \A x \in w.seen : rank[x] <= rank[p]

ReaderInv(rank, r) ==
  /\ r \in inside <=> walk[r].dir # "out"
  /\ walk[r].dir = "out" => walk[r] = Walk!Outside
  /\ walk[r].dir # "out" => Linked \subseteq walk[r].possible
  /\ walk[r].dir # "backward"
  /\ walk[r].dir = "forward" <=> pos[r] # NULL
  /\ pos[r] \in walk[r].possible \cup {NULL}
  /\ walk[r].possible \subseteq Linked \cup limbo
  /\ \A n \in walk[r].possible : next[n] \in walk[r].possible \cup {NULL}
  /\ walk[r].seen \subseteq walk[r].possible
  /\ walk[r].steady \subseteq Linked
  /\ Passed(r) => walk[r].possible \cap limbo = {}
  /\ pos[r] # NULL => Progress(rank, pos[r], walk[r])

ListInv ==
  \E rank : /\ Ordered(next, rank, Linked, limbo)
            /\ \A r \in Readers : ReaderInv(rank, r)

IInv == VarTypes /\ WriterInv /\ ListInv

-----------------------------------------------------------------------------
(* What Behind computes.                                                    *)

\* Behind, along the links nx.
BehindIn(nx, p) ==
  LET from[i \in 0 .. Cardinality(Nodes) + 1] ==
        IF i = 0 THEN p ELSE IF from[i - 1] = NULL THEN NULL ELSE nx[from[i - 1]]
      length == Cardinality({i \in DOMAIN from : i > 0 /\ from[i] # NULL})
  IN  [i \in 1 .. length |-> from[i]]

LEMMA BehindAlong == \A p : Behind(p) = BehindIn(next, p)
  BY DEF Behind, BehindIn

LEMMA BehindAlongPrime == \A p : Behind(p)' = BehindIn(next', p)
  BY DEF Behind, BehindIn

\* One step along the links.
Follow(nx) == [n \in Nodes \cup {head, NULL} |-> IF n = NULL THEN NULL ELSE nx[n]]

\* BehindIn(nx, p) is the path f, up to its end.
PathBehind(nx, p, f) ==
  LET M == Cardinality(Nodes) + 1 IN
  /\ IsPath(Nodes \cup {head, NULL}, Follow(nx), p, M, f)
  /\ BehindIn(nx, p) = [i \in 1 .. Cardinality({i \in 0 .. M : i > 0 /\ f[i] # NULL}) |-> f[i]]

LEMMA NodesNumber == Cardinality(Nodes) \in Nat
  BY SlistAssumption, FS_CardinalityType

LEMMA BehindFollows ==
  ASSUME NEW nx \in [Nodes \cup {head} -> Nodes \cup {NULL}],
         NEW p \in Nodes \cup {head}
  PROVE  \E f : PathBehind(nx, p, f)
  <1> DEFINE M == Cardinality(Nodes) + 1
             V == Nodes \cup {head, NULL}
             Step(f, i) == IF i = 0 THEN p ELSE IF f[i - 1] = NULL THEN NULL ELSE nx[f[i - 1]]
             from == CHOOSE f : f = [i \in 0 .. M |-> Step(f, i)]
  <1>0. M \in Nat
    BY NodesNumber
  <1>1. Follow(nx) \in [V -> V]
    BY DEF Follow
  <1>2. PICK h : IsPath(V, Follow(nx), p, M, h)
    <2> HIDE DEF V
    <2>1. p \in V
      BY DEF V
    <2>2. QED
      BY <1>0, <1>1, <2>1, PathExists
  <1>3. h = [i \in 0 .. M |-> Step(h, i)]
    <2>1. ASSUME NEW i \in 0 .. M PROVE h[i] = Step(h, i)
      <3>1. CASE i = 0
        BY <1>2, <3>1 DEF IsPath
      <3>2. CASE i # 0
        <4>1. i \in 1 .. M /\ i - 1 \in 0 .. M
          BY <1>0, <3>2
        <4>2. h[i] = Follow(nx)[h[i - 1]] /\ h[i - 1] \in V
          BY <1>2, <4>1 DEF IsPath
        <4>3. QED
          BY <3>2, <4>2 DEF Follow
      <3>3. QED
        BY <3>1, <3>2
    <2>2. QED
      BY <1>2, <2>1 DEF IsPath
  <1>4. from = [i \in 0 .. M |-> Step(from, i)]
    BY <1>3
  <1>5. BehindIn(nx, p)
          = [i \in 1 .. Cardinality({i \in DOMAIN from : i > 0 /\ from[i] # NULL}) |-> from[i]]
    BY DEF BehindIn
  <1> HIDE DEF from
  <1>6. DOMAIN from = 0 .. M /\ \A i \in 0 .. M : from[i] = Step(from, i)
    BY <1>4
  <1>7. \A i \in 0 .. M : from[i] \in V
    <2> DEFINE Bad == {i \in 0 .. M : from[i] \notin V}
    <2>1. SUFFICES ASSUME Bad # {} PROVE FALSE
      OBVIOUS
    <2>2. PICK i \in Bad : \A j \in Bad : i <= j
      <3>1. Bad \in SUBSET (0 .. M)
        OBVIOUS
      <3> HIDE DEF Bad
      <3>2. QED
        BY <1>0, <2>1, <3>1, LeastIndex
    <2>3. i \in 1 .. M
      BY <1>0, <1>6
    <2>4. i - 1 \notin Bad
      BY <1>0, <2>2, <2>3
    <2>5. from[i - 1] \in V
      BY <1>0, <2>3, <2>4
    <2>6. QED
      BY <1>6, <2>3, <2>5
  <1>8. from \in [0 .. M -> V]
    BY <1>4, <1>7
  <1>9. from[0] = p /\ \A i \in 1 .. M : from[i] = Follow(nx)[from[i - 1]]
    BY <1>0, <1>6, <1>7 DEF Follow
  <1>10. QED
    BY <1>5, <1>6, <1>8, <1>9 DEF IsPath, PathBehind

(***************************************************************************)
(* Links of nodes that are not in the list do not matter.                  *)
(***************************************************************************)
LEMMA BehindSame ==
  ASSUME NEW nx \in [Nodes \cup {head} -> Nodes \cup {NULL}],
         NEW ny \in [Nodes \cup {head} -> Nodes \cup {NULL}],
         NEW L \in SUBSET Nodes,
         \A x \in L \cup {head} : nx[x] \in L \cup {NULL} /\ ny[x] = nx[x]
  PROVE  BehindIn(ny, head) = BehindIn(nx, head)
  <1> DEFINE M == Cardinality(Nodes) + 1
  <1>0. M \in Nat
    BY NodesNumber
  <1>1. PICK f : PathBehind(nx, head, f)
    BY BehindFollows
  <1>2. PICK g : PathBehind(ny, head, g)
    BY BehindFollows
  <1>3. /\ f[0] = head /\ g[0] = head
        /\ \A i \in 1 .. M : /\ i - 1 \in 0 .. M
                             /\ f[i] = Follow(nx)[f[i - 1]] /\ f[i - 1] \in Nodes \cup {head, NULL}
                             /\ g[i] = Follow(ny)[g[i - 1]] /\ g[i - 1] \in Nodes \cup {head, NULL}
    BY <1>0, <1>1, <1>2 DEF PathBehind, IsPath
  <1> DEFINE Bad == {i \in 0 .. M : ~(f[i] \in L \cup {head, NULL} /\ g[i] = f[i])}
  <1>4. Bad = {}
    <2>1. SUFFICES ASSUME Bad # {} PROVE FALSE
      OBVIOUS
    <2>2. PICK i \in Bad : \A j \in Bad : i <= j
      <3>1. Bad \in SUBSET (0 .. M)
        OBVIOUS
      <3> HIDE DEF Bad
      <3>2. QED
        BY <1>0, <2>1, <3>1, LeastIndex
    <2>3. i \in 1 .. M
      BY <1>0, <1>3
    <2>4. f[i - 1] \in L \cup {head, NULL} /\ g[i - 1] = f[i - 1]
      BY <1>0, <2>2, <2>3
    <2>5. f[i] \in L \cup {head, NULL} /\ g[i] = f[i]
      BY <1>3, <2>3, <2>4 DEF Follow
    <2>6. QED
      BY <2>5
  <1>5. {i \in 0 .. M : i > 0 /\ g[i] # NULL} = {i \in 0 .. M : i > 0 /\ f[i] # NULL}
    BY <1>4
  <1> DEFINE N == Cardinality({i \in 0 .. M : i > 0 /\ f[i] # NULL})
  <1>6. \A i \in 1 .. N : g[i] = f[i]
    <2>1. IsFiniteSet(1 .. M) /\ Cardinality(1 .. M) = M
      BY <1>0, FS_Interval
    <2>2. {i \in 0 .. M : i > 0 /\ f[i] # NULL} \in SUBSET (1 .. M)
      BY <1>0
    <2>3. N <= M
      BY <2>1, <2>2, FS_Subset
    <2>4. N \in Nat
      BY <2>1, <2>2, FS_Subset, FS_CardinalityType
    <2>5. \A i \in 1 .. N : i \in 0 .. M
      <3> HIDE DEF N, M
      <3>1. QED
        BY <1>0, <2>3, <2>4
    <2>6. QED
      BY <1>4, <2>5
  <1>7. /\ BehindIn(nx, head) = [i \in 1 .. N |-> f[i]]
        /\ BehindIn(ny, head) = [i \in 1 .. N |-> g[i]]
    BY <1>1, <1>2, <1>5 DEF PathBehind
  <1> HIDE DEF N
  <1>8. QED
    BY <1>6, <1>7

\* The sequence c lists the nodes of L that come after p.
Lists(c, rank, L, p) ==
  /\ Len(c) \in Nat /\ DOMAIN c = 1 .. Len(c)
  /\ \A i \in 1 .. Len(c) : c[i] \in L /\ rank[p] < rank[c[i]]
  /\ \A i, j \in 1 .. Len(c) : i < j => rank[c[i]] < rank[c[j]]
  /\ \A x \in L : rank[p] < rank[x] => \E i \in 1 .. Len(c) : c[i] = x

(***************************************************************************)
(* Behind finds the nodes of the list after p, in the order of ranks.      *)
(***************************************************************************)
LEMMA BehindLists ==
  ASSUME NEW nx \in [Nodes \cup {head} -> Nodes \cup {NULL}],
         NEW rank, NEW L \in SUBSET Nodes, NEW T \in SUBSET Nodes,
         Ordered(nx, rank, L, T), NEW p \in L \cup {head}
  PROVE  Lists(BehindIn(nx, p), rank, L, p)
  <1> DEFINE M == Cardinality(Nodes) + 1
             S == L \cup {head}
  <1>0. M \in Nat
    BY NodesNumber
  <1>1. PICK f : PathBehind(nx, p, f)
    BY BehindFollows
  <1>2. NULL \notin S /\ head \notin L
    BY SlistAssumption
  <1>3. IsFiniteSet(S) /\ Cardinality(S) <= M
    <2>1. IsFiniteSet(L) /\ Cardinality(L) <= Cardinality(Nodes)
      BY SlistAssumption, FS_Subset
    <2>2. IsFiniteSet(S) /\ Cardinality(S) = Cardinality(L) + 1
      BY <1>2, <2>1, FS_AddElement
    <2>3. Cardinality(L) \in Nat
      BY <2>1, FS_CardinalityType
    <2>4. QED
      BY <2>1, <2>2, <2>3, NodesNumber
  <1>4. Ranked(rank, S) /\ \A n \in L : rank[head] < rank[n]
    BY DEF Ordered, Ranked
  <1>5. /\ \A i \in 0 .. M : f[i] \in Nodes \cup {head, NULL}
        /\ f[0] = p
        /\ \A i \in 1 .. M : f[i] = Follow(nx)[f[i - 1]] /\ i - 1 \in 0 .. M
    BY <1>0, <1>1 DEF PathBehind, IsPath
  <1>6. \A i \in 1 .. M : f[i] = IF f[i - 1] = NULL THEN NULL ELSE nx[f[i - 1]]
    BY <1>5 DEF Follow
  <1>7. \A i \in 0 .. M : f[i] \in S \cup {NULL}
    <2> DEFINE Bad == {i \in 0 .. M : f[i] \notin S \cup {NULL}}
    <2>1. SUFFICES ASSUME Bad # {} PROVE FALSE
      OBVIOUS
    <2>2. PICK i \in Bad : \A j \in Bad : i <= j
      <3>1. Bad \in SUBSET (0 .. M)
        OBVIOUS
      <3> HIDE DEF Bad
      <3>2. QED
        BY <1>0, <2>1, <3>1, LeastIndex
    <2>3. i \in 1 .. M
      BY <1>0, <1>5
    <2>4. f[i - 1] \in S \cup {NULL}
      BY <1>0, <2>2, <2>3
    <2>5. QED
      BY <1>6, <2>3, <2>4 DEF Ordered
  <1>8. IsWalk(rank, S, M, f)
    <2>1. ASSUME NEW i \in 1 .. M, f[i - 1] \in S
          PROVE  \/ IsSuccessor(rank, S, f[i - 1], f[i])
                 \/ f[i] \notin S /\ IsGreatest(rank, S, f[i - 1])
      <3>1. f[i] = nx[f[i - 1]] /\ f[i] \in L \cup {NULL} /\ Leads(nx, rank, L, f[i - 1])
        BY <1>2, <1>6, <2>1 DEF Ordered
      <3>2. rank[f[i - 1]] \in Int /\ rank[head] \in Int /\ rank[head] <= rank[f[i - 1]]
        BY <1>4, <2>1 DEF Ranked
      <3>3. CASE f[i] = NULL
        BY <1>2, <3>1, <3>2, <3>3 DEF Leads, IsGreatest
      <3>4. CASE f[i] # NULL
        BY <1>2, <1>4, <3>1, <3>2, <3>4 DEF Leads, IsSuccessor
      <3>5. QED
        BY <3>3, <3>4
    <2>2. ASSUME NEW i \in 1 .. M, f[i - 1] \notin S
          PROVE  f[i] \notin S
      BY <1>2, <1>5, <1>6, <1>7, <2>2
    <2>3. QED
      BY <2>1, <2>2 DEF IsWalk
  <1>9. PICK length \in 1 .. M : Enumerates(rank, S, M, f, length)
    <2>1. f[0] \in S
      BY <1>5
    <2> HIDE DEF S, M
    <2>2. QED
      BY <1>0, <1>3, <1>4, <1>8, <2>1, WalkEnumerates
  <1>10. {i \in 0 .. M : i > 0 /\ f[i] # NULL} = 1 .. length - 1
    BY <1>0, <1>2, <1>7, <1>9 DEF Enumerates
  <1>11. Cardinality(1 .. length - 1) = length - 1
    BY <1>0, <1>9, FS_Interval
  <1> DEFINE c == BehindIn(nx, p)
  <1>12. c = [i \in 1 .. length - 1 |-> f[i]]
    BY <1>1, <1>10, <1>11 DEF PathBehind
  <1>13. /\ length - 1 \in Nat
         /\ Len(c) = length - 1 /\ DOMAIN c = 1 .. length - 1
         /\ \A i \in 1 .. length - 1 : c[i] = f[i]
    BY <1>0, <1>9, <1>12
  <1> HIDE DEF c
  <1>14. \A i, j \in 0 .. length - 1 : i < j => f[i] \in S /\ f[j] \in S /\ rank[f[i]] < rank[f[j]]
    BY <1>0, <1>9 DEF Enumerates
  <1>15. rank[p] \in Int /\ rank[head] \in Int /\ rank[head] <= rank[p]
    BY <1>4 DEF Ranked
  <1>16. ASSUME NEW i \in 1 .. length - 1
         PROVE  c[i] \in L /\ rank[p] < rank[c[i]]
    <2>1. 0 \in 0 .. length - 1 /\ i \in 0 .. length - 1 /\ 0 < i
      BY <1>13
    <2>2. f[i] \in S /\ rank[p] < rank[f[i]]
      BY <1>5, <1>14, <2>1
    <2>3. f[i] # head
      BY <1>15, <2>2
    <2>4. QED
      BY <1>13, <2>2, <2>3
  <1>17. \A i, j \in 1 .. length - 1 : i < j => rank[c[i]] < rank[c[j]]
    BY <1>13, <1>14
  <1>18. ASSUME NEW x \in L, rank[p] < rank[x]
         PROVE  \E i \in 1 .. length - 1 : c[i] = x
    <2>1. PICK i \in 0 .. length - 1 : f[i] = x
      BY <1>5, <1>15, <1>18, <1>9, <1>4 DEF Enumerates, Ranked
    <2>2. i # 0
      BY <1>5, <1>15, <1>18, <2>1
    <2>3. QED
      BY <1>13, <2>1, <2>2
  <1>19. Lists(c, rank, L, p)
    BY <1>13, <1>16, <1>17, <1>18 DEF Lists
  <1>20. QED
    BY <1>19 DEF c

(***************************************************************************)
(* The content of an ordered list.                                         *)
(***************************************************************************)
LEMMA ContentIs ==
  ASSUME NEW nx \in [Nodes \cup {head} -> Nodes \cup {NULL}],
         NEW rank, NEW L \in SUBSET Nodes, NEW T \in SUBSET Nodes,
         Ordered(nx, rank, L, T), NEW c, c = BehindIn(nx, head)
  PROVE  /\ c \in Seq(Nodes) /\ IsInjective(c) /\ ToSet(c) = L
         /\ \A m, n : (\E i, j \in DOMAIN c : i < j /\ c[i] = m /\ c[j] = n)
                        <=> m \in L /\ n \in L /\ rank[m] < rank[n]
  <1>1. Lists(c, rank, L, head)
    BY BehindLists
  <1>2. /\ \A x \in L : rank[head] < rank[x]
        /\ \A x \in L : rank[x] \in Int
    BY DEF Ordered, Ranked
  <1>3. c = [i \in DOMAIN c |-> c[i]]
    BY DEF BehindIn
  <1>4. c \in Seq(Nodes)
    BY <1>1, <1>3 DEF Lists
  <1>5. /\ Len(c) \in Nat /\ DOMAIN c = 1 .. Len(c)
        /\ \A i \in 1 .. Len(c) : c[i] \in L
        /\ \A i, j \in 1 .. Len(c) : i < j => rank[c[i]] < rank[c[j]]
        /\ \A x \in L : \E i \in 1 .. Len(c) : c[i] = x
    BY <1>1, <1>2 DEF Lists
  <1>6. \A i, j \in 1 .. Len(c) : rank[c[i]] < rank[c[j]] => i < j
    BY <1>2, <1>5
  <1>7. IsInjective(c)
    <2>1. SUFFICES ASSUME NEW i \in DOMAIN c, NEW j \in DOMAIN c, c[i] = c[j] PROVE i = j
      BY DEF IsInjective
    <2>2. ~(i < j) /\ ~(j < i)
      BY <1>2, <1>5, <2>1
    <2>3. QED
      BY <1>5, <2>2
  <1>8. ToSet(c) = L
    BY <1>5 DEF ToSet
  <1>9. \A m, n : (\E i, j \in DOMAIN c : i < j /\ c[i] = m /\ c[j] = n)
                    <=> m \in L /\ n \in L /\ rank[m] < rank[n]
    BY <1>5, <1>6
  <1>10. QED
    BY <1>4, <1>7, <1>8, <1>9

(***************************************************************************)
(* After a step that leaves the links in order the list is what they say.  *)
(***************************************************************************)
LEMMA NewContent ==
  ASSUME NextType', NEW rank, NEW L \in SUBSET Nodes, NEW T \in SUBSET Nodes,
         Ordered(next', rank, L, T)
  PROVE  /\ Linked' = L
         /\ Content' \in Seq(Nodes) /\ IsInjective(Content')
         /\ \A m, n : Walk!Precedes(m, n)' <=> m \in L /\ n \in L /\ rank[m] < rank[n]
  <1> DEFINE c == BehindIn(next', head)
  <1>1. Content' = c
    BY BehindAlongPrime DEF Content
  <1>2. /\ c \in Seq(Nodes) /\ IsInjective(c) /\ ToSet(c) = L
        /\ \A m, n : (\E i, j \in DOMAIN c : i < j /\ c[i] = m /\ c[j] = n)
                       <=> m \in L /\ n \in L /\ rank[m] < rank[n]
    BY ContentIs DEF NextType
  <1> HIDE DEF c
  <1>3. \A m, n : Walk!Precedes(m, n)' <=> m \in L /\ n \in L /\ rank[m] < rank[n]
    <2>1. SUFFICES ASSUME NEW m, NEW n
                   PROVE (\E i, j \in DOMAIN c : i < j /\ c[i] = m /\ c[j] = n)
                           <=> m \in L /\ n \in L /\ rank[m] < rank[n]
      BY <1>1 DEF Walk!Precedes
    <2>2. QED
      BY <1>2
  <1>4. QED
    BY <1>1, <1>2, <1>3 DEF Linked

LEMMA OldContent ==
  ASSUME IInv, NEW rank, Ordered(next, rank, Linked, limbo)
  PROVE  \A m, n : Walk!Precedes(m, n) <=> m \in Linked /\ n \in Linked /\ rank[m] < rank[n]
  <1> DEFINE c == BehindIn(next, head)
  <1>1. Content = c
    BY BehindAlong DEF Content
  <1>2. next \in [Nodes \cup {head} -> Nodes \cup {NULL}] /\ Linked \in SUBSET Nodes
        /\ limbo \in SUBSET Nodes
    BY DEF IInv, VarTypes, NextType
  <1>3. \A m, n : (\E i, j \in DOMAIN c : i < j /\ c[i] = m /\ c[j] = n)
                    <=> m \in Linked /\ n \in Linked /\ rank[m] < rank[n]
    BY <1>2, ContentIs
  <1> HIDE DEF c
  <1>4. ASSUME NEW m, NEW n
        PROVE  Walk!Precedes(m, n) <=> \E i, j \in DOMAIN c : i < j /\ c[i] = m /\ c[j] = n
    BY <1>1 DEF Walk!Precedes
  <1>5. ASSUME NEW m, NEW n
        PROVE  Walk!Precedes(m, n) <=> m \in Linked /\ n \in Linked /\ rank[m] < rank[n]
    BY <1>3, <1>4
  <1>6. QED
    BY <1>5

LEMMA SameContent ==
  ASSUME next' = next
  PROVE  Content' = Content /\ Linked' = Linked
  <1>1. Content' = Content
    BY BehindAlong, BehindAlongPrime DEF Content
  <1>2. QED
    BY <1>1 DEF Linked

LEMMA KeptContent ==
  ASSUME NextType, NextType', Linked \in SUBSET Nodes, NEW rank,
         Ordered(next, rank, Linked, limbo),
         \A x \in Linked \cup {head} : next'[x] = next[x]
  PROVE  Content' = Content
  <1>1. \A x \in Linked \cup {head} : next[x] \in Linked \cup {NULL}
    BY DEF Ordered
  <1>2. BehindIn(next', head) = BehindIn(next, head)
    BY <1>1, BehindSame DEF NextType
  <1>3. QED
    BY <1>2, BehindAlong, BehindAlongPrime DEF Content

(***************************************************************************)
(* The last node behind p, or p itself, is in the list.                    *)
(***************************************************************************)
LEMMA LastBehindIs ==
  ASSUME NextType, Linked \in SUBSET Nodes, NEW rank, limbo \in SUBSET Nodes,
         Ordered(next, rank, Linked, limbo), NEW p \in Linked \cup {head}
  PROVE  LastBehind(p) \in Linked \cup {head}
  <1> DEFINE c == Behind(p)
  <1>1. c = BehindIn(next, p)
    BY BehindAlong
  <1>2. Lists(c, rank, Linked, p)
    BY <1>1, BehindLists DEF NextType
  <1>3. CASE c = <<>>
    BY <1>3 DEF LastBehind
  <1>4. CASE c # <<>>
    <2>1. c = [i \in 1 .. Len(c) |-> c[i]]
      <3>1. c = [i \in DOMAIN c |-> c[i]]
        BY <1>1 DEF BehindIn
      <3>2. QED
        BY <1>2, <3>1 DEF Lists
    <2>2. Len(c) # 0
      <3>1. SUFFICES ASSUME Len(c) = 0 PROVE FALSE
        OBVIOUS
      <3>2. c = [i \in 1 .. 0 |-> c[i]]
        BY <2>1, <3>1
      <3> HIDE DEF c
      <3>3. c = <<>>
        BY <3>2
      <3>4. QED
        BY <1>4, <3>3
    <2>3. Len(c) \in 1 .. Len(c) /\ c[Len(c)] \in Linked
      BY <1>2, <2>2 DEF Lists
    <2>4. QED
      BY <1>4, <2>3 DEF LastBehind
  <1>5. QED
    BY <1>3, <1>4

\* RListWalk sees the same list.
LEMMA WalkLinked ==
  /\ Walk!Linked = Linked /\ Walk!Linked' = Linked'
  /\ Walk!Settled = Linked /\ Walk!Settled' = Linked'
  BY DEF Walk!Settled, Walk!Linked, Walk!ToSet, Linked, ToSet

-----------------------------------------------------------------------------
(* Readers.                                                                 *)

LEMMA InitIInv == Init => IInv
  <1> SUFFICES ASSUME Init PROVE IInv
    OBVIOUS
  <1> DEFINE rank == [x \in {head} |-> 0]
  <1>1. NextType /\ limbo = {} /\ \A n \in Nodes \cup {head} : next[n] = NULL
    BY DEF Init, NextType
  <1>2. Ordered(next, rank, {}, {})
    BY <1>1 DEF Ordered, Ranked, Leads
  <1>3. Linked = {}
    <2>1. Content = BehindIn(next, head)
      BY BehindAlong DEF Content
    <2>2. ToSet(Content) = {}
      <3> HIDE DEF rank
      <3>1. QED
        BY <1>1, <1>2, <2>1, ContentIs DEF NextType
    <2>3. QED
      BY <2>2 DEF Linked
  <1>4. Ordered(next, rank, Linked, limbo)
    BY <1>1, <1>2, <1>3
  <1>5. \A r \in Readers : ReaderInv(rank, r)
    BY <1>1, <1>3 DEF Init, Zone!Init, ReaderInv, Walk!Outside, Passed
  <1>6. ListInv
    BY <1>4, <1>5 DEF ListInv
  <1>7. VarTypes /\ WriterInv
    BY <1>1, <1>3 DEF Init, VarTypes, WriterInv, Zone!Init, Zone!TypeOK, Inserting,
       Walk!Outside, Walk!Walks, Walk!Directions
  <1>8. QED
    BY <1>6, <1>7 DEF IInv

\* A step that does not concern reader s.
LEMMA ReaderKept ==
  ASSUME NEW rank, NEW s \in Readers, ReaderInv(rank, s), UNCHANGED <<next, limbo>>,
         walk'[s] = walk[s], pos'[s] = pos[s], s \in inside' <=> s \in inside,
         Passed(s)' => Passed(s)
  PROVE  ReaderInv(rank, s)'
  BY SameContent DEF ReaderInv, Progress

\* A step of reader r that does not change the list.
LEMMA ReaderMoves ==
  ASSUME IInv, NEW r \in Readers,
         UNCHANGED <<next, limbo, wpc, at, newElem, syncing>>,
         Zone!TypeOK',
         \A s \in Readers \ {r} :
           walk'[s] = walk[s] /\ pos'[s] = pos[s] /\ (s \in inside' <=> s \in inside),
         \A s \in Readers \ {r} : s \in waiting[writer] => s \in waiting'[writer],
         pos' \in [Readers -> Nodes \cup {NULL}], walk' \in [Readers -> Walk!Walks],
         \A rank : Ordered(next, rank, Linked, limbo) /\ ReaderInv(rank, r)
                     => ReaderInv(rank, r)'
  PROVE  IInv'
  <1>1. Linked' = Linked
    BY SameContent
  <1>2. PICK rank : /\ Ordered(next, rank, Linked, limbo)
                    /\ \A s \in Readers : ReaderInv(rank, s)
    BY DEF IInv, ListInv
  <1>3. Ordered(next', rank, Linked', limbo')
    BY <1>1, <1>2
  <1>4. \A s \in Readers : ReaderInv(rank, s)'
    <2>1. ASSUME NEW s \in Readers, s # r PROVE ReaderInv(rank, s)'
      <3>1. Passed(s)' => Passed(s)
        BY <2>1 DEF Passed
      <3>2. QED
        BY <1>2, <2>1, <3>1, ReaderKept
    <2>2. QED
      BY <1>2, <2>1
  <1>5. ListInv'
    BY <1>3, <1>4 DEF ListInv
  <1>6. VarTypes'
    BY <1>1 DEF IInv, VarTypes, NextType
  <1>7. WriterInv'
    BY <1>1 DEF IInv, WriterInv
  <1>8. QED
    BY <1>5, <1>6, <1>7 DEF IInv

LEMMA ReadLockStep ==
  ASSUME IInv, NEW r \in Readers, ReadLock(r)
  PROVE  IInv'
  <1> DEFINE w == [dir |-> "in", seen |-> {}, steady |-> {}, possible |-> Linked]
  <1>1. /\ UNCHANGED <<next, limbo, wpc, at, newElem, syncing, waiting, pos>>
        /\ r \notin inside /\ inside' = inside \cup {r}
        /\ Zone!TypeOK /\ Zone!TypeOK'
    BY DEF ReadLock, Zone!ReadLock, Zone!TypeOK, listVars, writerVars, IInv, VarTypes
  <1>2. walk' = [walk EXCEPT ![r] = w]
    <2>1. Walk!Entered = w
      BY WalkLinked DEF Walk!Entered
    <2> HIDE DEF w
    <2>2. QED
      BY <2>1 DEF ReadLock
  <1>3. w \in Walk!Walks
    BY DEF Walk!Walks, Walk!Directions, IInv, VarTypes
  <1> HIDE DEF w
  <1>4. /\ walk' \in [Readers -> Walk!Walks] /\ walk'[r] = w
        /\ \A s \in Readers \ {r} : walk'[s] = walk[s]
    BY <1>2, <1>3 DEF IInv, VarTypes
  <1>5. pos' \in [Readers -> Nodes \cup {NULL}]
    BY <1>1 DEF IInv, VarTypes
  <1>6. ASSUME NEW rank, Ordered(next, rank, Linked, limbo), ReaderInv(rank, r)
        PROVE  ReaderInv(rank, r)'
    <2>1. /\ w.dir = "in" /\ w.seen = {} /\ w.steady = {} /\ w.possible = Linked
      BY DEF w
    <2>2. pos[r] = NULL
      BY <1>1, <1>6 DEF ReaderInv, Walk!Outside
    <2>3. Linked' = Linked
      BY <1>1, SameContent
    <2>4. Linked \cap limbo = {}
      BY DEF IInv, WriterInv
    <2>5. QED
      BY <1>1, <1>4, <1>6, <2>1, <2>2, <2>3, <2>4 DEF ReaderInv, Ordered
  <1>7. QED
    BY <1>1, <1>4, <1>5, <1>6, ReaderMoves

LEMMA ReadUnlockStep ==
  ASSUME IInv, NEW r \in Readers, ReadUnlock(r)
  PROVE  IInv'
  <1>1. /\ UNCHANGED <<next, limbo, wpc, at, newElem, syncing>>
        /\ r \in inside /\ inside' = inside \ {r}
        /\ waiting' = [v \in {writer} |-> waiting[v] \ {r}]
        /\ Zone!TypeOK
    BY DEF ReadUnlock, Zone!ReadUnlock, listVars, writerVars, IInv, VarTypes
  <1>2. Zone!TypeOK'
    BY <1>1 DEF Zone!TypeOK
  <1>3. walk' = [walk EXCEPT ![r] = Walk!Outside] /\ pos' = [pos EXCEPT ![r] = NULL]
    BY DEF ReadUnlock
  <1>4. Walk!Outside \in Walk!Walks
    BY DEF Walk!Outside, Walk!Walks, Walk!Directions
  <1>5. /\ walk' \in [Readers -> Walk!Walks] /\ walk'[r] = Walk!Outside
        /\ pos' \in [Readers -> Nodes \cup {NULL}] /\ pos'[r] = NULL
        /\ \A s \in Readers \ {r} : walk'[s] = walk[s] /\ pos'[s] = pos[s]
    BY <1>3, <1>4 DEF IInv, VarTypes
  <1>6. \A s \in Readers \ {r} : s \in waiting[writer] => s \in waiting'[writer]
    BY <1>1
  <1>7. ASSUME NEW rank, Ordered(next, rank, Linked, limbo), ReaderInv(rank, r)
        PROVE  ReaderInv(rank, r)'
    <2>1. /\ Walk!Outside.dir = "out" /\ Walk!Outside.seen = {}
          /\ Walk!Outside.steady = {} /\ Walk!Outside.possible = {}
      BY DEF Walk!Outside
    <2>2. QED
      BY <1>1, <1>5, <2>1 DEF ReaderInv
  <1>8. QED
    BY <1>1, <1>2, <1>5, <1>6, <1>7, ReaderMoves

\* The fields of walks.
LEMMA WalkFields ==
  ASSUME NEW w \in Walk!Walks, Linked \in SUBSET Nodes
  PROVE  /\ LET v == Walk!Begun(w, "forward") IN
              /\ v \in Walk!Walks /\ v.dir = "forward" /\ v.seen = {}
              /\ v.steady = Linked /\ v.possible = w.possible
         /\ LET v == Walk!Ended(w) IN
              /\ v \in Walk!Walks /\ v.dir = "in" /\ v.seen = {}
              /\ v.steady = {} /\ v.possible = w.possible
         /\ \A n \in Nodes : LET v == Walk!Met(w, n) IN
              /\ v \in Walk!Walks /\ v.dir = w.dir /\ v.seen = w.seen \cup {n}
              /\ v.steady = w.steady /\ v.possible = w.possible
  BY WalkLinked DEF Walk!Walks, Walk!Directions, Walk!Begun, Walk!Ended, Walk!Met

\* The walk w after a store that makes L the nodes of the list.
Observed(w, L) == [w EXCEPT !.possible = @ \cup L, !.steady = @ \cap L]

LEMMA ObservedFields ==
  ASSUME NEW w \in Walk!Walks, NEW L \in SUBSET Nodes
  PROVE  LET v == Observed(w, L) IN
           /\ v.dir = w.dir /\ v.seen = w.seen
           /\ v.possible = w.possible \cup L /\ v.steady = w.steady \cap L
           /\ v \in Walk!Walks
  BY DEF Observed, Walk!Walks, Walk!Directions

LEMMA OutsideFields ==
  /\ Walk!Outside \in Walk!Walks /\ Walk!Outside.dir = "out"
  /\ Walk!Outside.seen = {} /\ Walk!Outside.steady = {} /\ Walk!Outside.possible = {}
  BY DEF Walk!Outside, Walk!Walks, Walk!Directions

\* Reader r may go on with the walk w by loading the link of p.
MayLoad(rank, r, p, w) ==
  /\ w \in Walk!Walks
  /\ w.dir = "forward"
  /\ w.possible = walk[r].possible
  /\ w.seen \subseteq w.possible
  /\ w.steady \subseteq Linked
  /\ p \in w.possible \cup {head}
  /\ next[p] \in w.possible \cup {NULL}
  /\ w.possible \subseteq Linked \cup limbo
  /\ Progress(rank, p, w)

LEMMA FindFirstMayLoad ==
  ASSUME IInv, NEW r \in Readers, FindFirst(r), NEW rank,
         Ordered(next, rank, Linked, limbo), ReaderInv(rank, r)
  PROVE  MayLoad(rank, r, head, Walk!Begun(walk[r], "forward"))
  <1> DEFINE w == Walk!Begun(walk[r], "forward")
  <1>1. r \in inside /\ walk[r] \in Walk!Walks /\ Linked \in SUBSET Nodes
    BY DEF FindFirst, IInv, VarTypes
  <1>2. /\ w \in Walk!Walks /\ w.dir = "forward" /\ w.seen = {}
        /\ w.steady = Linked /\ w.possible = walk[r].possible
    BY <1>1, WalkFields
  <1> HIDE DEF w
  <1>3. \A x \in Linked : ~(rank[x] <= rank[head])
    BY DEF Ordered, Ranked
  <1>4. next[head] \in w.possible \cup {NULL}
    BY <1>1, <1>2 DEF Ordered, ReaderInv
  <1>5. MayLoad(rank, r, head, w)
    BY <1>1, <1>2, <1>3, <1>4 DEF MayLoad, Progress, ReaderInv
  <1>6. QED
    BY <1>5 DEF w

LEMMA FindNextMayLoad ==
  ASSUME IInv, NEW r \in Readers, FindNext(r), NEW rank, ReaderInv(rank, r)
  PROVE  MayLoad(rank, r, pos[r], walk[r])
  <1>1. pos[r] # NULL /\ walk[r] \in Walk!Walks
    BY DEF FindNext, IInv, VarTypes
  <1>2. QED
    BY <1>1 DEF MayLoad, ReaderInv

(***************************************************************************)
(* The load yields a node not met before, with nothing left out that the   *)
(* walk has to meet.                                                       *)
(***************************************************************************)
LEMMA LoadMeets ==
  ASSUME IInv, NEW r \in Readers, NEW rank, NEW p, NEW w,
         Ordered(next, rank, Linked, limbo), MayLoad(rank, r, p, w)
  PROVE  IF next[p] = NULL THEN w.steady \subseteq w.seen
         ELSE /\ rank[p] < rank[next[p]] /\ next[p] \in w.possible \ w.seen
              /\ \A x \in w.steady : x \in w.seen <=> rank[x] < rank[next[p]]
              /\ \A x \in w.seen : rank[x] < rank[next[p]]
  <1>1. p \in Linked \cup limbo \cup {head}
    BY DEF MayLoad
  <1>2. \A x \in Linked \cup limbo \cup {head} : rank[x] \in Int
    BY DEF Ordered, Ranked
  <1>3. Leads(next, rank, Linked, p)
    BY <1>1 DEF Ordered
  <1>4. /\ \A x \in w.steady : x \in Linked /\ (x \in w.seen <=> rank[x] <= rank[p])
        /\ \A x \in w.seen : x \in Linked \cup limbo /\ rank[x] <= rank[p]
        /\ next[p] \in w.possible \cup {NULL}
        /\ w.possible \subseteq Linked \cup limbo
    BY DEF MayLoad, Progress
  <1>5. CASE next[p] = NULL
    BY <1>3, <1>4, <1>5 DEF Leads
  <1>6. CASE next[p] # NULL
    <2>1. /\ rank[p] < rank[next[p]]
          /\ \A x \in Linked : rank[p] < rank[x] => rank[next[p]] <= rank[x]
      BY <1>3, <1>6 DEF Leads
    <2>2. next[p] \in w.possible /\ rank[next[p]] \in Int /\ rank[p] \in Int
      BY <1>1, <1>2, <1>4, <1>6
    <2>3. ASSUME NEW x \in w.steady PROVE x \in w.seen <=> rank[x] < rank[next[p]]
      <3>1. rank[x] \in Int
        BY <1>2, <1>4
      <3>2. rank[x] <= rank[p] <=> rank[x] < rank[next[p]]
        BY <1>4, <2>1, <2>2, <3>1
      <3>3. QED
        BY <1>4, <3>2
    <2>4. ASSUME NEW x \in w.seen PROVE rank[x] < rank[next[p]]
      <3>1. rank[x] \in Int /\ rank[x] <= rank[p]
        BY <1>2, <1>4
      <3>2. QED
        BY <2>1, <2>2, <3>1
    <2>5. next[p] \notin w.seen
      BY <2>2, <2>4
    <2>6. QED
      BY <1>6, <2>1, <2>2, <2>3, <2>4, <2>5
  <1>7. QED
    BY <1>5, <1>6

LEMMA LoadStep ==
  ASSUME IInv, NEW r \in Readers, NEW p, NEW w, Load(r, p, w), r \in inside,
         \A rank : Ordered(next, rank, Linked, limbo) /\ ReaderInv(rank, r)
                     => MayLoad(rank, r, p, w)
  PROVE  IInv'
  <1> DEFINE v == IF next[p] = NULL THEN Walk!Ended(w) ELSE Walk!Met(w, next[p])
  <1>1. UNCHANGED <<next, limbo, wpc, at, newElem, inside, syncing, waiting>>
    BY DEF Load, listVars, writerVars, zoneVars
  <1>2. walk' = [walk EXCEPT ![r] = v] /\ pos' = [pos EXCEPT ![r] = next[p]]
    BY DEF Load
  <1>3. PICK rank : Ordered(next, rank, Linked, limbo) /\ ReaderInv(rank, r)
    BY DEF IInv, ListInv
  <1>4. MayLoad(rank, r, p, w)
    BY <1>3
  <1>5. Linked \in SUBSET Nodes /\ w \in Walk!Walks /\ limbo \in SUBSET Nodes
    BY <1>4 DEF MayLoad, IInv, VarTypes
  <1>6. NULL \notin Nodes
    BY SlistAssumption
  <1>7. next[p] \in Nodes \cup {NULL}
    BY <1>4, <1>5 DEF MayLoad
  <1>8. /\ v \in Walk!Walks
        /\ v.possible = walk[r].possible
        /\ next[p] = NULL => v.dir = "in" /\ v.seen = {} /\ v.steady = {}
        /\ next[p] # NULL => /\ v.dir = "forward" /\ v.seen = w.seen \cup {next[p]}
                             /\ v.steady = w.steady
    <2>1. CASE next[p] = NULL
      BY <1>4, <1>5, <2>1, WalkFields DEF MayLoad
    <2>2. CASE next[p] # NULL
      BY <1>4, <1>5, <1>7, <2>2, WalkFields DEF MayLoad
    <2>3. QED
      BY <2>1, <2>2
  <1> HIDE DEF v
  <1>9. /\ walk' \in [Readers -> Walk!Walks] /\ walk'[r] = v
        /\ pos' \in [Readers -> Nodes \cup {NULL}] /\ pos'[r] = next[p]
        /\ \A s \in Readers \ {r} : walk'[s] = walk[s] /\ pos'[s] = pos[s]
    BY <1>2, <1>7, <1>8 DEF IInv, VarTypes
  <1>10. Zone!TypeOK'
    BY <1>1 DEF Zone!TypeOK, IInv, VarTypes
  <1>11. Linked' = Linked
    BY <1>1, SameContent
  <1>12. ASSUME NEW rk, Ordered(next, rk, Linked, limbo), ReaderInv(rk, r)
         PROVE  ReaderInv(rk, r)'
    <2>1. MayLoad(rk, r, p, w)
      BY <1>12
    <2>2. v.seen \subseteq v.possible /\ v.steady \subseteq Linked
          /\ next[p] \in v.possible \cup {NULL}
      BY <1>8, <2>1 DEF MayLoad
    <2>3. next[p] # NULL => Progress(rk, next[p], v)
      <3>1. SUFFICES ASSUME next[p] # NULL PROVE Progress(rk, next[p], v)
        OBVIOUS
      <3>2. /\ next[p] \notin w.seen
            /\ \A x \in w.steady : x \in w.seen <=> rk[x] < rk[next[p]]
            /\ \A x \in w.seen : rk[x] < rk[next[p]]
        BY <1>12, <2>1, <3>1, LoadMeets
      <3>3. /\ \A x \in Linked \cup limbo : rk[x] \in Int
            /\ \A x, y \in Linked \cup limbo : rk[x] = rk[y] => x = y
        BY <1>12 DEF Ordered, Ranked
      <3>4. next[p] \in Linked \cup limbo /\ w.seen \subseteq Linked \cup limbo
            /\ w.steady \subseteq Linked
        BY <2>1, <3>1 DEF MayLoad
      <3>5. ASSUME NEW x \in v.steady PROVE x \in v.seen <=> rk[x] <= rk[next[p]]
        <4>1. x \in w.steady /\ x \in Linked /\ rk[x] \in Int /\ rk[next[p]] \in Int
          BY <1>8, <3>1, <3>3, <3>4
        <4>2. rk[x] <= rk[next[p]] <=> rk[x] < rk[next[p]] \/ x = next[p]
          BY <3>3, <3>4, <4>1
        <4>3. QED
          BY <1>8, <3>1, <3>2, <4>1, <4>2
      <3>6. ASSUME NEW x \in v.seen PROVE rk[x] <= rk[next[p]]
        BY <1>8, <3>1, <3>2, <3>3, <3>4
      <3>7. QED
        BY <3>5, <3>6 DEF Progress
    <2>4. /\ \A n \in v.possible : next'[n] \in v.possible \cup {NULL}
          /\ Linked' \subseteq v.possible
          /\ v.possible \subseteq Linked' \cup limbo'
          /\ Passed(r)' => v.possible \cap limbo' = {}
          /\ r \in inside' /\ v.dir # "out" /\ v.dir # "backward"
          /\ v.dir = "forward" <=> next[p] # NULL
      BY <1>1, <1>8, <1>11, <1>12 DEF ReaderInv, Passed
    <2>5. Progress(rk, next[p], v) => Progress(rk, pos'[r], walk'[r])
      BY <1>9
    <2>6. QED
      BY <1>1, <1>9, <1>11, <2>2, <2>3, <2>4, <2>5 DEF ReaderInv, Progress
  <1>13. QED
    BY <1>1, <1>9, <1>10, <1>12, ReaderMoves

LEMMA FindSteps ==
  ASSUME IInv, NEW r \in Readers, FindFirst(r) \/ FindNext(r)
  PROVE  IInv'
  <1>1. CASE FindFirst(r)
    BY <1>1, FindFirstMayLoad, LoadStep DEF FindFirst
  <1>2. CASE FindNext(r)
    <2>1. r \in inside
      BY <1>2 DEF FindNext, IInv, ListInv, ReaderInv, Walk!Outside
    <2>2. QED
      BY <1>2, <2>1, FindNextMayLoad, LoadStep DEF FindNext
  <1>3. QED
    BY <1>1, <1>2

-----------------------------------------------------------------------------
(* The writer's stores.                                                     *)

\* The ranks rk keep the order that the ranks have.
SameOrder(rank, rk) ==
  \A x, y \in Linked \cup limbo : rank[x] <= rank[y] <=> rk[x] <= rk[y]

\* A store after which nothing is given back.
LEMMA StoreStep ==
  ASSUME IInv, NEW L \in SUBSET Nodes, NextType', limbo' \in SUBSET Nodes,
         UNCHANGED <<zoneVars, pos>>, Walk!Observe,
         wpc \in {"idle"} \cup Inserting, wpc' \in {"idle"} \cup Inserting,
         at' \in Nodes \cup {head, NULL}, newElem' \in Nodes \cup {NULL},
         Linked \cup limbo \subseteq L \cup limbo', L \cap limbo' = {},
         wpc' \in Inserting =>
           /\ at' \in L \cup {head} /\ newElem' \in Nodes \ (L \cup limbo')
           /\ next'[newElem'] = next'[at'],
         \A n \in Linked \cup limbo : next'[n] = next[n] \/ next'[n] \in L \cup {NULL},
         \A rank : Ordered(next, rank, Linked, limbo) =>
           \E rk : Ordered(next', rk, L, limbo') /\ SameOrder(rank, rk)
  PROVE  IInv' /\ Walk!Relist(L)
  <1>1. PICK rank : /\ Ordered(next, rank, Linked, limbo)
                    /\ \A r \in Readers : ReaderInv(rank, r)
    BY DEF IInv, ListInv
  <1>2. PICK rk : Ordered(next', rk, L, limbo') /\ SameOrder(rank, rk)
    BY <1>1
  <1>3. Linked' = L
    BY <1>2, NewContent
  <1>4. UNCHANGED <<inside, syncing, waiting, pos>>
    BY DEF zoneVars
  <1>5. \A r \in Readers :
          walk'[r] = IF walk[r].dir = "out" THEN Walk!Outside
                     ELSE [walk[r] EXCEPT !.possible = @ \cup L, !.steady = @ \cap L]
    BY <1>3, WalkLinked DEF Walk!Observe
  <1>6. ASSUME NEW r \in Readers, walk[r].dir # "out"
        PROVE  /\ walk'[r].dir = walk[r].dir /\ walk'[r].seen = walk[r].seen
               /\ walk'[r].possible = walk[r].possible \cup L
               /\ walk'[r].steady = walk[r].steady \cap L
               /\ walk'[r] \in Walk!Walks
    <2>1. walk[r] \in Walk!Walks
      BY DEF IInv, VarTypes
    <2>2. walk'[r] = Observed(walk[r], L)
      BY <1>5, <1>6 DEF Observed
    <2>3. QED
      BY <2>1, <2>2, ObservedFields
  <1>7. ASSUME NEW r \in Readers, walk[r].dir = "out"
        PROVE  walk'[r] = Walk!Outside /\ walk'[r] \in Walk!Walks
    BY <1>5, <1>7, OutsideFields
  <1>8. \A r \in Readers : ~Passed(r)'
    BY DEF Passed, Inserting
  <1>9. ASSUME NEW r \in Readers PROVE ReaderInv(rk, r)'
    <2>1. ReaderInv(rank, r)
      BY <1>1
    <2>2. CASE walk[r].dir = "out"
      <3>1. /\ Walk!Outside.dir = "out" /\ Walk!Outside.seen = {}
            /\ Walk!Outside.steady = {} /\ Walk!Outside.possible = {}
        BY DEF Walk!Outside
      <3>2. r \notin inside /\ pos[r] = NULL
        BY <2>1, <2>2 DEF ReaderInv
      <3>3. QED
        BY <1>4, <1>7, <2>2, <3>1, <3>2 DEF ReaderInv
    <2>3. CASE walk[r].dir # "out"
      <3>1. \A n \in walk[r].possible \cup L : next'[n] \in walk[r].possible \cup L \cup {NULL}
        <4>1. SUFFICES ASSUME NEW n \in walk[r].possible \cup L
                       PROVE  next'[n] \in walk[r].possible \cup L \cup {NULL}
          OBVIOUS
        <4>2. CASE n \in L
          BY <1>2, <4>2 DEF Ordered
        <4>3. CASE n \in walk[r].possible
          BY <2>1, <4>3 DEF ReaderInv
        <4>4. QED
          BY <4>1, <4>2, <4>3
      <3>2. pos[r] # NULL => Progress(rk, pos[r], walk'[r])
        <4>1. SUFFICES ASSUME pos[r] # NULL PROVE Progress(rk, pos[r], walk'[r])
          OBVIOUS
        <4>2. /\ Progress(rank, pos[r], walk[r])
              /\ pos[r] \in Linked \cup limbo
              /\ walk[r].seen \subseteq Linked \cup limbo
              /\ walk[r].steady \subseteq Linked
          BY <2>1, <4>1 DEF ReaderInv
        <4>3. \A x \in Linked \cup limbo : rank[x] <= rank[pos[r]] <=> rk[x] <= rk[pos[r]]
          BY <1>2, <4>2 DEF SameOrder
        <4>4. QED
          BY <1>6, <2>3, <4>2, <4>3 DEF Progress
      <3>3. pos'[r] = pos[r] /\ (r \in inside' <=> r \in inside)
        BY <1>4
      <3>4. Progress(rk, pos[r], walk'[r]) => Progress(rk, pos[r], walk[r])'
        BY <3>3 DEF Progress
      <3>5. Linked \cup limbo \subseteq Linked' \cup limbo'
        BY <1>3
      <3>6. QED
        BY <1>3, <1>6, <1>8, <2>1, <2>3, <3>1, <3>2, <3>3, <3>4, <3>5 DEF ReaderInv
    <2>4. QED
      BY <2>2, <2>3
  <1>10. ListInv'
    BY <1>2, <1>3, <1>9 DEF ListInv
  <1>11. walk' \in [Readers -> Walk!Walks]
    <2>1. \A r \in Readers : walk'[r] \in Walk!Walks
      BY <1>6, <1>7
    <2>2. walk' = [r \in Readers |-> walk'[r]]
      BY DEF Walk!Observe
    <2>3. QED
      BY <2>1, <2>2
  <1>12. VarTypes'
    BY <1>3, <1>4, <1>11 DEF VarTypes, IInv, Zone!TypeOK
  <1>13. WriterInv'
    BY <1>3, <1>4 DEF WriterInv, IInv, Inserting
  <1>14. Walk!Relist(L)
    <2>1. /\ Content' \in Seq(Nodes) /\ IsInjective(Content') /\ Linked' = L
          /\ \A m, n : Walk!Precedes(m, n)' <=> m \in L /\ n \in L /\ rk[m] < rk[n]
      BY <1>2, NewContent
    <2>2. \A m, n : Walk!Precedes(m, n)
                      <=> m \in Linked /\ n \in Linked /\ rank[m] < rank[n]
      BY <1>1, OldContent
    <2>3. \A m, n \in Linked \cap L : rank[m] < rank[n] <=> rk[m] < rk[n]
      <3>1. SUFFICES ASSUME NEW m \in Linked \cap L, NEW n \in Linked \cap L
                     PROVE  rank[m] < rank[n] <=> rk[m] < rk[n]
        OBVIOUS
      <3>2. rank[n] <= rank[m] <=> rk[n] <= rk[m]
        BY <1>2, <3>1 DEF SameOrder
      <3>3. {rank[m], rank[n], rk[m], rk[n]} \subseteq Int
        BY <1>1, <1>2, <3>1 DEF Ordered, Ranked
      <3>4. QED
        BY <3>2, <3>3
    <2>4. \A m, n \in Linked \cap L : Walk!Precedes(m, n) <=> Walk!Precedes(m, n)'
      BY <2>1, <2>2, <2>3
    <2>5. Walk!ToSet(Content') = L /\ Walk!IsInjective(Content')
      BY <2>1 DEF Linked, Walk!ToSet, ToSet, Walk!IsInjective, IsInjective
    <2>6. QED
      BY <2>1, <2>4, <2>5, WalkLinked DEF Walk!Relist
  <1>15. QED
    BY <1>3, <1>10, <1>12, <1>13, <1>14 DEF IInv

LEMMA PrepareStep ==
  ASSUME IInv, NEW op \in Inserting, NEW p \in Linked \cup {head}, NEW n \in Fresh,
         Prepare(op, p, n)
  PROVE  IInv' /\ Content' = Content
  <1>1. /\ wpc = "idle" /\ wpc' = op /\ at' = p /\ newElem' = n
        /\ next' = [next EXCEPT ![n] = next[p]]
        /\ UNCHANGED <<limbo, zoneVars, pos>> /\ Walk!Observe
    BY DEF Prepare
  <1>2. /\ Linked \in SUBSET Nodes /\ limbo \in SUBSET Nodes /\ NextType
        /\ Linked \cap limbo = {}
    BY DEF IInv, VarTypes, WriterInv
  <1>3. n \in Nodes \ (Linked \cup limbo) /\ n # head /\ p # n
    BY SlistAssumption, <1>2 DEF Fresh
  <1>4. NextType' /\ next'[n] = next[p]
        /\ \A x \in Linked \cup limbo \cup {head} : next'[x] = next[x]
    BY <1>1, <1>2, <1>3 DEF NextType
  <1>5. ASSUME NEW rank, Ordered(next, rank, Linked, limbo)
        PROVE  Ordered(next', rank, Linked, limbo) /\ SameOrder(rank, rank)
    BY <1>4, <1>5 DEF Ordered, Leads, SameOrder
  <1>6. next'[newElem'] = next'[at']
    BY <1>1, <1>4
  <1>7. /\ limbo' = limbo /\ limbo' \in SUBSET Nodes
        /\ wpc \in {"idle"} \cup Inserting /\ wpc' \in {"idle"} \cup Inserting
        /\ at' \in Linked \cup {head} /\ newElem' \in Nodes \ (Linked \cup limbo')
    BY <1>1, <1>2, <1>3
  <1>8. /\ at' \in Nodes \cup {head, NULL} /\ newElem' \in Nodes \cup {NULL}
        /\ \A x \in Linked \cup limbo : next'[x] = next[x] \/ next'[x] \in Linked \cup {NULL}
        /\ Linked \cup limbo \subseteq Linked \cup limbo' /\ Linked \cap limbo' = {}
    BY <1>2, <1>4, <1>7
  <1>9. \A rank : Ordered(next, rank, Linked, limbo) =>
          \E rk : Ordered(next', rk, Linked, limbo') /\ SameOrder(rank, rk)
    BY <1>5, <1>7
  <1>10. Content' = Content
    BY <1>2, <1>4, KeptContent DEF IInv, ListInv
  <1>11. QED
    BY <1>1, <1>2, <1>4, <1>6, <1>7, <1>8, <1>9, <1>10, StoreStep

LEMMA InsertionStep ==
  ASSUME IInv, Insertion
  PROVE  IInv' /\ Content' = Content /\ UNCHANGED limbo /\ Walk!Observe
  <1>1. PICK n \in Fresh :
          \/ \E p \in Linked \cup {head} : rcuSlistInsertAfter(p, n)
          \/ \E p \in Linked \cup {head} : rcuSlistAppendToTail(p, n)
          \/ rcuSlistPrependIfNoMatch(n)
          \/ rcuSlistAppendIfNoMatch(n)
    BY DEF Insertion
  <1>2. \A p \in Linked \cup {head} : LastBehind(p) \in Linked \cup {head}
    BY LastBehindIs DEF IInv, VarTypes, ListInv
  <1>3. \E op \in Inserting, p \in Linked \cup {head} : Prepare(op, p, n)
    BY <1>1, <1>2 DEF rcuSlistInsertAfter, rcuSlistAppendToTail, rcuSlistPrependIfNoMatch,
       rcuSlistAppendIfNoMatch, Inserting
  <1>4. QED
    BY <1>3, PrepareStep DEF Prepare

\* With the links nx the list is in order, with n in it, and ranks that keep
\* the order of the others.
OrderedWith(nx, rank, L, T, n) ==
  \E rk : /\ Ordered(nx, rk, L \cup {n}, T)
          /\ \A x, y \in L \cup T : rank[x] <= rank[y] <=> rk[x] <= rk[y]

(***************************************************************************)
(* Publishing puts the new element next to its predecessor in rank.        *)
(***************************************************************************)
LEMMA PublishOrder ==
  ASSUME NEW L \in SUBSET Nodes, NEW T \in SUBSET Nodes, NEW p \in L \cup {head},
         NEW n \in Nodes \ (L \cup T), NextType, next[n] = next[p],
         NEW rank, Ordered(next, rank, L, T),
         NEW nx, nx = [next EXCEPT ![p] = n]
  PROVE  OrderedWith(nx, rank, L, T, n)
  <1> DEFINE D == L \cup T \cup {head}
             rk == [x \in D \cup {n} |-> IF x = n THEN 2 * rank[p] + 1 ELSE 2 * rank[x]]
  <1>1. head \notin Nodes /\ NULL \notin Nodes \cup {head} /\ n \notin D /\ p \in D
    BY SlistAssumption
  <1>2. /\ \A x \in D : rk[x] = 2 * rank[x] /\ rank[x] \in Int
        /\ rk[n] = 2 * rank[p] + 1 /\ rank[p] \in Int
    BY <1>1 DEF Ordered, Ranked
  <1> HIDE DEF rk
  <1>3. /\ nx[p] = n /\ nx[n] = next[p]
        /\ \A x \in D \ {p} : nx[x] = next[x]
    BY <1>1 DEF NextType
  <1>4. /\ \A x, y \in D : rank[x] <= rank[y] <=> rk[x] <= rk[y]
        /\ \A x, y \in D : rank[x] < rank[y] <=> rk[x] < rk[y]
        /\ \A x \in D : rk[x] <= rk[n] <=> rank[x] <= rank[p]
        /\ \A x \in D : rk[n] < rk[x] <=> rank[p] < rank[x]
        /\ \A x \in D : rk[n] <= rk[x] <=> rank[p] < rank[x]
        /\ \A x \in D : rk[x] < rk[n] <=> rank[x] <= rank[p]
        /\ \A x \in D \cup {n} : rk[x] \in Int
        /\ \A x \in D : rk[x] # rk[n]
    <2> HIDE DEF D
    <2>1. ASSUME NEW x \in D, NEW y \in D
          PROVE  /\ rank[x] <= rank[y] <=> rk[x] <= rk[y]
                 /\ rank[x] < rank[y] <=> rk[x] < rk[y]
      BY <1>2
    <2>2. ASSUME NEW x \in D
          PROVE  /\ rk[x] <= rk[n] <=> rank[x] <= rank[p]
                 /\ rk[n] < rk[x] <=> rank[p] < rank[x]
                 /\ rk[n] <= rk[x] <=> rank[p] < rank[x]
                 /\ rk[x] < rk[n] <=> rank[x] <= rank[p]
                 /\ rk[x] \in Int /\ rk[x] # rk[n]
      BY <1>2
    <2>3. rk[n] \in Int
      BY <1>2
    <2>4. QED
      BY <2>1, <2>2, <2>3
  <1>5. Ranked(rk, L \cup {n} \cup T \cup {head})
    <2>1. \A x, y \in D : rk[x] = rk[y] => x = y
      BY <1>2 DEF Ordered, Ranked
    <2>2. QED
      BY <1>4, <2>1 DEF Ranked
  <1>6. \A x \in L \cup {n} \cup T : rk[head] < rk[x]
    <2>1. rank[head] <= rank[p]
      BY <1>2 DEF Ordered
    <2>2. QED
      BY <1>4, <2>1 DEF Ordered
  <1>7. /\ \A x \in L \cup {head} : next[x] \in L \cup {NULL}
        /\ \A x \in T : next[x] \in L \cup T \cup {NULL}
        /\ \A x \in D : Leads(next, rank, L, x)
    BY DEF Ordered
  <1>8. ASSUME NEW x \in D, x # p PROVE Leads(nx, rk, L \cup {n}, x)
    <2>1. nx[x] = next[x] /\ next[x] \in D \cup {NULL} /\ Leads(next, rank, L, x)
      BY <1>3, <1>7, <1>8
    <2>2. rank[x] # rank[p] /\ rank[x] \in Int /\ rank[p] \in Int
      BY <1>1, <1>2, <1>8 DEF Ordered, Ranked
    <2>3. p \in L \/ rank[p] < rank[x]
      BY <1>8 DEF Ordered
    <2>4. CASE next[x] = NULL
      <3>1. \A y \in L : rk[y] <= rk[x]
        BY <1>4, <2>1, <2>4 DEF Leads
      <3>2. rank[p] < rank[x]
        BY <2>1, <2>2, <2>3, <2>4 DEF Leads
      <3>3. rk[n] <= rk[x]
        BY <1>4, <3>2
      <3>4. QED
        BY <2>1, <2>4, <3>1, <3>3 DEF Leads
    <2>5. CASE next[x] # NULL
      <3>1. next[x] \in D /\ rank[x] < rank[next[x]] /\ rk[x] < rk[next[x]]
        BY <1>4, <2>1, <2>5 DEF Leads
      <3>2. \A y \in L : rk[x] < rk[y] => rk[next[x]] <= rk[y]
        BY <1>4, <2>1, <2>5, <3>1 DEF Leads
      <3>3. rk[x] < rk[n] => rk[next[x]] <= rk[n]
        <4>1. SUFFICES ASSUME rk[x] < rk[n] PROVE rank[next[x]] <= rank[p]
          BY <1>4, <3>1
        <4>2. rank[x] < rank[p]
          BY <1>4, <2>2, <4>1
        <4>3. p \in L
          BY <2>2, <2>3, <4>2
        <4>4. QED
          BY <2>1, <2>5, <4>2, <4>3 DEF Leads
      <3>4. QED
        BY <2>1, <2>5, <3>1, <3>2, <3>3 DEF Leads
    <2>6. QED
      BY <2>4, <2>5
  <1>9. Leads(nx, rk, L \cup {n}, p)
    <2>1. rk[p] < rk[n] /\ \A y \in L : rk[p] < rk[y] => rk[n] <= rk[y]
      BY <1>1, <1>2, <1>4
    <2>2. n # NULL
      BY <1>1
    <2>3. rk[n] <= rk[n]
      BY <1>4
    <2>4. QED
      BY <1>3, <2>1, <2>2, <2>3 DEF Leads
  <1>10. Leads(nx, rk, L \cup {n}, n)
    <2>1. next[p] \in L \cup {NULL} /\ Leads(next, rank, L, p)
      BY <1>7
    <2>2. CASE next[p] = NULL
      <3>1. \A y \in L : rk[y] <= rk[n]
        BY <1>4, <2>1, <2>2 DEF Leads
      <3>2. rk[n] <= rk[n]
        BY <1>4
      <3>3. QED
        BY <1>3, <2>2, <3>1, <3>2 DEF Leads
    <2>3. CASE next[p] # NULL
      <3>1. next[p] \in D /\ rank[p] < rank[next[p]]
            /\ \A y \in L : rank[p] < rank[y] => rank[next[p]] <= rank[y]
        BY <2>1, <2>3 DEF Leads
      <3>2. rk[n] < rk[next[p]]
        BY <1>4, <3>1
      <3>3. \A y \in L : rk[n] < rk[y] => rk[next[p]] <= rk[y]
        BY <1>4, <3>1
      <3>4. ~(rk[n] < rk[n])
        BY <1>4
      <3>5. QED
        BY <1>3, <2>3, <3>2, <3>3, <3>4 DEF Leads
    <2>4. QED
      BY <2>2, <2>3
  <1>11. /\ \A x \in L \cup {n} \cup {head} : nx[x] \in L \cup {n} \cup {NULL}
         /\ \A x \in T : nx[x] \in L \cup {n} \cup T \cup {NULL}
    BY <1>3, <1>7
  <1>12. Ordered(nx, rk, L \cup {n}, T)
    BY <1>5, <1>6, <1>8, <1>9, <1>10, <1>11 DEF Ordered
  <1>13. QED
    BY <1>4, <1>12 DEF OrderedWith

LEMMA PublishStep ==
  ASSUME IInv, Publish
  PROVE  /\ IInv' /\ Walk!Relist(Linked \cup {newElem})
         /\ newElem \in Nodes \ (Linked \cup limbo)
  <1> DEFINE L == Linked \cup {newElem}
  <1>1. /\ wpc \in Inserting /\ wpc' = "idle" /\ at' = NULL /\ newElem' = NULL
        /\ next' = [next EXCEPT ![at] = newElem]
        /\ UNCHANGED <<limbo, zoneVars, pos>> /\ Walk!Observe
    BY DEF Publish
  <1>2. /\ Linked \in SUBSET Nodes /\ limbo \in SUBSET Nodes /\ NextType
        /\ Linked \cap limbo = {}
        /\ at \in Linked \cup {head} /\ newElem \in Nodes \ (Linked \cup limbo)
        /\ next[newElem] = next[at]
    BY <1>1 DEF IInv, VarTypes, WriterInv
  <1>3. NextType' /\ next'[at] = newElem
        /\ \A x \in Linked \cup limbo : x # at => next'[x] = next[x]
    BY <1>1, <1>2 DEF NextType
  <1>4. \A rank : Ordered(next, rank, Linked, limbo) =>
          \E rk : Ordered(next', rk, L, limbo') /\ SameOrder(rank, rk)
    <2>1. SUFFICES ASSUME NEW rank, Ordered(next, rank, Linked, limbo)
                   PROVE  \E rk : Ordered(next', rk, L, limbo') /\ SameOrder(rank, rk)
      OBVIOUS
    <2>2. PICK rk : /\ Ordered(next', rk, Linked \cup {newElem}, limbo)
                    /\ \A x, y \in Linked \cup limbo : rank[x] <= rank[y] <=> rk[x] <= rk[y]
      <3>1. next' = [next EXCEPT ![at] = newElem]
        BY <1>1
      <3>2. OrderedWith(next', rank, Linked, limbo, newElem)
        BY <1>2, <2>1, <3>1, PublishOrder
      <3>3. QED
        BY <3>2 DEF OrderedWith
    <2>3. QED
      BY <1>1, <2>2 DEF SameOrder
  <1>5. /\ L \in SUBSET Nodes /\ limbo' = limbo /\ limbo' \in SUBSET Nodes
        /\ wpc \in {"idle"} \cup Inserting /\ wpc' \in {"idle"} \cup Inserting
        /\ at' \in Nodes \cup {head, NULL} /\ newElem' \in Nodes \cup {NULL}
        /\ Linked \cup limbo \subseteq L \cup limbo' /\ L \cap limbo' = {}
        /\ \A x \in Linked \cup limbo : next'[x] = next[x] \/ next'[x] \in L \cup {NULL}
        /\ wpc' \notin Inserting
    BY <1>1, <1>2, <1>3 DEF Inserting
  <1> HIDE DEF L
  <1>6. IInv' /\ Walk!Relist(L)
    BY <1>1, <1>3, <1>4, <1>5, StoreStep
  <1>7. QED
    BY <1>2, <1>6 DEF L

(***************************************************************************)
(* The node that rcuSlistRemove looks for exists.                          *)
(***************************************************************************)
LEMMA BeforeIs ==
  ASSUME IInv, NEW n \in Linked
  PROVE  Before(n) \in Linked \cup {head} /\ next[Before(n)] = n
  <1>1. PICK rank : Ordered(next, rank, Linked, limbo)
    BY DEF IInv, ListInv
  <1> DEFINE P == {x \in Linked \cup {head} : rank[x] < rank[n]}
  <1>2. Linked \in SUBSET Nodes
    BY DEF IInv, VarTypes
  <1>3. /\ \A x \in Linked \cup {head} : rank[x] \in Int /\ Leads(next, rank, Linked, x)
        /\ \A x, y \in Linked \cup {head} : rank[x] = rank[y] => x = y
        /\ \A x \in Linked \cup {head} : next[x] \in Linked \cup {NULL}
        /\ rank[head] < rank[n]
    BY <1>1 DEF Ordered, Ranked
  <1>4. IsFiniteSet(P)
    <2>1. IsFiniteSet(Nodes \cup {head})
      BY SlistAssumption, FS_AddElement
    <2>2. P \in SUBSET (Nodes \cup {head})
      BY <1>2
    <2>3. QED
      BY <2>1, <2>2, FS_Subset
  <1>5. head \in P /\ \A x \in P : rank[x] \in Int
    BY <1>3
  <1>6. PICK g \in P : \A x \in P : rank[x] <= rank[g]
    <2> HIDE DEF P
    <2>1. QED
      BY <1>4, <1>5, GreatestRank
  <1>7. g \in Linked \cup {head} /\ rank[g] < rank[n]
    OBVIOUS
  <1>8. next[g] # NULL
    BY <1>3, <1>7 DEF Leads
  <1>9. next[g] \in Linked /\ rank[g] < rank[next[g]] /\ rank[next[g]] <= rank[n]
    BY <1>3, <1>7, <1>8 DEF Leads
  <1>10. next[g] = n
    <2>1. ~(rank[next[g]] < rank[n])
      <3>1. SUFFICES ASSUME rank[next[g]] < rank[n] PROVE FALSE
        OBVIOUS
      <3>2. next[g] \in P
        BY <1>9, <3>1
      <3>3. rank[next[g]] <= rank[g] /\ rank[g] \in Int /\ rank[next[g]] \in Int
        BY <1>3, <1>6, <1>7, <1>9, <3>2
      <3>4. QED
        BY <1>9, <3>3
    <2>2. rank[next[g]] = rank[n]
      BY <1>3, <1>9, <2>1
    <2>3. QED
      BY <1>3, <1>9, <2>2
  <1>11. QED
    BY <1>7, <1>10 DEF Before

LEMMA RemoveOrder ==
  ASSUME NEW L \in SUBSET Nodes, NEW T \in SUBSET Nodes, L \cap T = {}, NextType,
         NEW n \in L, NEW p \in L \cup {head}, next[p] = n,
         NEW nx, nx = [next EXCEPT ![p] = next[n]],
         NEW rank, Ordered(next, rank, L, T)
  PROVE  Ordered(nx, rank, L \ {n}, T \cup {n})
  <1>1. head \notin Nodes /\ NULL \notin Nodes \cup {head}
    BY SlistAssumption
  <1>2. /\ \A x \in L \cup T \cup {head} : rank[x] \in Int /\ Leads(next, rank, L, x)
        /\ \A x, y \in L \cup T \cup {head} : rank[x] = rank[y] => x = y
        /\ \A x \in L \cup T : rank[head] < rank[x]
        /\ \A x \in L \cup {head} : next[x] \in L \cup {NULL}
        /\ \A x \in T : next[x] \in L \cup T \cup {NULL}
    BY DEF Ordered, Ranked
  <1>3. /\ rank[p] < rank[n]
        /\ \A x \in L : rank[p] < rank[x] => rank[n] <= rank[x]
    BY <1>1, <1>2 DEF Leads
  <1>4. p # n /\ p \notin T
    BY <1>1, <1>2, <1>3
  <1>5. nx[p] = next[n] /\ \A x \in L \cup T \cup {head} : x # p => nx[x] = next[x]
    BY <1>1 DEF NextType
  <1>6. Leads(next, rank, L, n) /\ next[n] \in L \cup {NULL}
    BY <1>2
  <1>7. next[n] # n
    BY <1>1, <1>2, <1>6 DEF Leads
  <1>8. Leads(nx, rank, L \ {n}, p)
    <2>1. \A x \in L \ {n} : rank[p] < rank[x] => rank[n] < rank[x]
      BY <1>2, <1>3
    <2>2. CASE next[n] = NULL
      BY <1>2, <1>5, <1>6, <2>1, <2>2 DEF Leads
    <2>3. CASE next[n] # NULL
      <3>1. rank[n] < rank[next[n]] /\ \A x \in L : rank[n] < rank[x] => rank[next[n]] <= rank[x]
        BY <1>6, <2>3 DEF Leads
      <3>2. rank[p] < rank[next[n]]
        BY <1>2, <1>3, <1>6, <2>3, <3>1
      <3>3. QED
        BY <1>5, <2>1, <2>3, <3>1, <3>2 DEF Leads
    <2>4. QED
      BY <2>2, <2>3
  <1>9. ASSUME NEW x \in L \cup T \cup {head}, x # p PROVE Leads(nx, rank, L \ {n}, x)
    BY <1>2, <1>5, <1>9 DEF Leads
  <1>10. ASSUME NEW x \in L \cup {head}, x # p PROVE next[x] # n
    <2>1. SUFFICES ASSUME next[x] = n PROVE FALSE
      OBVIOUS
    <2>2. /\ rank[x] < rank[n]
          /\ \A y \in L : rank[x] < rank[y] => rank[n] <= rank[y]
      BY <1>1, <1>2, <2>1 DEF Leads
    <2>3. rank[x] # rank[p] /\ rank[x] \in Int /\ rank[p] \in Int /\ rank[n] \in Int
      BY <1>2, <1>10
    <2>4. CASE rank[x] < rank[p]
      <3>1. p \in L
        BY <1>2, <1>10, <2>3, <2>4
      <3>2. QED
        BY <1>3, <2>2, <2>3, <2>4, <3>1
    <2>5. CASE rank[p] < rank[x]
      <3>1. x \in L
        BY <1>2, <1>10, <2>3, <2>5
      <3>2. QED
        BY <1>3, <2>2, <2>3, <2>5, <3>1
    <2>6. QED
      BY <2>3, <2>4, <2>5
  <1>11. \A x \in (L \ {n}) \cup {head} : nx[x] \in (L \ {n}) \cup {NULL}
    BY <1>2, <1>5, <1>6, <1>7, <1>10
  <1>12. \A x \in T \cup {n} : nx[x] \in (L \ {n}) \cup (T \cup {n}) \cup {NULL}
    BY <1>2, <1>4, <1>5, <1>6
  <1>13. (L \ {n}) \cup (T \cup {n}) \cup {head} = L \cup T \cup {head}
    OBVIOUS
  <1>14. Ranked(rank, (L \ {n}) \cup (T \cup {n}) \cup {head})
    BY <1>2, <1>13 DEF Ranked
  <1>15. QED
    BY <1>2, <1>8, <1>9, <1>11, <1>12, <1>13, <1>14 DEF Ordered

LEMMA ResetOrder ==
  ASSUME NEW L \in SUBSET Nodes, NEW T \in SUBSET Nodes, NextType,
         NEW nx, nx = [next EXCEPT ![head] = NULL],
         NEW rank, Ordered(next, rank, L, T)
  PROVE  Ordered(nx, rank, {}, T \cup L)
  <1>1. head \notin Nodes /\ NULL \notin Nodes \cup {head}
    BY SlistAssumption
  <1>2. nx[head] = NULL /\ \A x \in L \cup T : nx[x] = next[x]
    BY <1>1 DEF NextType
  <1>3. {} \cup (T \cup L) \cup {head} = L \cup T \cup {head} /\ {} \cup (T \cup L) = L \cup T
    OBVIOUS
  <1>4. \A x \in L \cup T \cup {head} : Leads(nx, rank, {}, x)
    BY <1>2 DEF Ordered, Leads
  <1>5. QED
    BY <1>2, <1>3, <1>4 DEF Ordered

LEMMA UnlinkStep ==
  ASSUME IInv, NEW S \in SUBSET Linked, NEW p \in (Linked \ S) \cup {head},
         NEW q \in Nodes \cup {NULL}, Unlink(p, q, S),
         \A rank : Ordered(next, rank, Linked, limbo)
                     => Ordered(next', rank, Linked \ S, limbo \cup S)
  PROVE  IInv' /\ Walk!Relist(Linked \ S)
  <1> DEFINE L == Linked \ S
  <1>1. /\ wpc = "idle" /\ wpc' = wpc /\ at' = at /\ newElem' = newElem
        /\ next' = [next EXCEPT ![p] = q] /\ limbo' = limbo \cup S
        /\ UNCHANGED <<zoneVars, pos>> /\ Walk!Observe
    BY DEF Unlink, writerVars
  <1>2. /\ Linked \in SUBSET Nodes /\ limbo \in SUBSET Nodes /\ NextType
        /\ Linked \cap limbo = {}
        /\ at \in Nodes \cup {head, NULL} /\ newElem \in Nodes \cup {NULL}
    BY DEF IInv, VarTypes, WriterInv
  <1>3. NextType'
    BY <1>1, <1>2 DEF NextType
  <1>4. PICK rank : Ordered(next, rank, Linked, limbo)
    BY DEF IInv, ListInv
  <1>5. \A x \in L \cup {head} : next'[x] \in L \cup {NULL}
    BY <1>4 DEF Ordered
  <1>6. \A x \in Linked \cup limbo : next'[x] = next[x] \/ next'[x] \in L \cup {NULL}
    <2>1. SUFFICES ASSUME NEW x \in Linked \cup limbo, next'[x] # next[x]
                   PROVE  next'[x] \in L \cup {NULL}
      OBVIOUS
    <2>2. x = p
      BY <1>1, <1>2, <2>1 DEF NextType
    <2>3. QED
      BY <1>5, <2>2
  <1>7. \A rk : Ordered(next, rk, Linked, limbo) =>
          \E rk2 : Ordered(next', rk2, L, limbo') /\ SameOrder(rk, rk2)
    BY <1>1 DEF SameOrder
  <1>8. /\ L \in SUBSET Nodes /\ limbo' \in SUBSET Nodes
        /\ wpc \in {"idle"} \cup Inserting /\ wpc' \in {"idle"} \cup Inserting
        /\ at' \in Nodes \cup {head, NULL} /\ newElem' \in Nodes \cup {NULL}
        /\ Linked \cup limbo \subseteq L \cup limbo' /\ L \cap limbo' = {}
        /\ wpc' \notin Inserting
    BY <1>1, <1>2 DEF Inserting
  <1> HIDE DEF L
  <1>9. IInv' /\ Walk!Relist(L)
    BY <1>1, <1>3, <1>6, <1>7, <1>8, StoreStep
  <1>10. QED
    BY <1>9 DEF L

LEMMA RemoveStep ==
  ASSUME IInv, NEW n \in Nodes, rcuSlistRemove(n)
  PROVE  n \in Linked /\ IInv' /\ Walk!Relist(Linked \ {n})
  <1> DEFINE p == Before(n)
  <1>1. n \in Linked /\ Unlink(p, next[n], {n})
    BY DEF rcuSlistRemove
  <1>2. p \in Linked \cup {head} /\ next[p] = n
    BY <1>1, BeforeIs
  <1> HIDE DEF p
  <1>3. /\ Linked \in SUBSET Nodes /\ limbo \in SUBSET Nodes /\ NextType
        /\ Linked \cap limbo = {}
    BY DEF IInv, VarTypes, WriterInv
  <1>4. next' = [next EXCEPT ![p] = next[n]]
    BY <1>1 DEF Unlink
  <1>5. p # n
    <2>1. SUFFICES ASSUME p = n PROVE FALSE
      OBVIOUS
    <2>2. PICK rank : Ordered(next, rank, Linked, limbo)
      BY DEF IInv, ListInv
    <2>3. rank[n] < rank[next[n]] /\ next[n] = n /\ rank[n] \in Int
      BY <1>1, <1>2, <1>3, <2>1, <2>2, SlistAssumption DEF Ordered, Ranked, Leads
    <2>4. QED
      BY <2>3
  <1>6. \A rank : Ordered(next, rank, Linked, limbo)
                    => Ordered(next', rank, Linked \ {n}, limbo \cup {n})
    BY <1>1, <1>2, <1>3, <1>4, RemoveOrder
  <1>7. next[n] \in Nodes \cup {NULL} /\ {n} \in SUBSET Linked
        /\ p \in (Linked \ {n}) \cup {head}
    BY <1>1, <1>2, <1>3, <1>5 DEF NextType
  <1>8. QED
    BY <1>1, <1>6, <1>7, UnlinkStep

LEMMA ResetStep ==
  ASSUME IInv, rcuSlistReset
  PROVE  IInv' /\ Walk!Relist(Linked \ Linked)
  <1>1. Unlink(head, NULL, Linked)
    BY DEF rcuSlistReset
  <1>2. /\ Linked \in SUBSET Nodes /\ limbo \in SUBSET Nodes /\ NextType
    BY DEF IInv, VarTypes
  <1>3. next' = [next EXCEPT ![head] = NULL]
    BY <1>1 DEF Unlink
  <1>4. \A rank : Ordered(next, rank, Linked, limbo)
                    => Ordered(next', rank, Linked \ Linked, limbo \cup Linked)
    <2>1. Linked \ Linked = {}
      OBVIOUS
    <2>2. QED
      BY <1>2, <1>3, <2>1, ResetOrder
  <1>5. Linked \in SUBSET Linked /\ head \in (Linked \ Linked) \cup {head}
        /\ NULL \in Nodes \cup {NULL}
    OBVIOUS
  <1>6. QED
    BY <1>1, <1>4, <1>5, UnlinkStep

LEMMA RemovalStep ==
  ASSUME IInv, Removal
  PROVE  IInv'
  <1>1. CASE \E n \in Nodes : rcuSlistRemove(n)
    BY <1>1, RemoveStep
  <1>2. ASSUME NEW k \in Keys, rcuSlistRemoveIf(k) PROVE IInv'
    <2>1. \E n : rcuSlistRemove(n)
      BY <1>2 DEF rcuSlistRemoveIf
    <2>2. \E n \in Nodes : rcuSlistRemove(n)
      BY <2>1 DEF rcuSlistRemove, IInv, VarTypes
    <2>3. QED
      BY <2>2, RemoveStep
  <1>3. CASE rcuSlistReset
    BY <1>3, ResetStep
  <1>4. QED
    BY <1>1, <1>2, <1>3 DEF Removal

-----------------------------------------------------------------------------
(* The owner of removed nodes.                                              *)

LEMMA SyncSteps ==
  ASSUME IInv, SyncStart \/ SyncEnd
  PROVE  IInv'
  <1>1. /\ UNCHANGED <<next, limbo, at, newElem, inside, pos, walk>>
        /\ wpc' \in {"sync", "free"}
    BY DEF SyncStart, SyncEnd, Zone!SyncStart, Zone!SyncEnd, listVars, readerVars
  <1>2. Linked' = Linked
    BY <1>1, SameContent
  <1>3. Zone!TypeOK'
    <2>1. Zone!TypeOK
      BY DEF IInv, VarTypes
    <2>2. CASE SyncStart
      BY <2>1, <2>2 DEF SyncStart, Zone!SyncStart, Zone!TypeOK
    <2>3. CASE SyncEnd
      BY <2>1, <2>3 DEF SyncEnd, Zone!SyncEnd, Zone!TypeOK
    <2>4. QED
      BY <2>2, <2>3
  <1>4. VarTypes'
    BY <1>1, <1>2, <1>3 DEF IInv, VarTypes, NextType
  <1>5. WriterInv'
    <2>1. wpc' = "sync" <=> writer \in syncing'
      <3>1. CASE SyncStart
        BY <3>1 DEF SyncStart, Zone!SyncStart
      <3>2. CASE SyncEnd
        BY <3>2 DEF SyncEnd, Zone!SyncEnd
      <3>3. QED
        BY <3>1, <3>2
    <2>2. wpc' \notin Inserting
      BY <1>1 DEF Inserting
    <2>3. QED
      BY <1>1, <1>2, <2>1, <2>2 DEF IInv, WriterInv
  <1>6. PICK rank : /\ Ordered(next, rank, Linked, limbo)
                    /\ \A r \in Readers : ReaderInv(rank, r)
    BY DEF IInv, ListInv
  <1>7. ASSUME NEW r \in Readers PROVE ReaderInv(rank, r)'
    <2>1. ReaderInv(rank, r)
      BY <1>6
    <2>2. Passed(r)' => walk[r].possible \cap limbo = {}
      <3>1. CASE SyncStart
        <4>1. wpc' = "sync" /\ waiting' = [waiting EXCEPT ![writer] = inside]
          BY <3>1 DEF SyncStart, Zone!SyncStart
        <4>2. waiting'[writer] = inside
          BY <4>1 DEF IInv, VarTypes, Zone!TypeOK
        <4>3. Passed(r)' => r \notin inside
          BY <4>1, <4>2 DEF Passed
        <4>4. r \notin inside => walk[r].possible = {}
          BY <2>1, OutsideFields DEF ReaderInv
        <4>5. QED
          BY <4>3, <4>4
      <3>2. CASE SyncEnd
        <4>1. wpc = "sync" /\ waiting[writer] = {}
          BY <3>2 DEF SyncEnd, Zone!SyncEnd
        <4>2. Passed(r)
          BY <4>1 DEF Passed
        <4>3. QED
          BY <2>1, <4>2 DEF ReaderInv
      <3>3. QED
        BY <3>1, <3>2
    <2>3. QED
      BY <1>1, <1>2, <2>1, <2>2 DEF ReaderInv, Progress
  <1>8. ListInv'
    BY <1>1, <1>2, <1>6, <1>7 DEF ListInv
  <1>9. QED
    BY <1>4, <1>5, <1>8 DEF IInv

LEMMA GiveBackStep ==
  ASSUME IInv, GiveBack
  PROVE  /\ IInv' /\ Content' = Content
         /\ \A r \in Readers : walk[r].possible \cap limbo = {}
  <1>1. /\ wpc = "free" /\ wpc' = "idle" /\ limbo' = {}
        /\ next' = [x \in DOMAIN next |-> IF x \in limbo THEN NULL ELSE next[x]]
        /\ UNCHANGED <<at, newElem, inside, syncing, waiting, pos, walk>>
    BY DEF GiveBack, zoneVars, readerVars
  <1>2. /\ Linked \in SUBSET Nodes /\ limbo \in SUBSET Nodes /\ NextType
        /\ Linked \cap limbo = {}
    BY DEF IInv, VarTypes, WriterInv
  <1>3. NextType' /\ \A x \in Linked \cup {head} : next'[x] = next[x]
    BY <1>1, <1>2, SlistAssumption DEF NextType
  <1>4. PICK rank : /\ Ordered(next, rank, Linked, limbo)
                    /\ \A r \in Readers : ReaderInv(rank, r)
    BY DEF IInv, ListInv
  <1>5. Ordered(next', rank, Linked, {})
    BY <1>3, <1>4 DEF Ordered, Leads, Ranked
  <1>6. Linked' = Linked
    BY <1>2, <1>3, <1>5, NewContent
  <1>7. ASSUME NEW r \in Readers
        PROVE  ReaderInv(rank, r)' /\ walk[r].possible \cap limbo = {}
    <2>1. ReaderInv(rank, r)
      BY <1>4
    <2>2. walk[r].possible \cap limbo = {}
      BY <1>1, <2>1 DEF ReaderInv, Passed
    <2>3. walk[r].possible \subseteq Linked
      BY <2>1, <2>2 DEF ReaderInv
    <2>4. \A n \in walk[r].possible : next'[n] \in walk[r].possible \cup {NULL}
      BY <1>3, <2>1, <2>3 DEF ReaderInv
    <2>5. QED
      BY <1>1, <1>6, <2>1, <2>2, <2>3, <2>4 DEF ReaderInv, Progress
  <1>8. ListInv'
    BY <1>1, <1>5, <1>6, <1>7 DEF ListInv
  <1>9. VarTypes'
    BY <1>1, <1>2, <1>3, <1>6 DEF IInv, VarTypes, Zone!TypeOK
  <1>10. WriterInv'
    BY <1>1, <1>6 DEF IInv, WriterInv, Inserting
  <1>11. Content' = Content
    BY <1>2, <1>3, <1>4, KeptContent
  <1>12. QED
    BY <1>7, <1>8, <1>9, <1>10, <1>11 DEF IInv

-----------------------------------------------------------------------------
(* Every step.                                                              *)

LEMMA NextStep ==
  ASSUME IInv, [Next]_vars
  PROVE  IInv'
  <1>1. CASE Insertion
    BY <1>1, InsertionStep
  <1>2. CASE Publish
    BY <1>2, PublishStep
  <1>3. CASE Removal
    BY <1>3, RemovalStep
  <1>4. CASE SyncStart \/ SyncEnd
    BY <1>4, SyncSteps
  <1>5. CASE GiveBack
    BY <1>5, GiveBackStep
  <1>6. ASSUME NEW r \in Readers, Reader(r) PROVE IInv'
    <2>1. CASE ReadLock(r)
      BY <2>1, ReadLockStep
    <2>2. CASE ReadUnlock(r)
      BY <2>2, ReadUnlockStep
    <2>3. CASE FindFirst(r) \/ FindNext(r)
      BY <2>3, FindSteps
    <2>4. QED
      BY <1>6, <2>1, <2>2, <2>3 DEF Reader
  <1>7. CASE UNCHANGED vars
    <2>1. /\ UNCHANGED <<next, limbo, wpc, at, newElem, inside, syncing, waiting, pos, walk>>
      BY <1>7 DEF vars, listVars, writerVars, zoneVars, readerVars
    <2>2. Linked' = Linked
      BY <2>1, SameContent
    <2>3. PICK rank : /\ Ordered(next, rank, Linked, limbo)
                      /\ \A r \in Readers : ReaderInv(rank, r)
      BY DEF IInv, ListInv
    <2>4. ASSUME NEW r \in Readers PROVE ReaderInv(rank, r)'
      <3>1. Passed(r)' => Passed(r)
        BY <2>1 DEF Passed
      <3>2. QED
        BY <2>1, <2>3, <3>1, ReaderKept
    <2>5. ListInv'
      BY <2>1, <2>2, <2>3, <2>4 DEF ListInv
    <2>6. VarTypes' /\ WriterInv'
      BY <2>1, <2>2 DEF IInv, VarTypes, NextType, Zone!TypeOK, WriterInv
    <2>7. QED
      BY <2>5, <2>6 DEF IInv
  <1>8. QED
    BY <1>1, <1>2, <1>3, <1>4, <1>5, <1>6, <1>7 DEF Next, Writer

LEMMA IInvAlways == Spec => []IInv
  <1>1. QED
    BY InitIInv, NextStep, PTL DEF Spec

(***************************************************************************)
(* The links always make a list of distinct nodes, none of them removed,   *)
(* and every variable has its type.                                        *)
(***************************************************************************)
THEOREM SlistTypeCorrect == Spec => []TypeOK
  <1>1. ASSUME IInv PROVE TypeOK
    <2>1. PICK rank : Ordered(next, rank, Linked, limbo)
      BY <1>1 DEF IInv, ListInv
    <2>2. /\ VarTypes /\ limbo \cap Linked = {}
          /\ next \in [Nodes \cup {head} -> Nodes \cup {NULL}]
          /\ Linked \in SUBSET Nodes /\ limbo \in SUBSET Nodes
      BY <1>1 DEF IInv, VarTypes, WriterInv, NextType
    <2>3. Content = BehindIn(next, head)
      BY BehindAlong DEF Content
    <2>4. Content \in Seq(Nodes) /\ IsInjective(Content)
      BY <2>1, <2>2, <2>3, ContentIs
    <2>5. Walk!IsInjective(Content) /\ Walk!Linked = Linked
      BY <2>4, WalkLinked DEF IsInjective, Walk!IsInjective
    <2>6. Walk!TypeOK
      BY <2>2, <2>4, <2>5 DEF Walk!TypeOK, VarTypes
    <2>7. QED
      BY <2>2, <2>6 DEF TypeOK, VarTypes, NextType
  <1>2. QED
    BY <1>1, IInvAlways, PTL

(***************************************************************************)
(* No reader stands on a node that was given back, for any number of       *)
(* readers and nodes.                                                      *)
(***************************************************************************)
THEOREM SlistNoUseAfterFree == Spec => []NoUseAfterFree
  <1>1. ASSUME IInv PROVE NoUseAfterFree
    BY <1>1 DEF IInv, ListInv, ReaderInv, NoUseAfterFree
  <1>2. QED
    BY <1>1, IInvAlways, PTL

-----------------------------------------------------------------------------
(* The list implements RListWalk.                                           *)

LEMMA ReadLockEnters ==
  ASSUME IInv, NEW r \in Readers, ReadLock(r)
  PROVE  Walk!Enter(r)
  <1>1. UNCHANGED <<next, limbo>> /\ r \notin inside
    BY DEF ReadLock, Zone!ReadLock, listVars
  <1>2. walk[r].dir = "out"
    BY <1>1 DEF IInv, ListInv, ReaderInv
  <1>3. Content' = Content
    BY <1>1, SameContent
  <1>4. QED
    BY <1>1, <1>2, <1>3 DEF ReadLock, Walk!Enter

LEMMA ReadUnlockLeaves ==
  ASSUME IInv, NEW r \in Readers, ReadUnlock(r)
  PROVE  Walk!Leave(r)
  <1>1. UNCHANGED <<next, limbo>> /\ r \in inside
    BY DEF ReadUnlock, Zone!ReadUnlock, listVars
  <1>2. walk[r].dir # "out"
    BY <1>1 DEF IInv, ListInv, ReaderInv
  <1>3. Content' = Content
    BY <1>1, SameContent
  <1>4. QED
    BY <1>1, <1>2, <1>3 DEF ReadUnlock, Walk!Leave

LEMMA LoadLoads ==
  ASSUME IInv, NEW r \in Readers, NEW p, NEW w, Load(r, p, w), NEW rank,
         Ordered(next, rank, Linked, limbo), MayLoad(rank, r, p, w)
  PROVE  Walk!Load(r, w)
  <1> DEFINE n == next[p]
  <1>1. UNCHANGED <<next, limbo>>
    BY DEF Load, listVars
  <1>2. Content' = Content
    BY <1>1, SameContent
  <1>3. CASE n = NULL
    <2>1. walk' = [walk EXCEPT ![r] = Walk!Ended(w)]
      BY <1>3 DEF Load
    <2>2. w.steady \subseteq w.seen
      BY <1>3, LoadMeets
    <2>3. QED
      BY <1>1, <1>2, <2>1, <2>2 DEF Walk!Load
  <1>4. CASE n # NULL
    <2>1. walk' = [walk EXCEPT ![r] = Walk!Met(w, n)]
      BY <1>4 DEF Load
    <2>2. /\ n \in w.possible \ w.seen
          /\ \A x \in w.steady : x \in w.seen <=> rank[x] < rank[n]
      BY <1>4, LoadMeets
    <2>3. w.dir = "forward" /\ w.steady \subseteq Linked
      BY DEF MayLoad
    <2> HIDE DEF n
    <2>4. \A x, y : Walk!Precedes(x, y) <=> x \in Linked /\ y \in Linked /\ rank[x] < rank[y]
      BY OldContent
    <2>5. ASSUME n \in w.steady, NEW x \in w.steady
          PROVE  x \in w.seen <=> Walk!IsBefore(x, n, w.dir)
      <3>1. Walk!IsBefore(x, n, w.dir) <=> Walk!Precedes(x, n)
        BY <2>3 DEF Walk!IsBefore
      <3>2. QED
        BY <2>2, <2>3, <2>4, <2>5, <3>1
    <2>6. Walk!Meets(w, n)
      BY <2>2, <2>5 DEF Walk!Meets
    <2>7. QED
      BY <1>1, <1>2, <2>1, <2>2, <2>6 DEF Walk!Load
  <1>5. QED
    BY <1>3, <1>4

LEMMA FindsWalk ==
  ASSUME IInv, NEW r \in Readers, FindFirst(r) \/ FindNext(r)
  PROVE  Walk!Begin(r, "forward") \/ Walk!Advance(r)
  <1>1. PICK rank : Ordered(next, rank, Linked, limbo) /\ ReaderInv(rank, r)
    BY DEF IInv, ListInv
  <1>2. CASE FindFirst(r)
    <2>1. walk[r].dir # "out"
      BY <1>1, <1>2 DEF FindFirst, ReaderInv
    <2>2. MayLoad(rank, r, head, Walk!Begun(walk[r], "forward"))
      BY <1>1, <1>2, FindFirstMayLoad
    <2>3. Walk!Load(r, Walk!Begun(walk[r], "forward"))
      BY <1>1, <1>2, <2>2, LoadLoads DEF FindFirst
    <2>4. QED
      BY <2>1, <2>3 DEF Walk!Begin
  <1>3. CASE FindNext(r)
    <2>1. walk[r].dir \in Walk!Directions
      BY <1>1, <1>3 DEF FindNext, ReaderInv, Walk!Directions
    <2>2. MayLoad(rank, r, pos[r], walk[r])
      BY <1>1, <1>3, FindNextMayLoad
    <2>3. Walk!Load(r, walk[r])
      BY <1>1, <1>3, <2>2, LoadLoads DEF FindNext
    <2>4. QED
      BY <2>1, <2>3 DEF Walk!Advance
  <1>4. QED
    BY <1>2, <1>3

LEMMA InsertionWrites ==
  ASSUME IInv, Insertion
  PROVE  Walk!Write
  <1>1. Content' = Content /\ UNCHANGED limbo /\ Walk!Observe
    BY InsertionStep
  <1>2. QED
    BY <1>1 DEF Walk!Write, Walk!Settle

LEMMA PublishWrites ==
  ASSUME IInv, Publish
  PROVE  Walk!Write
  <1>1. Walk!Relist(Linked \cup {newElem}) /\ newElem \in Nodes \ (Linked \cup limbo)
    BY PublishStep
  <1>2. UNCHANGED limbo /\ Walk!Observe
    BY DEF Publish
  <1>3. Walk!Insert(newElem)
    BY <1>1, <1>2, WalkLinked DEF Walk!Insert
  <1>4. QED
    BY <1>1, <1>2, <1>3 DEF Walk!Write

LEMMA UnlinkWrites ==
  ASSUME NEW S, S \in {{n} : n \in Linked} \cup {Linked}, NEW p, NEW q,
         Unlink(p, q, S), Walk!Relist(Linked \ S)
  PROVE  Walk!Write
  <1>1. limbo' = limbo \cup S /\ Walk!Observe
    BY DEF Unlink
  <1>2. Walk!Without(S)
    BY <1>1, WalkLinked DEF Walk!Without
  <1>3. Walk!TakeOut
    BY <1>2, WalkLinked DEF Walk!TakeOut
  <1>4. QED
    BY <1>1, <1>3 DEF Walk!Write

LEMMA RemovalWrites ==
  ASSUME IInv, Removal
  PROVE  Walk!Write
  <1>1. ASSUME NEW n \in Nodes, rcuSlistRemove(n) PROVE Walk!Write
    <2>1. n \in Linked /\ Walk!Relist(Linked \ {n})
      BY <1>1, RemoveStep
    <2>2. {n} \in {{m} : m \in Linked} \cup {Linked}
      BY <2>1
    <2>3. QED
      BY <1>1, <2>1, <2>2, UnlinkWrites DEF rcuSlistRemove
  <1>2. ASSUME NEW k \in Keys, rcuSlistRemoveIf(k) PROVE Walk!Write
    <2>1. \E n : rcuSlistRemove(n)
      BY <1>2 DEF rcuSlistRemoveIf
    <2>2. \E n \in Nodes : rcuSlistRemove(n)
      BY <2>1 DEF rcuSlistRemove, IInv, VarTypes
    <2>3. QED
      BY <1>1, <2>2
  <1>3. CASE rcuSlistReset
    <2>1. Walk!Relist(Linked \ Linked)
      BY <1>3, ResetStep
    <2>2. Linked \in {{m} : m \in Linked} \cup {Linked}
      OBVIOUS
    <2>3. QED
      BY <1>3, <2>1, <2>2, UnlinkWrites DEF rcuSlistReset
  <1>4. QED
    BY <1>1, <1>2, <1>3 DEF Removal

LEMMA GiveBackGivesBack ==
  ASSUME IInv, GiveBack
  PROVE  Walk!GiveBack
  <1>1. Content' = Content /\ \A r \in Readers : walk[r].possible \cap limbo = {}
    BY GiveBackStep
  <1>2. limbo' = limbo \ limbo /\ walk' = walk /\ limbo \in SUBSET limbo
    BY DEF GiveBack, readerVars
  <1>3. QED
    BY <1>1, <1>2 DEF Walk!GiveBack

(***************************************************************************)
(* Whatever the writer does to the nodes around it, a walk meets every     *)
(* node that stays in the list, once and in order, and a node is reused    *)
(* only when no section can hold it: for all numbers of readers and nodes, *)
(* every step of the list is a step of RListWalk, or none.                 *)
(***************************************************************************)
THEOREM SlistImplementsWalk == Spec => ImplementsWalk
  <1>1. Init => Walk!Init
    <2> SUFFICES ASSUME Init PROVE Walk!Init
      OBVIOUS
    <2>1. IInv /\ limbo = {} /\ \A n \in Nodes \cup {head} : next[n] = NULL
      BY InitIInv DEF Init
    <2>2. PICK rank : Ordered(next, rank, Linked, limbo)
      BY <2>1 DEF IInv, ListInv
    <2>3. Lists(Content, rank, Linked, head) /\ Content = BehindIn(next, head)
      BY <2>1, <2>2, BehindLists, BehindAlong DEF Content, IInv, VarTypes, NextType
    <2>4. Linked = {}
      <3>1. next[head] = NULL /\ \A x \in Linked : rank[head] < rank[x] /\ rank[x] <= rank[head]
        BY <2>1, <2>2 DEF Ordered, Leads
      <3>2. \A x \in Linked \cup {head} : rank[x] \in Int
        BY <2>2 DEF Ordered, Ranked
      <3>3. QED
        BY <3>1, <3>2
    <2>5. Content = <<>>
      <3>1. Len(Content) = 0 /\ DOMAIN Content = 1 .. Len(Content)
        BY <2>3, <2>4 DEF Lists
      <3>2. Content = [i \in DOMAIN Content |-> Content[i]]
        BY <2>3 DEF BehindIn
      <3>3. Content = [i \in 1 .. 0 |-> Content[i]]
        BY <3>1, <3>2
      <3>4. QED
        BY <3>3
    <2>6. QED
      BY <2>1, <2>5 DEF Init, Walk!Init
  <1>2. ASSUME IInv, [Next]_vars PROVE [Walk!Next]_(Walk!vars)
    <2>1. CASE Insertion \/ Publish \/ Removal
      BY <1>2, <2>1, InsertionWrites, PublishWrites, RemovalWrites DEF Walk!Next
    <2>2. CASE SyncStart \/ SyncEnd
      <3>1. UNCHANGED <<next, limbo, walk>>
        BY <2>2 DEF SyncStart, SyncEnd, listVars, readerVars
      <3>2. QED
        BY <3>1, SameContent DEF Walk!vars
    <2>3. CASE GiveBack
      BY <1>2, <2>3, GiveBackGivesBack DEF Walk!Next
    <2>4. ASSUME NEW r \in Readers, Reader(r) PROVE Walk!Next
      <3>1. CASE ReadLock(r)
        BY <1>2, <3>1, ReadLockEnters DEF Walk!Next
      <3>2. CASE ReadUnlock(r)
        BY <1>2, <3>2, ReadUnlockLeaves DEF Walk!Next
      <3>3. CASE FindFirst(r) \/ FindNext(r)
        <4>1. Walk!Begin(r, "forward") \/ Walk!Advance(r)
          BY <1>2, <3>3, FindsWalk
        <4>2. "forward" \in Walk!Directions
          BY DEF Walk!Directions
        <4>3. QED
          BY <4>1, <4>2 DEF Walk!Next
      <3>4. QED
        BY <2>4, <3>1, <3>2, <3>3 DEF Reader
    <2>5. CASE UNCHANGED vars
      <3>1. UNCHANGED <<next, limbo, walk>>
        BY <2>5 DEF vars, listVars, readerVars
      <3>2. QED
        BY <3>1, SameContent DEF Walk!vars
    <2>6. QED
      BY <1>2, <2>1, <2>2, <2>3, <2>4, <2>5 DEF Next, Writer
  <1>3. QED
    BY <1>1, <1>2, IInvAlways, PTL DEF Spec, ImplementsWalk, Walk!Spec
=============================================================================
