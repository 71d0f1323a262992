--------------------------- MODULE RCUSizesProofs ---------------------------
(***************************************************************************)
(* Proofs about RCUSizes, for ints of 3 to 32 bits: what the shifts of     *)
(* upperBoundPowerOf2 leave, that masks are remainders, and the four       *)
(* invariants of the module.  Words are known by their bits (WordsExist,   *)
(* BitsInjective); a least counterexample takes the place of induction.    *)
(***************************************************************************)
EXTENDS RCUSizes, RankLemmas

LEMMA Width == W \in Nat /\ W >= 3 /\ W <= 32
  BY SizesAssumption

(***************************************************************************)
(* The recursive function has a value: powers of two.                      *)
(***************************************************************************)
LEMMA PowUnfolds ==
  /\ Pow \in [0 .. W -> Nat] /\ Pow[0] = 1
  /\ \A i \in 1 .. W : Pow[i] = 2 * Pow[i - 1]
  <1> DEFINE g == [x \in Nat |-> 2 * x]
  <1>0. W \in Nat
    BY Width
  <1>1. g \in [Nat -> Nat]
    OBVIOUS
  <1>2. PICK h : IsPath(Nat, g, 1, W, h)
    <2> HIDE DEF g
    <2>1. QED
      BY <1>0, <1>1, PathExists
  <1>3. h \in [0 .. W -> Nat] /\ h[0] = 1 /\ \A i \in 1 .. W : h[i] = g[h[i - 1]]
    BY <1>2 DEF IsPath
  <1>4. h = [i \in 0 .. W |-> IF i = 0 THEN 1 ELSE 2 * h[i - 1]]
    <2>1. ASSUME NEW i \in 0 .. W PROVE h[i] = IF i = 0 THEN 1 ELSE 2 * h[i - 1]
      <3>1. CASE i = 0
        BY <1>3, <3>1
      <3>2. CASE i # 0
        <4>1. i \in 1 .. W /\ i - 1 \in 0 .. W
          BY <1>0, <3>2
        <4>2. QED
          BY <1>3, <3>2, <4>1
      <3>3. QED
        BY <3>1, <3>2
    <2>2. QED
      BY <1>3, <2>1
  <1>5. Pow = [i \in 0 .. W |-> IF i = 0 THEN 1 ELSE 2 * Pow[i - 1]]
    BY <1>4 DEF Pow
  <1>6. \A i \in 0 .. W : Pow[i] = IF i = 0 THEN 1 ELSE 2 * Pow[i - 1]
    BY <1>5
  <1>7. ASSUME NEW i \in 0 .. W PROVE Pow[i] \in Nat
    <2> DEFINE Bad == {k \in 0 .. W : Pow[k] \notin Nat}
    <2>1. SUFFICES ASSUME Bad # {} PROVE FALSE
      OBVIOUS
    <2>2. PICK k \in Bad : \A j \in Bad : k <= j
      <3>1. Bad \in SUBSET (0 .. W)
        OBVIOUS
      <3> HIDE DEF Bad
      <3>2. QED
        BY <1>0, <2>1, <3>1, LeastIndex
    <2>3. k # 0
      BY <1>6, <2>2
    <2>4. k - 1 \in 0 .. W /\ k - 1 < k
      BY <1>0, <2>3
    <2>5. k - 1 \notin Bad
      <3> HIDE DEF Bad
      <3>1. k \in Int
        BY DEF Bad
      <3>2. QED
        BY <2>2, <2>4, <3>1
    <2>6. QED
      BY <1>6, <2>3, <2>4, <2>5
  <1>8. DOMAIN Pow = 0 .. W
    BY <1>5
  <1>9. QED
    <2>1. Pow = [i \in 0 .. W |-> Pow[i]]
      BY <1>5, <1>6
    <2>2. Pow \in [0 .. W -> Nat]
      BY <1>7, <2>1
    <2>3. ASSUME NEW i \in 1 .. W PROVE Pow[i] = 2 * Pow[i - 1]
      <3>1. i \in 0 .. W /\ i # 0
        BY <1>0
      <3>2. QED
        BY <1>6, <3>1
    <2>4. 0 \in 0 .. W
      BY <1>0
    <2>5. QED
      BY <1>6, <2>2, <2>3, <2>4

LEMMA PowPositive == \A i \in 0 .. W : Pow[i] \in Nat /\ Pow[i] >= 1
  <1> DEFINE Bad == {k \in 0 .. W : ~ (Pow[k] >= 1)}
  <1>0. W \in Nat /\ \A i \in 0 .. W : Pow[i] \in Nat
    BY Width, PowUnfolds
  <1>1. SUFFICES ASSUME Bad # {} PROVE FALSE
    BY <1>0
  <1>2. PICK k \in Bad : \A j \in Bad : k <= j
    <2>1. Bad \in SUBSET (0 .. W)
      OBVIOUS
    <2> HIDE DEF Bad
    <2>2. QED
      BY <1>0, <1>1, <2>1, LeastIndex
  <1>3. k # 0
    BY PowUnfolds, <1>2
  <1>4. k - 1 \in 0 .. W /\ k \in 1 .. W /\ k - 1 < k
    BY <1>0, <1>3
  <1>5. k - 1 \notin Bad
    <2> HIDE DEF Bad
    <2>1. QED
      BY <1>2, <1>4
  <1>6. Pow[k] = 2 * Pow[k - 1] /\ Pow[k] \in Nat /\ Pow[k - 1] \in Nat
    BY <1>0, <1>4, PowUnfolds
  <1>7. QED
    BY <1>4, <1>5, <1>6

LEMMA PowGrows ==
  \A i, j \in 0 .. W : i < j => 2 * Pow[i] <= Pow[j]
  <1>0. W \in Nat /\ \A i \in 0 .. W : Pow[i] \in Nat
    BY Width, PowPositive
  <1>1. SUFFICES ASSUME NEW i \in 0 .. W PROVE \A j \in 0 .. W : i < j => 2 * Pow[i] <= Pow[j]
    OBVIOUS
  <1> DEFINE Bad == {k \in 0 .. W : i < k /\ ~ (2 * Pow[i] <= Pow[k])}
  <1>2. SUFFICES ASSUME Bad # {} PROVE FALSE
    OBVIOUS
  <1>3. PICK k \in Bad : \A j \in Bad : k <= j
    <2>1. Bad \in SUBSET (0 .. W)
      OBVIOUS
    <2> HIDE DEF Bad
    <2>2. QED
      BY <1>0, <1>2, <2>1, LeastIndex
  <1>4. k - 1 \in 0 .. W /\ k \in 1 .. W /\ k - 1 < k /\ i <= k - 1
    BY <1>0, <1>3
  <1>5. k - 1 \notin Bad
    <2> HIDE DEF Bad
    <2>1. QED
      BY <1>3, <1>4
  <1>6. Pow[k] = 2 * Pow[k - 1] /\ Pow[k] \in Nat /\ Pow[k - 1] \in Nat /\ Pow[i] \in Nat
    BY <1>0, <1>4, PowUnfolds
  <1>7. CASE i = k - 1
    BY <1>3, <1>6, <1>7
  <1>8. CASE i < k - 1
    BY <1>3, <1>4, <1>5, <1>6, <1>8
  <1>9. QED
    BY <1>4, <1>7, <1>8

LEMMA DivMod ==
  ASSUME NEW x \in Nat, NEW p \in Nat, p > 0
  PROVE  /\ x \div p \in Nat /\ (x % p) \in 0 .. p - 1
         /\ x = p * (x \div p) + (x % p)
  OBVIOUS

LEMMA DivUnique ==
  ASSUME NEW p \in Nat, p > 0, NEW q \in Nat, NEW r \in 0 .. p - 1
  PROVE  (p * q + r) \div p = q /\ (p * q + r) % p = r
  OBVIOUS

LEMMA ShiftOnce ==
  ASSUME NEW x \in Nat, NEW i \in 0 .. W - 1
  PROVE  x \div Pow[i + 1] = (x \div Pow[i]) \div 2
  <1>0. W \in Nat /\ i \in 0 .. W /\ i + 1 \in 1 .. W
    BY Width
  <1>1. PICK p \in Nat : p = Pow[i] /\ p >= 1 /\ Pow[i + 1] = 2 * p
    <2>1. Pow[i + 1] = 2 * Pow[(i + 1) - 1] /\ (i + 1) - 1 = i
      BY <1>0, PowUnfolds
    <2>2. QED
      BY <1>0, <2>1, PowPositive
  <1>2. PICK q \in Nat, r \in 0 .. p - 1 : q = x \div p /\ x = p * q + r
    <2>1. p > 0
      BY <1>1
    <2>2. x \div p \in Nat /\ (x % p) \in 0 .. p - 1 /\ x = p * (x \div p) + (x % p)
      BY <2>1, DivMod
    <2>3. QED
      BY <2>2
  <1>3. PICK h \in Nat, b \in 0 .. 1 : h = q \div 2 /\ q = 2 * h + b
    BY DivMod
  <1>4. x = (2 * p) * h + (p * b + r) /\ p * b + r \in 0 .. 2 * p - 1
    <2>1. p * q = (2 * p) * h + p * b
      BY <1>3
    <2>2. b = 0 \/ b = 1
      BY <1>3
    <2>3. p * b \in Nat /\ p * b <= p
      BY <2>2
    <2>4. (2 * p) * h \in Nat
      OBVIOUS
    <2>5. QED
      BY <1>2, <2>1, <2>3, <2>4
  <1>5. x \div (2 * p) = h
    <2>1. PICK s \in 0 .. 2 * p - 1 : s = p * b + r
      BY <1>4
    <2>2. PICK d \in Nat : d = 2 * p /\ d > 0
      BY <1>1
    <2>3. x = d * h + s /\ s \in 0 .. d - 1
      BY <1>4, <2>1, <2>2
    <2>4. QED
      BY <2>2, <2>3, DivUnique
  <1>6. QED
    BY <1>1, <1>2, <1>3, <1>5

LEMMA ShiftDomain ==
  ASSUME NEW x \in Nat, NEW i \in 0 .. W
  PROVE  /\ x \div Pow[i] \in Nat
         /\ x < Pow[i] <=> x \div Pow[i] = 0
  <1>1. PICK p \in Nat : p = Pow[i] /\ p > 0
    BY PowPositive
  <1>2. PICK q \in Nat, r \in 0 .. p - 1 : q = x \div p /\ x = p * q + r
    <2>1. x \div p \in Nat /\ (x % p) \in 0 .. p - 1 /\ x = p * (x \div p) + (x % p)
      BY <1>1, DivMod
    <2>2. QED
      BY <2>1
  <1>3. q # 0 => p * q >= p
    BY <1>1
  <1>4. q = 0 => p * q = 0
    OBVIOUS
  <1>5. p * q \in Nat
    OBVIOUS
  <1>6. x < p <=> q = 0
    BY <1>2, <1>3, <1>4, <1>5
  <1>7. QED
    BY <1>1, <1>2, <1>6

LEMMA ShiftNone == \A x \in Nat : x \div Pow[0] = x
  <1>1. Pow[0] = 1
    BY PowUnfolds
  <1>2. QED
    BY <1>1

LEMMA ShiftHalves ==
  ASSUME NEW x \in Nat, NEW i \in 0 .. W - 1
  PROVE  /\ i \in 0 .. W /\ i + 1 \in 0 .. W
         /\ x \div Pow[i] \in Nat /\ x \div Pow[i + 1] \in Nat
         /\ ((x \div Pow[i]) % 2) \in 0 .. 1
         /\ x \div Pow[i] = 2 * (x \div Pow[i + 1]) + ((x \div Pow[i]) % 2)
  <1>1. i \in 0 .. W /\ i + 1 \in 0 .. W
    BY Width
  <1>2. PICK q \in Nat : q = x \div Pow[i]
    BY <1>1, ShiftDomain
  <1>3. (q % 2) \in 0 .. 1 /\ q = 2 * (q \div 2) + (q % 2)
    BY DivMod
  <1>4. QED
    BY <1>1, <1>2, <1>3, ShiftOnce, ShiftDomain

(***************************************************************************)
(* Shifts add up.                                                          *)
(***************************************************************************)
LEMMA ShiftTwice ==
  ASSUME NEW x \in Nat, NEW i \in 0 .. W, NEW j \in 0 .. W - i
  PROVE  (x \div Pow[i]) \div Pow[j] = x \div Pow[i + j]
  <1> DEFINE Bad == {k \in 0 .. W - i : (x \div Pow[i]) \div Pow[k] # x \div Pow[i + k]}
  <1>0. W \in Nat /\ W - i \in Nat
    BY Width
  <1>1. SUFFICES ASSUME Bad # {} PROVE FALSE
    OBVIOUS
  <1>2. PICK k \in Bad : \A l \in Bad : k <= l
    <2>1. Bad \in SUBSET (0 .. W - i)
      OBVIOUS
    <2> HIDE DEF Bad
    <2>2. QED
      BY <1>0, <1>1, <2>1, LeastIndex
  <1>3. x \div Pow[i] \in Nat
    BY ShiftDomain
  <1>4. k # 0
    <2>1. (x \div Pow[i]) \div Pow[0] = x \div Pow[i] /\ i + 0 = i
      BY <1>3, ShiftNone
    <2>2. QED
      BY <1>2, <2>1
  <1>5. k - 1 \in 0 .. W - i /\ k - 1 \in 0 .. W - 1 /\ i + (k - 1) \in 0 .. W - 1 /\ k - 1 < k
        /\ (k - 1) + 1 = k /\ (i + (k - 1)) + 1 = i + k
    BY <1>0, <1>4
  <1>6. k - 1 \notin Bad
    <2> HIDE DEF Bad
    <2>1. QED
      BY <1>2, <1>5
  <1>7. (x \div Pow[i]) \div Pow[k] = ((x \div Pow[i]) \div Pow[k - 1]) \div 2
    <2>1. (x \div Pow[i]) \div Pow[(k - 1) + 1] = ((x \div Pow[i]) \div Pow[k - 1]) \div 2
      BY <1>3, <1>5, ShiftOnce
    <2>2. QED
      BY <1>5, <2>1
  <1>8. x \div Pow[i + k] = (x \div Pow[i + (k - 1)]) \div 2
    <2>1. x \div Pow[(i + (k - 1)) + 1] = (x \div Pow[i + (k - 1)]) \div 2
      BY <1>5, ShiftOnce
    <2>2. QED
      BY <1>5, <2>1
  <1>9. (x \div Pow[i]) \div Pow[k - 1] = x \div Pow[i + (k - 1)]
    BY <1>5, <1>6
  <1>10. QED
    BY <1>2, <1>7, <1>8, <1>9

-----------------------------------------------------------------------------

LEMMA BitsOf ==
  ASSUME NEW x \in Words
  PROVE  /\ x \in Nat /\ Bits[x] \in SUBSET (0 .. W - 1)
         /\ \A i \in 0 .. W - 1 : i \in Bits[x] <=> (x \div Pow[i]) % 2 = 1
  <1>1. x \in Nat
    <2>1. W \in 0 .. W
      BY Width
    <2>2. Pow[W] \in Nat
      BY <2>1, PowPositive
    <2>3. QED
      BY <2>2 DEF Words
  <1>2. Bits[x] = {i \in 0 .. W - 1 : (x \div Pow[i]) % 2 = 1}
    BY DEF Bits
  <1>3. QED
    BY <1>1, <1>2

LEMMA WordsAre == \A x \in Nat : x \in Words <=> x < Pow[W]
  <1>1. W \in 0 .. W
    BY Width
  <1>2. Pow[W] \in Nat
    BY <1>1, PowPositive
  <1>3. QED
    BY <1>2 DEF Words

(***************************************************************************)
(* A word is determined by the places of its ones.                         *)
(***************************************************************************)
LEMMA BitsInjective ==
  ASSUME NEW x \in Words, NEW y \in Words, Bits[x] = Bits[y]
  PROVE  x = y
  <1> DEFINE Bad == {i \in 0 .. W : x \div Pow[i] # y \div Pow[i]}
  <1>0. W \in Nat /\ x \in Nat /\ y \in Nat /\ 0 \in 0 .. W /\ W \in 0 .. W
    BY Width, BitsOf
  <1>1. ASSUME Bad # {} PROVE FALSE
    <2>1. PICK k \in Bad : \A j \in Bad : j <= k
      <3>1. Bad \in SUBSET (0 .. W)
        OBVIOUS
      <3> HIDE DEF Bad
      <3>2. QED
        BY <1>0, <1>1, <3>1, LeastIndex
    <2>2. k # W
      <3>1. x \div Pow[W] = 0 /\ y \div Pow[W] = 0
        BY <1>0, WordsAre, ShiftDomain
      <3>2. QED
        BY <2>1, <3>1
    <2>3. k \in 0 .. W - 1 /\ k + 1 \in 0 .. W /\ k < k + 1
      BY <1>0, <2>2
    <2>4. k + 1 \notin Bad
      <3> HIDE DEF Bad
      <3>1. QED
        BY <2>1, <2>3
    <2>5. x \div Pow[k + 1] = y \div Pow[k + 1]
      BY <2>3, <2>4
    <2>6. (x \div Pow[k]) % 2 = 1 <=> (y \div Pow[k]) % 2 = 1
      BY <2>3, BitsOf
    <2>7. /\ ((x \div Pow[k]) % 2) \in 0 .. 1
          /\ x \div Pow[k] = 2 * (x \div Pow[k + 1]) + ((x \div Pow[k]) % 2)
      BY <1>0, <2>3, ShiftHalves
    <2>8. /\ ((y \div Pow[k]) % 2) \in 0 .. 1
          /\ y \div Pow[k] = 2 * (y \div Pow[k + 1]) + ((y \div Pow[k]) % 2)
      BY <1>0, <2>3, ShiftHalves
    <2>9. (x \div Pow[k]) % 2 = (y \div Pow[k]) % 2
      BY <2>6, <2>7, <2>8
    <2>10. x \div Pow[k] = y \div Pow[k]
      BY <2>5, <2>7, <2>8, <2>9
    <2>11. QED
      BY <2>1, <2>10
  <1>2. x \div Pow[0] = y \div Pow[0]
    BY <1>0, <1>1
  <1>3. QED
    BY <1>0, <1>2, ShiftNone

(***************************************************************************)
(* A shift of a multiple of a power of two and a remainder.                *)
(***************************************************************************)
LEMMA ShiftSum ==
  ASSUME NEW k \in 0 .. W, NEW q \in Nat, NEW r \in Nat, NEW i \in 0 .. k
  PROVE  (Pow[k] * q + r) \div Pow[i] = Pow[k - i] * q + (r \div Pow[i])
  <1> DEFINE Bad == {j \in 0 .. k :
                (Pow[k] * q + r) \div Pow[j] # Pow[k - j] * q + (r \div Pow[j])}
  <1>0. W \in Nat /\ k \in Nat /\ Pow[k] \in Nat
    BY Width, PowPositive
  <1>1. PICK x \in Nat : x = Pow[k] * q + r
    BY <1>0
  <1>2. SUFFICES ASSUME Bad # {} PROVE FALSE
    OBVIOUS
  <1>3. PICK j \in Bad : \A l \in Bad : j <= l
    <2>1. Bad \in SUBSET (0 .. k)
      OBVIOUS
    <2> HIDE DEF Bad
    <2>2. QED
      BY <1>0, <1>2, <2>1, LeastIndex
  <1>4. j # 0
    <2>1. x \div Pow[0] = x /\ r \div Pow[0] = r
      BY ShiftNone
    <2>2. k - 0 = k
      BY <1>0
    <2>3. 0 \notin Bad
      BY <1>1, <2>1, <2>2
    <2>4. QED
      BY <1>3, <2>3
  <1>5. /\ j - 1 \in 0 .. k /\ j - 1 < j /\ j - 1 \in 0 .. W - 1 /\ (j - 1) + 1 = j
        /\ k - j \in 0 .. W /\ k - (j - 1) \in 1 .. W /\ (k - (j - 1)) - 1 = k - j
    BY <1>0, <1>4
  <1>6. j - 1 \notin Bad
    <2> HIDE DEF Bad
    <2>1. QED
      BY <1>3, <1>5
  <1>7. x \div Pow[j - 1] = Pow[k - (j - 1)] * q + (r \div Pow[j - 1])
    BY <1>1, <1>5, <1>6
  <1>8. PICK p \in Nat : p = Pow[k - j] /\ Pow[k - (j - 1)] = 2 * p
    <2>1. Pow[k - j] \in Nat
      BY <1>5, PowPositive
    <2>2. Pow[k - (j - 1)] = 2 * Pow[(k - (j - 1)) - 1]
      BY <1>5, PowUnfolds
    <2>3. QED
      BY <1>5, <2>1, <2>2
  <1>9. PICK s \in Nat : s = r \div Pow[j - 1]
    <2>1. j - 1 \in 0 .. W
      BY <1>0, <1>5
    <2>2. QED
      BY <2>1, ShiftDomain
  <1>10. x \div Pow[j] = (x \div Pow[j - 1]) \div 2 /\ r \div Pow[j] = s \div 2
    <2>1. x \div Pow[(j - 1) + 1] = (x \div Pow[j - 1]) \div 2
      BY <1>5, ShiftOnce
    <2>2. r \div Pow[(j - 1) + 1] = (r \div Pow[j - 1]) \div 2
      BY <1>5, ShiftOnce
    <2>3. QED
      BY <1>5, <1>9, <2>1, <2>2
  <1>11. ((2 * p) * q + s) \div 2 = p * q + (s \div 2)
    <2>1. PICK m \in Nat : m = p * q
      OBVIOUS
    <2>2. (2 * p) * q = 2 * m
      BY <2>1
    <2>3. (2 * m + s) \div 2 = m + (s \div 2)
      OBVIOUS
    <2>4. QED
      BY <2>1, <2>2, <2>3
  <1>12. x \div Pow[j] = p * q + (r \div Pow[j])
    BY <1>7, <1>8, <1>9, <1>10, <1>11
  <1>13. QED
    BY <1>1, <1>3, <1>8, <1>12

(***************************************************************************)
(* The places below k hold the remainder, whatever the multiple is.        *)
(***************************************************************************)
LEMMA LowBits ==
  ASSUME NEW k \in 0 .. W, NEW q \in Nat, NEW r \in Nat, r < Pow[k],
         Pow[k] * q + r \in Words
  PROVE  r \in Words /\ Bits[r] = Bits[Pow[k] * q + r] \cap (0 .. k - 1)
  <1>0. W \in Nat /\ W \in 0 .. W /\ Pow[k] \in Nat /\ Pow[W] \in Nat /\ k \in Nat /\ k <= W
    BY Width, PowPositive
  <1>1. PICK x \in Words : x = Pow[k] * q + r
    OBVIOUS
  <1>2. r \in Words
    <2>1. k < W => 2 * Pow[k] <= Pow[W]
      BY <1>0, PowGrows
    <2>2. r < Pow[W]
      BY <1>0, <2>1
    <2>3. QED
      BY <2>2, WordsAre
  <1>3. ASSUME NEW i \in 0 .. W - 1, i < k
        PROVE  i \in Bits[r] <=> i \in Bits[x]
    <2>1. i \in 0 .. k /\ k - i \in 1 .. W /\ (k - i) - 1 \in 0 .. W /\ i \in 0 .. W
      BY <1>0, <1>3
    <2>2. x \div Pow[i] = Pow[k - i] * q + (r \div Pow[i])
      BY <1>1, <2>1, ShiftSum
    <2>3. PICK p \in Nat : Pow[k - i] = 2 * p
      BY <2>1, PowUnfolds, PowPositive
    <2>4. PICK s \in Nat : s = r \div Pow[i]
      BY <2>1, ShiftDomain
    <2>5. ((2 * p) * q + s) % 2 = s % 2
      <3>1. PICK m \in Nat : m = p * q
        OBVIOUS
      <3>2. (2 * p) * q = 2 * m
        BY <3>1
      <3>3. (2 * m + s) % 2 = s % 2
        OBVIOUS
      <3>4. QED
        BY <3>2, <3>3
    <2>6. (x \div Pow[i]) % 2 = (r \div Pow[i]) % 2
      BY <2>2, <2>3, <2>4, <2>5
    <2>7. QED
      BY <1>2, <2>6, BitsOf
  <1>4. ASSUME NEW i \in 0 .. W - 1, k <= i
        PROVE  i \notin Bits[r]
    <2>1. i \in 0 .. W
      BY <1>0
    <2>2. k < i => 2 * Pow[k] <= Pow[i]
      BY <2>1, PowGrows
    <2>3. Pow[i] \in Nat
      BY <2>1, PowPositive
    <2>4. r < Pow[i]
      BY <1>0, <1>4, <2>2, <2>3
    <2>5. r \div Pow[i] = 0
      BY <2>1, <2>4, ShiftDomain
    <2>6. (r \div Pow[i]) % 2 # 1
      BY <2>5
    <2>7. QED
      BY <1>2, <2>6, BitsOf
  <1>5. \A i \in 0 .. W - 1 : i \in Bits[r] <=> (i \in Bits[x] /\ i \in 0 .. k - 1)
    <2>1. SUFFICES ASSUME NEW i \in 0 .. W - 1
                   PROVE  i \in Bits[r] <=> (i \in Bits[x] /\ i \in 0 .. k - 1)
      OBVIOUS
    <2>2. CASE i < k
      BY <1>0, <1>3, <2>2
    <2>3. CASE k <= i
      BY <1>0, <1>4, <2>3
    <2>4. QED
      BY <1>0, <2>2, <2>3
  <1>6. Bits[r] \in SUBSET (0 .. W - 1) /\ Bits[x] \in SUBSET (0 .. W - 1)
    BY <1>2, BitsOf
  <1>7. Bits[r] = Bits[x] \cap (0 .. k - 1)
    BY <1>5, <1>6
  <1>8. QED
    BY <1>1, <1>2, <1>7

(***************************************************************************)
(* Every set of places is that of the ones of a word.                      *)
(***************************************************************************)
LEMMA WordsExist ==
  ASSUME NEW S \in SUBSET (0 .. W - 1)
  PROVE  Word[S] \in Words /\ Bits[Word[S]] = S
  <1> DEFINE Good(k) == \A T \in SUBSET (0 .. k - 1) :
                          \E x \in Words : x < Pow[k] /\ Bits[x] = T
             Bad == {k \in 0 .. W : ~Good(k)}
  <1>0. W \in Nat /\ W \in 0 .. W
    BY Width
  <1>1. ASSUME Bad # {} PROVE FALSE
    <2>1. PICK k \in Bad : \A l \in Bad : k <= l
      <3>1. Bad \in SUBSET (0 .. W)
        OBVIOUS
      <3> HIDE DEF Bad
      <3>2. QED
        BY <1>0, <1>1, <3>1, LeastIndex
    <2>2. k \in 0 .. W /\ ~Good(k)
      OBVIOUS
    <2>3. k # 0
      <3>1. Good(0)
        <4>1. Pow[0] = 1 /\ 0 \in 0 .. W /\ Pow[W] \in Nat /\ Pow[W] >= 1
          BY <1>0, PowUnfolds, PowPositive
        <4>2. 0 \in Words
          BY <4>1, WordsAre
        <4>3. Bits[0] = {}
          <5>1. \A i \in 0 .. W - 1 : (0 \div Pow[i]) % 2 # 1
            <6>1. SUFFICES ASSUME NEW i \in 0 .. W - 1 PROVE (0 \div Pow[i]) % 2 # 1
              OBVIOUS
            <6>2. i \in 0 .. W
              BY <1>0
            <6>3. Pow[i] \in Nat /\ Pow[i] >= 1
              BY <6>2, PowPositive
            <6>4. 0 \div Pow[i] = 0
              BY <6>2, <6>3, ShiftDomain
            <6>5. QED
              BY <6>4
          <5>2. QED
            BY <4>2, <5>1, BitsOf
        <4>4. SUFFICES ASSUME NEW T \in SUBSET (0 .. 0 - 1)
                       PROVE  \E x \in Words : x < Pow[0] /\ Bits[x] = T
          OBVIOUS
        <4>5. T = {}
          OBVIOUS
        <4>6. 0 < Pow[0]
          BY <4>1
        <4>7. QED
          BY <4>2, <4>3, <4>5, <4>6
      <3>2. QED
        BY <2>2, <3>1
    <2>4. k - 1 \in 0 .. W - 1 /\ k - 1 \in 0 .. W /\ k - 1 < k /\ (k - 1) + 1 = k
      BY <1>0, <2>2, <2>3
    <2>5. Good(k - 1)
      <3>1. k - 1 \notin Bad
        <4> HIDE DEF Bad, Good
        <4>1. QED
          BY <2>1, <2>2, <2>4
      <3> HIDE DEF Good
      <3>2. QED
        BY <2>4, <3>1
    <2>6. PICK p \in Nat : p = Pow[k - 1] /\ p >= 1 /\ Pow[k] = 2 * p /\ Pow[k] <= Pow[W]
                           /\ Pow[W] \in Nat
      <3>1. k \in 1 .. W
        BY <1>0, <2>2, <2>3
      <3>2. k < W => 2 * Pow[k] <= Pow[W]
        BY <1>0, <2>2, PowGrows
      <3>3. Pow[W] \in Nat /\ Pow[k] \in Nat /\ Pow[k - 1] \in Nat /\ Pow[k - 1] >= 1
        BY <1>0, <2>2, <2>4, PowPositive
      <3>4. Pow[k] = 2 * Pow[k - 1]
        BY <3>1, PowUnfolds
      <3>5. Pow[k] <= Pow[W]
        BY <1>0, <2>2, <3>2, <3>3
      <3>6. QED
        BY <3>3, <3>4, <3>5
    <2>7. ASSUME NEW T \in SUBSET (0 .. k - 1)
          PROVE  \E x \in Words : x < Pow[k] /\ Bits[x] = T
      <3>1. PICK r \in Words : r < p /\ Bits[r] = T \ {k - 1}
        <4>1. T \ {k - 1} \in SUBSET (0 .. (k - 1) - 1)
          BY <2>4
        <4>2. QED
          BY <2>5, <2>6, <4>1
      <3>2. r \in Nat
        BY BitsOf
      <3>3. CASE k - 1 \notin T
        <4>1. T \ {k - 1} = T
          BY <3>3
        <4>2. r < Pow[k]
          BY <2>6, <3>1, <3>2
        <4>3. QED
          BY <3>1, <4>1, <4>2
      <3>4. CASE k - 1 \in T
        <4>1. PICK x \in Nat : x = p * 1 + r /\ x < Pow[k]
          BY <2>6, <3>1, <3>2
        <4>2. x \in Words
          BY <2>6, <4>1, WordsAre
        <4>3. Bits[r] = Bits[x] \cap (0 .. (k - 1) - 1)
          <5>1. r < Pow[k - 1] /\ Pow[k - 1] * 1 + r \in Words
            BY <2>6, <3>1, <4>1, <4>2
          <5>2. Bits[r] = Bits[Pow[k - 1] * 1 + r] \cap (0 .. (k - 1) - 1)
            BY <2>4, <3>2, <5>1, LowBits
          <5>3. QED
            BY <2>6, <4>1, <5>2
        <4>4. k - 1 \in Bits[x]
          <5>1. x \div p = 1
            <6>1. (p * 1 + r) \div p = 1
              <7>1. r \in 0 .. p - 1 /\ p > 0 /\ 1 \in Nat
                BY <2>6, <3>1, <3>2
              <7>2. QED
                BY <7>1, DivUnique
            <6>2. QED
              BY <4>1, <6>1
          <5>2. (x \div Pow[k - 1]) % 2 = 1
            BY <2>6, <5>1
          <5>3. QED
            BY <2>4, <4>2, <5>2, BitsOf
        <4>5. \A i \in 0 .. W - 1 : k <= i => i \notin Bits[x]
          <5>1. SUFFICES ASSUME NEW i \in 0 .. W - 1, k <= i PROVE i \notin Bits[x]
            OBVIOUS
          <5>2. i \in 0 .. W
            BY <1>0
          <5>3. k < i => 2 * Pow[k] <= Pow[i]
            BY <2>2, <5>2, PowGrows
          <5>4. Pow[i] \in Nat
            BY <5>2, PowPositive
          <5>5. x < Pow[i]
            BY <1>0, <2>6, <4>1, <5>1, <5>3, <5>4
          <5>6. x \div Pow[i] = 0
            BY <5>2, <5>5, ShiftDomain
          <5>7. (x \div Pow[i]) % 2 # 1
            BY <5>6
          <5>8. QED
            BY <4>2, <5>7, BitsOf
        <4>6. Bits[x] \in SUBSET (0 .. W - 1)
          BY <4>2, BitsOf
        <4>7. Bits[x] \subseteq 0 .. k - 1
          BY <1>0, <2>2, <4>5, <4>6
        <4>8. 0 .. k - 1 = (0 .. (k - 1) - 1) \cup {k - 1}
          BY <2>4
        <4>9. Bits[x] = (T \ {k - 1}) \cup {k - 1}
          <5> HIDE DEF Good, Bad
          <5>1. QED
            BY <3>1, <4>3, <4>4, <4>7, <4>8
        <4>10. Bits[x] = T
          BY <3>4, <4>9
        <4>11. QED
          BY <4>1, <4>2, <4>10
      <3>5. QED
        BY <3>3, <3>4
    <2>8. QED
      BY <2>2, <2>7
  <1>2. Good(W)
    BY <1>0, <1>1
  <1>3. \E x \in Words : Bits[x] = S
    BY <1>2
  <1> HIDE DEF Good, Bad
  <1>4. Word[S] = CHOOSE x \in Words : Bits[x] = S
    BY DEF Word
  <1>5. QED
    BY <1>3, <1>4

LEMMA OrBits ==
  ASSUME NEW x \in Words, NEW y \in Words
  PROVE  (x | y) \in Words /\ Bits[x | y] = Bits[x] \cup Bits[y]
  <1>1. Bits[x] \cup Bits[y] \in SUBSET (0 .. W - 1)
    BY BitsOf
  <1>2. QED
    BY <1>1, WordsExist DEF |

LEMMA AndBits ==
  ASSUME NEW x \in Words, NEW y \in Words
  PROVE  (x & y) \in Words /\ Bits[x & y] = Bits[x] \cap Bits[y]
  <1>1. Bits[x] \cap Bits[y] \in SUBSET (0 .. W - 1)
    BY BitsOf
  <1>2. QED
    BY <1>1, WordsExist DEF &

-----------------------------------------------------------------------------
(* Masks.                                                                   *)

(***************************************************************************)
(* One less than a power of two has its ones at all the places below.      *)
(***************************************************************************)
LEMMA MaskShifted ==
  ASSUME NEW k \in 0 .. W, NEW i \in 0 .. k
  PROVE  (Pow[k] - 1) \div Pow[i] = Pow[k - i] - 1
  <1> DEFINE Bad == {j \in 0 .. k : (Pow[k] - 1) \div Pow[j] # Pow[k - j] - 1}
  <1>0. W \in Nat /\ k \in Nat
    BY Width
  <1>1. PICK x \in Nat : x = Pow[k] - 1
    BY PowPositive
  <1>2. SUFFICES ASSUME Bad # {} PROVE FALSE
    OBVIOUS
  <1>3. PICK j \in Bad : \A l \in Bad : j <= l
    <2>1. Bad \in SUBSET (0 .. k)
      OBVIOUS
    <2> HIDE DEF Bad
    <2>2. QED
      BY <1>0, <1>2, <2>1, LeastIndex
  <1>4. j # 0
    <2>1. x \div Pow[0] = x /\ k - 0 = k
      BY <1>0, ShiftNone
    <2>2. 0 \notin Bad
      BY <1>1, <2>1
    <2>3. QED
      BY <1>3, <2>2
  <1>5. /\ j - 1 \in 0 .. k /\ j - 1 < j /\ j - 1 \in 0 .. W - 1 /\ (j - 1) + 1 = j
        /\ k - j \in 0 .. W /\ k - (j - 1) \in 1 .. W /\ (k - (j - 1)) - 1 = k - j
    BY <1>0, <1>4
  <1>6. j - 1 \notin Bad
    <2> HIDE DEF Bad
    <2>1. QED
      BY <1>3, <1>5
  <1>7. x \div Pow[j - 1] = Pow[k - (j - 1)] - 1
    BY <1>1, <1>5, <1>6
  <1>8. PICK p \in Nat : p = Pow[k - j] /\ p >= 1 /\ Pow[k - (j - 1)] = 2 * p
    <2>1. Pow[k - j] \in Nat /\ Pow[k - j] >= 1
      BY <1>5, PowPositive
    <2>2. Pow[k - (j - 1)] = 2 * Pow[(k - (j - 1)) - 1]
      BY <1>5, PowUnfolds
    <2>3. QED
      BY <1>5, <2>1, <2>2
  <1>9. x \div Pow[j] = (x \div Pow[j - 1]) \div 2
    <2>1. x \div Pow[(j - 1) + 1] = (x \div Pow[j - 1]) \div 2
      BY <1>5, ShiftOnce
    <2>2. QED
      BY <1>5, <2>1
  <1>10. (2 * p - 1) \div 2 = p - 1
    BY <1>8
  <1>11. QED
    BY <1>1, <1>3, <1>7, <1>8, <1>9, <1>10

LEMMA MaskBits ==
  ASSUME NEW k \in 0 .. W
  PROVE  Pow[k] - 1 \in Words /\ Bits[Pow[k] - 1] = 0 .. k - 1
  <1>0. W \in Nat /\ W \in 0 .. W /\ k \in Nat /\ k <= W
    BY Width
  <1>1. PICK x \in Nat : x = Pow[k] - 1 /\ Pow[k] \in Nat /\ x < Pow[k]
    BY PowPositive
  <1>2. x \in Words
    <2>1. k < W => 2 * Pow[k] <= Pow[W]
      BY <1>0, PowGrows
    <2>2. Pow[W] \in Nat
      BY <1>0, PowPositive
    <2>3. x < Pow[W]
      BY <1>0, <1>1, <2>1, <2>2
    <2>4. QED
      BY <2>3, WordsAre
  <1>3. ASSUME NEW i \in 0 .. W - 1
        PROVE  i \in Bits[x] <=> i < k
    <2>1. CASE i < k
      <3>1. i \in 0 .. k /\ k - i \in 1 .. W /\ (k - i) - 1 \in 0 .. W
        BY <1>0, <2>1
      <3>2. x \div Pow[i] = Pow[k - i] - 1
        BY <1>1, <3>1, MaskShifted
      <3>3. PICK p \in Nat : Pow[k - i] = 2 * p /\ p >= 1
        BY <3>1, PowUnfolds, PowPositive
      <3>4. (2 * p - 1) % 2 = 1
        BY <3>3
      <3>5. (x \div Pow[i]) % 2 = 1
        BY <3>2, <3>3, <3>4
      <3>6. QED
        BY <1>2, <2>1, <3>5, BitsOf
    <2>2. CASE k <= i
      <3>1. i \in 0 .. W
        BY <1>0
      <3>2. k < i => 2 * Pow[k] <= Pow[i]
        BY <3>1, PowGrows
      <3>3. Pow[i] \in Nat
        BY <3>1, PowPositive
      <3>4. x < Pow[i]
        BY <1>0, <1>1, <2>2, <3>2, <3>3
      <3>5. x \div Pow[i] = 0
        BY <3>1, <3>4, ShiftDomain
      <3>6. (x \div Pow[i]) % 2 # 1
        BY <3>5
      <3>7. i \notin Bits[x]
        BY <1>2, <3>6, BitsOf
      <3>8. QED
        BY <1>0, <2>2, <3>7
    <2>3. QED
      BY <1>0, <2>1, <2>2
  <1>4. Bits[x] \in SUBSET (0 .. W - 1)
    BY <1>2, BitsOf
  <1>5. Bits[x] = 0 .. k - 1
    <2>1. \A i \in 0 .. W - 1 : i \in Bits[x] <=> i \in 0 .. k - 1
      BY <1>0, <1>3
    <2>2. 0 .. k - 1 \in SUBSET (0 .. W - 1)
      BY <1>0
    <2>3. QED
      BY <1>4, <2>1, <2>2, Zenon
  <1>6. QED
    BY <1>1, <1>2, <1>5

(***************************************************************************)
(* A mask of one less than a power of two takes the remainder.             *)
(***************************************************************************)
LEMMA MaskedIsMod ==
  ASSUME NEW x \in Words, NEW k \in 0 .. W
  PROVE  Masked(x, Pow[k]) = x % Pow[k] /\ (x % Pow[k]) \in 0 .. Pow[k] - 1
  <1>1. x \in Nat /\ Pow[k] \in Nat /\ Pow[k] >= 1
    BY BitsOf, PowPositive
  <1>2. PICK q \in Nat, r \in Nat : r = x % Pow[k] /\ r < Pow[k] /\ x = Pow[k] * q + r
    <2>1. x \div Pow[k] \in Nat /\ (x % Pow[k]) \in 0 .. Pow[k] - 1
          /\ x = Pow[k] * (x \div Pow[k]) + (x % Pow[k])
      <3>1. PICK p \in Nat : p = Pow[k] /\ p > 0
        BY <1>1
      <3>2. x \div p \in Nat /\ (x % p) \in 0 .. p - 1 /\ x = p * (x \div p) + (x % p)
        BY <1>1, <3>1, DivMod
      <3>3. QED
        BY <3>1, <3>2
    <2>2. (x % Pow[k]) \in Nat /\ x % Pow[k] < Pow[k]
      BY <1>1, <2>1
    <2>3. QED
      BY <2>1, <2>2
  <1>3. r \in Words /\ Bits[r] = Bits[x] \cap (0 .. k - 1)
    <2>1. Pow[k] * q + r \in Words
      BY <1>2
    <2>2. r \in Words /\ Bits[r] = Bits[Pow[k] * q + r] \cap (0 .. k - 1)
      BY <1>2, <2>1, LowBits
    <2>3. QED
      BY <1>2, <2>2
  <1>4. (x & (Pow[k] - 1)) \in Words /\ Bits[x & (Pow[k] - 1)] = Bits[x] \cap (0 .. k - 1)
    <2>1. Pow[k] - 1 \in Words /\ Bits[Pow[k] - 1] = 0 .. k - 1
      BY MaskBits
    <2>2. QED
      BY <2>1, AndBits
  <1>5. x & (Pow[k] - 1) = r
    BY <1>3, <1>4, BitsInjective
  <1>6. Masked(x, Pow[k]) = x & (Pow[k] - 1)
    BY <1>1 DEF Masked
  <1>7. QED
    BY <1>1, <1>2, <1>5, <1>6

-----------------------------------------------------------------------------
(* Rounding up.                                                             *)

LEMMA ShiftBits ==
  ASSUME NEW x \in Words, NEW s \in 0 .. W - 1
  PROVE  /\ x \div Pow[s] \in Words
         /\ \A i \in 0 .. W - 1 : i \in Bits[x \div Pow[s]] <=> i + s \in Bits[x]
  <1>0. W \in Nat /\ x \in Nat /\ s \in 0 .. W /\ W - s \in 0 .. W /\ s + (W - s) = W
        /\ W \in 0 .. W
    BY Width, BitsOf
  <1>1. PICK y \in Nat : y = x \div Pow[s]
    BY <1>0, ShiftDomain
  <1>2. y < Pow[W - s]
    <2>1. y \div Pow[W - s] = x \div Pow[s + (W - s)]
      <3>1. W - s \in 0 .. W - s
        BY <1>0
      <3>2. QED
        BY <1>0, <1>1, <3>1, ShiftTwice
    <2>2. x \div Pow[W] = 0
      BY <1>0, WordsAre, ShiftDomain
    <2>3. y \div Pow[W - s] = 0
      BY <1>0, <2>1, <2>2
    <2>4. QED
      BY <1>0, <2>3, ShiftDomain
  <1>3. \A i \in 0 .. W : W - s <= i => y < Pow[i]
    <2>1. SUFFICES ASSUME NEW i \in 0 .. W, W - s <= i PROVE y < Pow[i]
      OBVIOUS
    <2>2. W - s < i => 2 * Pow[W - s] <= Pow[i]
      BY <1>0, PowGrows
    <2>3. Pow[i] \in Nat /\ Pow[W - s] \in Nat
      BY <1>0, PowPositive
    <2>4. QED
      BY <1>0, <1>2, <2>1, <2>2, <2>3
  <1>4. y \in Words
    <2>1. y < Pow[W]
      BY <1>0, <1>3
    <2>2. QED
      BY <2>1, WordsAre
  <1>5. ASSUME NEW i \in 0 .. W - 1
        PROVE  i \in Bits[y] <=> i + s \in Bits[x]
    <2>1. CASE i + s \in 0 .. W - 1
      <3>1. i \in 0 .. W - s
        BY <1>0, <2>1
      <3>2. y \div Pow[i] = x \div Pow[s + i] /\ s + i = i + s
        BY <1>0, <1>1, <3>1, ShiftTwice
      <3>3. QED
        BY <1>4, <2>1, <3>2, BitsOf
    <2>2. CASE i + s \notin 0 .. W - 1
      <3>1. i \in 0 .. W /\ W - s <= i
        BY <1>0, <2>2
      <3>2. y \div Pow[i] = 0
        BY <1>3, <3>1, ShiftDomain
      <3>3. (y \div Pow[i]) % 2 # 1
        BY <3>2
      <3>4. i \notin Bits[y]
        BY <1>4, <3>3, BitsOf
      <3>5. i + s \notin Bits[x]
        BY <2>2, BitsOf
      <3>6. QED
        BY <3>4, <3>5
    <2>3. QED
      BY <2>1, <2>2
  <1>6. QED
    BY <1>1, <1>4, <1>5

LEMMA OrShiftedBits ==
  ASSUME NEW v \in Words, NEW s \in Nat
  PROVE  /\ OrShifted(v, s) \in Words
         /\ \A i \in 0 .. W - 1 :
              i \in Bits[OrShifted(v, s)] <=> (i \in Bits[v] \/ i + s \in Bits[v])
  <1>0. W \in Nat
    BY Width
  <1>1. CASE s < W
    <2>1. s \in 0 .. W - 1
      BY <1>0, <1>1
    <2>2. OrShifted(v, s) = (v | (v \div Pow[s]))
      BY <1>1 DEF OrShifted
    <2>3. v \div Pow[s] \in Words
      BY <2>1, ShiftBits
    <2>4. QED
      BY <2>1, <2>2, <2>3, ShiftBits, OrBits
  <1>2. CASE ~(s < W)
    <2>1. OrShifted(v, s) = (v | 0)
      BY <1>2 DEF OrShifted
    <2>2. PICK z \in Words : z = 0 /\ Bits[z] = {}
      <3>1. 0 \in 0 .. W /\ Pow[0] - 1 = 0 /\ 0 .. 0 - 1 = {}
        BY <1>0, PowUnfolds
      <3>2. QED
        BY <3>1, MaskBits
    <2>3. (v | z) \in Words /\ Bits[v | z] = Bits[v] \cup Bits[z]
      BY OrBits
    <2>4. \A i \in 0 .. W - 1 : i + s \notin Bits[v]
      <3>1. \A i \in 0 .. W - 1 : i + s \notin 0 .. W - 1
        BY <1>0, <1>2
      <3>2. QED
        BY <3>1, BitsOf
    <2>5. QED
      BY <2>1, <2>2, <2>3, <2>4
  <1>3. QED
    BY <1>1, <1>2

\* v has a one wherever u has one at the place or at one of the n - 1 above.
Spread(v, u, n) ==
  /\ v \in Words
  /\ \A i \in 0 .. W - 1 : i \in Bits[v] <=> \E j \in 0 .. n - 1 : i + j \in Bits[u]

LEMMA SpreadDoubles ==
  ASSUME NEW u \in Words, NEW v \in Words, NEW n \in Nat, Spread(v, u, n)
  PROVE  Spread(OrShifted(v, n), u, n + n)
  <1>0. W \in Nat
    BY Width
  <1>1. /\ OrShifted(v, n) \in Words
        /\ \A i \in 0 .. W - 1 :
              i \in Bits[OrShifted(v, n)] <=> (i \in Bits[v] \/ i + n \in Bits[v])
    BY OrShiftedBits
  <1>2. ASSUME NEW i \in 0 .. W - 1
        PROVE  i \in Bits[OrShifted(v, n)] <=> \E j \in 0 .. (n + n) - 1 : i + j \in Bits[u]
    <2>1. ASSUME NEW j \in 0 .. (n + n) - 1, i + j \in Bits[u]
          PROVE  i \in Bits[v] \/ i + n \in Bits[v]
      <3>1. CASE j < n
        <4>1. j \in 0 .. n - 1
          BY <3>1
        <4>2. QED
          BY <2>1, <4>1 DEF Spread
      <3>2. CASE n <= j
        <4>1. j - n \in 0 .. n - 1 /\ (i + n) + (j - n) = i + j
          BY <3>2
        <4>2. i + j \in 0 .. W - 1
          BY <2>1, BitsOf
        <4>3. i + n \in 0 .. W - 1
          BY <1>0, <3>2, <4>2
        <4>4. QED
          BY <2>1, <4>1, <4>3 DEF Spread
      <3>3. QED
        BY <3>1, <3>2
    <2>2. ASSUME i \in Bits[v] PROVE \E j \in 0 .. (n + n) - 1 : i + j \in Bits[u]
      <3>1. PICK j \in 0 .. n - 1 : i + j \in Bits[u]
        BY <2>2 DEF Spread
      <3>2. j \in 0 .. (n + n) - 1
        OBVIOUS
      <3>3. QED
        BY <3>1, <3>2
    <2>3. ASSUME i + n \in Bits[v] PROVE \E j \in 0 .. (n + n) - 1 : i + j \in Bits[u]
      <3>1. i + n \in 0 .. W - 1
        BY <2>3, BitsOf
      <3>2. PICK j \in 0 .. n - 1 : (i + n) + j \in Bits[u]
        BY <2>3, <3>1 DEF Spread
      <3>3. n + j \in 0 .. (n + n) - 1 /\ i + (n + j) = (i + n) + j
        OBVIOUS
      <3>4. QED
        BY <3>2, <3>3
    <2>4. QED
      BY <1>1, <2>1, <2>2, <2>3
  <1>3. QED
    BY <1>1, <1>2 DEF Spread

(***************************************************************************)
(* The shifts copy every one to all the places below it.                   *)
(***************************************************************************)
LEMMA SmearBits ==
  ASSUME NEW u \in Words
  PROVE  Spread(Smear(u), u, 32)
  <1> DEFINE v1 == OrShifted(u, 1)
             v2 == OrShifted(v1, 2)
             v3 == OrShifted(v2, 4)
             v4 == OrShifted(v3, 8)
             v5 == OrShifted(v4, 16)
  <1>1. Spread(u, u, 1)
    <2>1. \A i \in 0 .. W - 1 : \A j \in 0 .. 1 - 1 : i + j = i
      BY Width
    <2>2. 0 \in 0 .. 1 - 1
      OBVIOUS
    <2>3. QED
      BY <2>1, <2>2 DEF Spread
  <1>2. v1 \in Words /\ v2 \in Words /\ v3 \in Words /\ v4 \in Words
    <2>1. v1 \in Words
      BY OrShiftedBits
    <2> HIDE DEF v1
    <2>2. v2 \in Words
      BY <2>1, OrShiftedBits
    <2> HIDE DEF v2
    <2>3. v3 \in Words
      BY <2>2, OrShiftedBits
    <2> HIDE DEF v3
    <2>4. v4 \in Words
      BY <2>3, OrShiftedBits
    <2>5. QED
      BY <2>1, <2>2, <2>3, <2>4
  <1>3. Spread(v1, u, 2)
    <2>1. Spread(OrShifted(u, 1), u, 1 + 1)
      BY <1>1, SpreadDoubles
    <2>2. QED
      BY <2>1
  <1>4. Spread(v2, u, 4)
    <2> HIDE DEF v1
    <2>1. Spread(OrShifted(v1, 2), u, 2 + 2)
      BY <1>2, <1>3, SpreadDoubles
    <2>2. QED
      BY <2>1
  <1>5. Spread(v3, u, 8)
    <2> HIDE DEF v2
    <2>1. Spread(OrShifted(v2, 4), u, 4 + 4)
      BY <1>2, <1>4, SpreadDoubles
    <2>2. QED
      BY <2>1
  <1>6. Spread(v4, u, 16)
    <2> HIDE DEF v3
    <2>1. Spread(OrShifted(v3, 8), u, 8 + 8)
      BY <1>2, <1>5, SpreadDoubles
    <2>2. QED
      BY <2>1
  <1>7. Spread(v5, u, 32)
    <2> HIDE DEF v4
    <2>1. Spread(OrShifted(v4, 16), u, 16 + 16)
      BY <1>2, <1>6, SpreadDoubles
    <2>2. QED
      BY <2>1
  <1>8. QED
    BY <1>7 DEF Smear

LEMMA SmearZero == Smear(0) = 0
  <1>1. 0 \in 0 .. W /\ Pow[0] - 1 = 0 /\ 0 .. 0 - 1 = {} /\ W \in Nat
    BY Width, PowUnfolds
  <1>2. PICK z \in Words : z = 0 /\ Bits[z] = {}
    BY <1>1, MaskBits
  <1>3. Smear(z) \in Words /\ \A i \in 0 .. W - 1 : i \notin Bits[Smear(z)]
    BY <1>2, SmearBits DEF Spread
  <1>4. Bits[Smear(z)] = {}
    BY <1>3, BitsOf
  <1>5. QED
    BY <1>2, <1>3, <1>4, BitsInjective

LEMMA TopPlace ==
  ASSUME NEW u \in Words, u # 0
  PROVE  \E m \in 0 .. W - 1 : Pow[m] <= u /\ u < Pow[m + 1]
  <1> DEFINE Below == {i \in 0 .. W - 1 : Pow[i] <= u}
  <1>0. W \in Nat /\ W - 1 \in Nat /\ 0 \in 0 .. W - 1 /\ u \in Nat /\ Pow[0] = 1
    BY Width, BitsOf, PowUnfolds
  <1>1. 0 \in Below
    BY <1>0
  <1>2. PICK m \in Below : \A j \in Below : j <= m
    <2>1. Below \in SUBSET (0 .. W - 1) /\ Below # {}
      BY <1>1
    <2> HIDE DEF Below
    <2>2. QED
      BY <1>0, <2>1, LeastIndex
  <1>3. u < Pow[m + 1]
    <2>1. CASE m = W - 1
      <3>1. m + 1 = W
        BY <1>0, <2>1
      <3>2. QED
        BY <1>0, <3>1, WordsAre
    <2>2. CASE m # W - 1
      <3>1. m + 1 \in 0 .. W - 1 /\ ~(m + 1 <= m) /\ m + 1 \in 0 .. W
        BY <1>0, <2>2
      <3>2. m + 1 \notin Below
        <4> HIDE DEF Below
        <4>1. QED
          BY <1>2, <3>1
      <3>3. Pow[m + 1] \in Nat
        BY <3>1, PowPositive
      <3>4. QED
        BY <1>0, <3>1, <3>2, <3>3
    <2>3. QED
      BY <2>1, <2>2
  <1>4. QED
    BY <1>2, <1>3

(***************************************************************************)
(* Smearing a number fills the places up to the highest of its ones.       *)
(***************************************************************************)
LEMMA SmearFills ==
  ASSUME NEW u \in Words, NEW m \in 0 .. W - 1, Pow[m] <= u, u < Pow[m + 1]
  PROVE  Smear(u) = Pow[m + 1] - 1
  <1>0. W \in Nat /\ W <= 32 /\ u \in Nat /\ m \in 0 .. W /\ m + 1 \in 0 .. W
        /\ (m + 1) - 1 = m /\ Pow[m] \in Nat /\ Pow[m + 1] \in Nat
    BY Width, BitsOf, PowPositive
  <1>1. m \in Bits[u]
    <2>1. u \div Pow[m + 1] = 0 /\ u \div Pow[m] # 0
      BY <1>0, ShiftDomain
    <2>2. /\ ((u \div Pow[m]) % 2) \in 0 .. 1
          /\ u \div Pow[m] = 2 * (u \div Pow[m + 1]) + ((u \div Pow[m]) % 2)
      BY <1>0, ShiftHalves
    <2>3. (u \div Pow[m]) % 2 = 1
      BY <2>1, <2>2
    <2>4. QED
      BY <2>3, BitsOf
  <1>2. \A i \in Bits[u] : i <= m
    <2>1. SUFFICES ASSUME NEW i \in Bits[u], ~(i <= m) PROVE FALSE
      OBVIOUS
    <2>2. i \in 0 .. W - 1 /\ i \in 0 .. W /\ m + 1 <= i
      BY <1>0, <2>1, BitsOf
    <2>3. m + 1 < i => 2 * Pow[m + 1] <= Pow[i]
      BY <1>0, <2>2, PowGrows
    <2>4. Pow[i] \in Nat
      BY <2>2, PowPositive
    <2>5. u < Pow[i]
      BY <1>0, <2>2, <2>3, <2>4
    <2>6. u \div Pow[i] = 0
      BY <1>0, <2>2, <2>5, ShiftDomain
    <2>7. (u \div Pow[i]) % 2 # 1
      BY <2>6
    <2>8. QED
      BY <2>1, <2>2, <2>7, BitsOf
  <1>3. Spread(Smear(u), u, 32)
    BY SmearBits
  <1>4. \A i \in 0 .. W - 1 : i \in Bits[Smear(u)] <=> i \in 0 .. m
    <2>1. SUFFICES ASSUME NEW i \in 0 .. W - 1
                   PROVE  i \in Bits[Smear(u)] <=> i \in 0 .. m
      OBVIOUS
    <2>2. ASSUME i \in 0 .. m PROVE i \in Bits[Smear(u)]
      <3>1. m - i \in 0 .. 32 - 1 /\ i + (m - i) = m
        BY <1>0, <2>2
      <3>2. QED
        BY <1>1, <1>3, <3>1 DEF Spread
    <2>3. ASSUME i \in Bits[Smear(u)] PROVE i \in 0 .. m
      <3>1. PICK j \in 0 .. 32 - 1 : i + j \in Bits[u]
        BY <1>3, <2>3 DEF Spread
      <3>2. i + j <= m
        BY <1>2, <3>1
      <3>3. QED
        BY <3>2
    <2>4. QED
      BY <2>2, <2>3
  <1>5. Smear(u) \in Words /\ Bits[Smear(u)] \in SUBSET (0 .. W - 1)
    BY <1>3, BitsOf DEF Spread
  <1>6. 0 .. m \in SUBSET (0 .. W - 1)
    BY <1>0
  <1>7. Bits[Smear(u)] = 0 .. m
    BY <1>4, <1>5, <1>6, Zenon
  <1>8. Pow[m + 1] - 1 \in Words /\ Bits[Pow[m + 1] - 1] = 0 .. m
    BY <1>0, MaskBits
  <1>9. QED
    BY <1>5, <1>7, <1>8, BitsInjective

LEMMA IntMod ==
  ASSUME NEW p \in Nat, p > 0
  PROVE  /\ \A x \in Int : (x % p) \in 0 .. p - 1
         /\ \A x \in 0 .. p - 1 : x % p = x /\ (x - p) % p = x
         /\ p % p = 0
  OBVIOUS

LEMMA WidthPowers ==
  /\ W \in 0 .. W /\ W - 1 \in 0 .. W - 1 /\ W - 1 \in 0 .. W
  /\ Pow[W - 1] \in Nat /\ Pow[W - 1] >= 1 /\ Pow[W] = 2 * Pow[W - 1]
  <1>1. W \in 0 .. W /\ W - 1 \in 0 .. W - 1 /\ W - 1 \in 0 .. W /\ W \in 1 .. W
    BY Width
  <1>2. QED
    BY <1>1, PowPositive, PowUnfolds

LEMMA LeastPowerIs ==
  ASSUME NEW k \in 0 .. W - 1, NEW v \in Nat, v <= Pow[k], k = 0 \/ Pow[k - 1] < v
  PROVE  IsLeastPower(Pow[k], v)
  <1>0. W \in Nat /\ k \in 0 .. W /\ Pow[k] \in Nat
    BY Width, PowPositive
  <1>1. ASSUME NEW i \in 0 .. W - 1, Pow[i] >= v PROVE Pow[k] <= Pow[i]
    <2>0. i \in 0 .. W /\ Pow[i] \in Nat
      BY <1>0, PowPositive
    <2>1. CASE i < k
      <3>1. k - 1 \in 0 .. W /\ Pow[k - 1] < v /\ i <= k - 1
        BY <1>0, <2>1
      <3>2. Pow[k - 1] \in Nat
        BY <3>1, PowPositive
      <3>3. i < k - 1 => 2 * Pow[i] <= Pow[k - 1]
        BY <2>0, <3>1, PowGrows
      <3>4. Pow[i] <= Pow[k - 1]
        BY <2>0, <3>1, <3>2, <3>3
      <3>5. QED
        BY <1>1, <2>0, <3>1, <3>2, <3>4
    <2>2. CASE i = k
      BY <1>0, <2>2
    <2>3. CASE k < i
      <3>1. 2 * Pow[k] <= Pow[i]
        BY <1>0, <2>0, <2>3, PowGrows
      <3>2. QED
        BY <1>0, <2>0, <3>1
    <2>4. QED
      BY <1>0, <2>1, <2>2, <2>3
  <1>2. Pow[k] \in Powers /\ Pow[k] >= v
    BY <1>0 DEF Powers
  <1>3. QED
    BY <1>1, <1>2 DEF IsLeastPower, Powers

(***************************************************************************)
(* upperBoundPowerOf2 yields the least power of two that is not below its  *)
(* argument, or 0 if no word is one.                                       *)
(***************************************************************************)
LEMMA UpperBound ==
  ASSUME NEW v \in Words
  PROVE  /\ v <= Pow[W - 1] => \E k \in 0 .. W - 1 :
              upperBoundPowerOf2(v) = Pow[k] /\ IsLeastPower(Pow[k], v)
         /\ v > Pow[W - 1] => upperBoundPowerOf2(v) = 0
  <1>0. W \in Nat /\ v \in Nat /\ v < Pow[W] /\ 0 \in 0 .. W - 1 /\ Pow[0] = 1
    BY Width, BitsOf, WordsAre, PowUnfolds
  <1>1. CASE v \in {0, 1}
    <2>1. upperBoundPowerOf2(v) = 1
      <3>1. CASE v = 0
        BY <3>1 DEF upperBoundPowerOf2
      <3>2. CASE v = 1
        <4>1. upperBoundPowerOf2(1) = RoundedUp(0)
          BY SmearZero DEF upperBoundPowerOf2
        <4>2. 1 \in 0 .. Pow[W] - 1 /\ Pow[W] \in Nat /\ Pow[W] > 0
          BY WidthPowers
        <4>3. RoundedUp(0) = 1
          BY <4>2, IntMod DEF RoundedUp, Unsigned
        <4>4. QED
          BY <3>2, <4>1, <4>3
      <3>3. QED
        BY <1>1, <3>1, <3>2
    <2>2. IsLeastPower(Pow[0], v)
      BY <1>0, <1>1, LeastPowerIs
    <2>3. ~(v > Pow[W - 1])
      BY <1>1, WidthPowers
    <2>4. QED
      BY <1>0, <2>1, <2>2, <2>3
  <1>2. CASE v \notin {0, 1}
    <2>1. PICK u \in Words : u = v - 1 /\ u # 0 /\ u \in Nat
      <3>1. v - 1 \in Nat /\ v - 1 < Pow[W] /\ v - 1 # 0
        BY <1>0, <1>2, WidthPowers
      <3>2. QED
        BY <3>1, WordsAre
    <2>2. PICK m \in 0 .. W - 1 : Pow[m] <= u /\ u < Pow[m + 1]
      BY <2>1, TopPlace
    <2>3. Smear(u) = Pow[m + 1] - 1
      BY <2>2, SmearFills
    <2>4. m \in 0 .. W /\ m + 1 \in 0 .. W /\ (m + 1) - 1 = m
          /\ Pow[m] \in Nat /\ Pow[m + 1] \in Nat /\ Pow[m + 1] >= 1
      BY <1>0, PowPositive
    <2>5. upperBoundPowerOf2(v) = Pow[m + 1] % Pow[W]
      <3>1. upperBoundPowerOf2(v) = (Smear(u) + 1) % Pow[W]
        BY <1>0, <1>2, <2>1 DEF upperBoundPowerOf2, RoundedUp, Unsigned
      <3>2. (Pow[m + 1] - 1) + 1 = Pow[m + 1]
        BY <2>4
      <3>3. QED
        BY <2>3, <3>1, <3>2
    <2>6. Pow[m] < v /\ v <= Pow[m + 1]
      BY <1>0, <2>1, <2>2, <2>4
    <2>7. CASE m = W - 1
      <3>1. m + 1 = W
        BY <1>0, <2>7
      <3>2. upperBoundPowerOf2(v) = 0
        BY <2>5, <3>1, WidthPowers, IntMod
      <3>3. QED
        BY <1>0, <2>4, <2>6, <2>7, <3>2
    <2>8. CASE m # W - 1
      <3>1. m + 1 \in 0 .. W - 1 /\ m + 1 < W /\ m < W - 1
        BY <1>0, <2>8
      <3>2. 2 * Pow[m + 1] <= Pow[W]
        BY <2>4, <3>1, WidthPowers, PowGrows
      <3>3. Pow[m + 1] \in 0 .. Pow[W] - 1 /\ Pow[m + 1] <= Pow[W - 1]
        BY <2>4, <3>2, WidthPowers
      <3>4. upperBoundPowerOf2(v) = Pow[m + 1]
        BY <2>5, <3>3, WidthPowers, IntMod
      <3>5. IsLeastPower(Pow[m + 1], v)
        BY <1>0, <2>4, <2>6, <3>1, LeastPowerIs
      <3>6. ~(v > Pow[W - 1])
        BY <1>0, <2>4, <2>6, <3>3, WidthPowers
      <3>7. QED
        BY <3>1, <3>4, <3>5, <3>6
    <2>9. QED
      BY <2>7, <2>8
  <1>3. QED
    BY <1>1, <1>2

(***************************************************************************)
(* What the callers of upperBoundPowerOf2 use of it.                       *)
(***************************************************************************)
LEMMA UpperBoundIs ==
  ASSUME NEW v \in Words
  PROVE  /\ upperBoundPowerOf2(v) \in Words
         /\ upperBoundPowerOf2(v) <= Pow[W - 1]
         /\ upperBoundPowerOf2(v) # 0 =>
              \E k \in 0 .. W - 1 : upperBoundPowerOf2(v) = Pow[k]
         /\ upperBoundPowerOf2(v) = LeastPower(v)
  <1>0. W \in Nat /\ v \in Nat /\ 0 \in Words
    BY Width, BitsOf, WordsAre, WidthPowers
  <1>1. CASE v <= Pow[W - 1]
    <2>1. PICK k \in 0 .. W - 1 :
            upperBoundPowerOf2(v) = Pow[k] /\ IsLeastPower(Pow[k], v)
      BY <1>1, UpperBound
    <2>2. k \in 0 .. W /\ Pow[k] \in Nat /\ Pow[k] <= Pow[W - 1]
      <3>1. k \in 0 .. W /\ Pow[k] \in Nat
        BY <1>0, PowPositive
      <3>2. k < W - 1 => 2 * Pow[k] <= Pow[W - 1]
        BY <3>1, WidthPowers, PowGrows
      <3>3. QED
        BY <1>0, <3>1, <3>2, WidthPowers
    <2>3. Pow[k] \in Words
      BY <2>2, WidthPowers, WordsAre
    <2>4. LeastPower(v) = CHOOSE p \in Powers : IsLeastPower(p, v)
      BY <1>1 DEF LeastPower
    <2>5. \A p \in Powers : IsLeastPower(p, v) => p = Pow[k]
      <3>1. \A p \in Powers : p \in Nat
        <4>1. \A i \in 0 .. W - 1 : i \in 0 .. W
          BY <1>0
        <4>2. QED
          BY <4>1, PowPositive DEF Powers
      <3>2. Pow[k] \in Powers /\ Pow[k] >= v /\ \A q \in Powers : q >= v => Pow[k] <= q
        BY <2>1 DEF IsLeastPower
      <3>3. SUFFICES ASSUME NEW p \in Powers, IsLeastPower(p, v) PROVE p = Pow[k]
        OBVIOUS
      <3>4. p >= v /\ p <= Pow[k]
        BY <3>2, <3>3 DEF IsLeastPower
      <3>5. QED
        BY <3>1, <3>2, <3>4
    <2>6. Pow[k] \in Powers
      BY DEF Powers
    <2>7. LeastPower(v) = Pow[k]
      BY <2>1, <2>4, <2>5, <2>6
    <2>8. QED
      BY <2>1, <2>2, <2>3, <2>7
  <1>2. CASE v > Pow[W - 1]
    <2>1. upperBoundPowerOf2(v) = 0
      BY <1>2, UpperBound
    <2>2. LeastPower(v) = 0
      BY <1>0, <1>2, WidthPowers DEF LeastPower
    <2>3. QED
      BY <1>0, <2>1, <2>2, WidthPowers
  <1>3. QED
    BY <1>0, <1>1, <1>2, WidthPowers

LEMMA LeastPowerOfNothing == LeastPower(1) = LeastPower(0)
  <1>0. 0 <= Pow[W - 1] /\ 1 <= Pow[W - 1]
    BY WidthPowers
  <1>1. \A p \in Powers : p \in Nat /\ p >= 1
    <2>1. \A i \in 0 .. W - 1 : i \in 0 .. W
      BY Width
    <2>2. QED
      BY <2>1, PowPositive DEF Powers
  <1>2. \A p \in Powers : IsLeastPower(p, 1) <=> IsLeastPower(p, 0)
    BY <1>1 DEF IsLeastPower
  <1>3. QED
    BY <1>0, <1>2 DEF LeastPower

LEMMA SignedIs ==
  ASSUME NEW x \in Words, x <= Pow[W - 1]
  PROVE  /\ Signed(x) \in Ints /\ Unsigned(Signed(x)) = x
         /\ Signed(x) > 0 => Signed(x) = x
  <1>0. x \in Nat /\ Pow[W] \in Nat /\ Pow[W] > 0 /\ x \in 0 .. Pow[W] - 1
    BY BitsOf, WidthPowers, WordsAre
  <1>1. CASE x < Pow[W - 1]
    BY <1>0, <1>1, WidthPowers, IntMod DEF Signed, Unsigned, Ints
  <1>2. CASE x = Pow[W - 1]
    <2>1. Signed(x) = x - Pow[W]
      BY <1>0, <1>2, WidthPowers DEF Signed
    <2>2. x - Pow[W] = -Pow[W - 1]
      BY <1>2, WidthPowers
    <2>3. (x - Pow[W]) % Pow[W] = x
      BY <1>0, IntMod
    <2>4. QED
      BY <2>1, <2>2, <2>3, WidthPowers DEF Unsigned, Ints
  <1>3. QED
    BY <1>0, <1>1, <1>2, WidthPowers

-----------------------------------------------------------------------------
(* The inductive invariant: every count is what was asked for, rounded up.  *)

AtLeastOne(nr) == IF nr < 1 THEN 1 ELSE nr

CountsRounded ==
  /\ \/ zoneAsked = 0 /\ nrHash = 0
     \/ nrHash = Signed(upperBoundPowerOf2(AtLeastOne(zoneAsked)))
  /\ \/ tableAsked = 0 /\ nrBuckets = 0
     \/ nrBuckets = upperBoundPowerOf2(tableAsked)

IInv ==
  /\ hardware \in 0 .. MaxHardware
  /\ zoneAsked \in Words /\ tableAsked \in Words
  /\ CountsRounded

LEMMA ZeroIsWord == 0 \in Words /\ 1 \in Words
  BY WidthPowers, WordsAre

LEMMA InitIInv == Init => IInv
  BY ZeroIsWord DEF Init, IInv, CountsRounded

LEMMA UnsignedIs == \A x \in Int : Unsigned(x) \in Words
  <1>1. Pow[W] \in Nat /\ Pow[W] > 0
    BY WidthPowers
  <1>2. QED
    BY <1>1, IntMod DEF Unsigned, Words

LEMMA HardwareIs == MaxHardware \in Nat /\ MaxHardware <= Pow[W - 1]
  <1>1. W - 3 \in 0 .. W /\ W - 3 < W - 1 /\ W - 1 \in 0 .. W
    BY Width
  <1>2. 2 * Pow[W - 3] <= Pow[W - 1] /\ Pow[W - 3] \in Nat /\ Pow[W - 1] \in Nat
    BY <1>1, PowGrows, PowPositive
  <1>3. QED
    BY <1>2, SizesAssumption

LEMMA IInvStep == IInv /\ [Next]_vars => IInv'
  <1> SUFFICES ASSUME IInv, [Next]_vars PROVE IInv'
    OBVIOUS
  <1>1. \A nr \in Asked : nr \in Int /\ Unsigned(nr) \in Words
    <2>1. \A x \in Ints : x \in Int
      BY WidthPowers DEF Ints
    <2>2. QED
      BY <2>1, SizesAssumption, UnsignedIs
  <1>2. HardwareBuckets \in Words
    <2>1. hardware * 64 \in Int
      BY HardwareIs DEF IInv
    <2>2. QED
      BY <2>1, UnsignedIs DEF HardwareBuckets, c_nrRCUBucketsPerHardwareThread
  <1>3. ASSUME NEW nr \in Words, ZoneMade(nr), UNCHANGED <<hardware, tableAsked, nrBuckets>>
        PROVE  IInv'
    BY <1>3 DEF IInv, CountsRounded, ZoneMade, AtLeastOne
  <1>4. ASSUME NEW nr \in Words, NEW nrZone \in Words,
               ZoneMade(nrZone), TableMade(nr), UNCHANGED hardware
        PROVE  IInv'
    BY <1>4 DEF IInv, CountsRounded, ZoneMade, TableMade, AtLeastOne
  <1>5. CASE UNCHANGED vars
    BY <1>5 DEF vars, IInv, CountsRounded
  <1>6. ASSUME NEW nr \in Asked, rcuInitZoneWithBucketCounts(nr) PROVE IInv'
    BY <1>1, <1>3, <1>6 DEF rcuInitZoneWithBucketCounts
  <1>7. CASE rcuInitZone
    <2>1. Unsigned(HardwareBuckets) \in Words
      <3>1. HardwareBuckets \in Int
        BY <1>2, BitsOf
      <3>2. QED
        BY <3>1, UnsignedIs
    <2>2. QED
      BY <1>3, <1>7, <2>1 DEF rcuInitZone, rcuInitZoneWithBucketCounts
  <1>8. ASSUME NEW nr \in Asked, NEW nrZone \in Int, rTableInitDetailed(nr, nrZone)
        PROVE  IInv'
    BY <1>1, <1>4, <1>8, UnsignedIs DEF rTableInitDetailed
  <1>9. ASSUME NEW nr \in Asked, rTableInit(nr) PROVE IInv'
    <2>1. HardwareBuckets \in Int
      BY <1>2, BitsOf
    <2>2. QED
      BY <1>8, <1>9, <2>1 DEF rTableInit
  <1>10. QED
    BY <1>1, <1>5, <1>6, <1>7, <1>8, <1>9 DEF Next

LEMMA ZoneCount ==
  ASSUME IInv
  PROVE  /\ nrHash \in Ints
         /\ nrHash # 0 \/ zoneAsked > Pow[W - 1] => Unsigned(nrHash) = LeastPower(zoneAsked)
         /\ nrHash > 0 => \E k \in 0 .. W - 1 : nrHash = Pow[k]
  <1>0. zoneAsked \in Words /\ zoneAsked \in Nat
    BY BitsOf DEF IInv
  <1>1. CASE zoneAsked = 0 /\ nrHash = 0
    BY <1>1, WidthPowers DEF Ints
  <1>2. CASE nrHash = Signed(upperBoundPowerOf2(AtLeastOne(zoneAsked)))
    <2>1. PICK v \in Words : v = AtLeastOne(zoneAsked)
      BY <1>0, ZeroIsWord DEF AtLeastOne
    <2>2. PICK x \in Words : /\ x = upperBoundPowerOf2(v) /\ x <= Pow[W - 1]
                             /\ x # 0 => \E k \in 0 .. W - 1 : x = Pow[k]
                             /\ x = LeastPower(v)
      BY UpperBoundIs
    <2>3. nrHash = Signed(x)
      BY <1>2, <2>1, <2>2
    <2>4. LeastPower(v) = LeastPower(zoneAsked)
      <3>1. CASE zoneAsked < 1
        BY <1>0, <2>1, <3>1, LeastPowerOfNothing DEF AtLeastOne
      <3>2. CASE ~(zoneAsked < 1)
        BY <2>1, <3>2 DEF AtLeastOne
      <3>3. QED
        BY <3>1, <3>2
    <2>5. /\ Signed(x) \in Ints /\ Unsigned(Signed(x)) = x
          /\ Signed(x) > 0 => Signed(x) = x
      BY <2>2, SignedIs
    <2>6. nrHash > 0 => x # 0
      BY <2>3, <2>5
    <2>7. QED
      BY <2>2, <2>3, <2>4, <2>5, <2>6
  <1>3. QED
    BY <1>1, <1>2 DEF IInv, CountsRounded

LEMMA TableCount ==
  ASSUME IInv
  PROVE  /\ nrBuckets \in Words
         /\ nrBuckets # 0 \/ tableAsked > Pow[W - 1] => nrBuckets = LeastPower(tableAsked)
         /\ nrBuckets # 0 => \E k \in 0 .. W - 1 : nrBuckets = Pow[k]
  <1>0. tableAsked \in Words
    BY DEF IInv
  <1>1. CASE tableAsked = 0 /\ nrBuckets = 0
    BY <1>1, ZeroIsWord, WidthPowers
  <1>2. CASE nrBuckets = upperBoundPowerOf2(tableAsked)
    BY <1>0, <1>2, UpperBoundIs
  <1>3. QED
    BY <1>1, <1>2 DEF IInv, CountsRounded

LEMMA OwnCount ==
  ASSUME IInv
  PROVE  nrNonOverlappingBucketCount \in Nat /\ nrNonOverlappingBucketCount >= 1
  <1>1. hardware \in Nat /\ hardware <= Pow[W - 1]
    BY HardwareIs, WidthPowers DEF IInv
  <1>2. hardware \in Words
    BY <1>1, WidthPowers, WordsAre
  <1>3. PICK k \in 0 .. W - 1 : upperBoundPowerOf2(hardware) = Pow[k]
    BY <1>1, <1>2, UpperBound
  <1>4. k \in 0 .. W
    BY Width
  <1>5. QED
    BY <1>3, <1>4, PowPositive DEF nrNonOverlappingBucketCount

(***************************************************************************)
(* The counters that unregistered threads share in a row follow those of   *)
(* the registered ones.                                                    *)
(***************************************************************************)
LEMMA SharedCounters ==
  ASSUME NEW k \in 0 .. W - 1, NEW own \in Nat, NEW base \in Nat
  PROVE  {base + own + Masked(h, Pow[k]) : h \in Words}
           = base + own .. base + (Pow[k] + own) - 1
  <1>0. k \in 0 .. W
    BY Width
  <1>1. PICK c \in Nat : c = Pow[k] /\ c >= 1 /\ c <= Pow[W]
    <2>1. k < W /\ W \in 0 .. W
      BY Width
    <2>2. 2 * Pow[k] <= Pow[W]
      BY <1>0, <2>1, PowGrows
    <2>3. QED
      BY <1>0, <2>2, WidthPowers, PowPositive
  <1>2. \A h \in Words : Masked(h, c) = h % c /\ (h % c) \in 0 .. c - 1
    BY <1>0, <1>1, MaskedIsMod
  <1>3. ASSUME NEW h \in Words
        PROVE  base + own + Masked(h, c) \in base + own .. base + (c + own) - 1
    <2>1. PICK m \in 0 .. c - 1 : m = Masked(h, c)
      BY <1>2
    <2>2. base + own + m \in base + own .. base + (c + own) - 1
      OBVIOUS
    <2>3. QED
      BY <2>1, <2>2
  <1>4. ASSUME NEW x \in base + own .. base + (c + own) - 1
        PROVE  \E h \in Words : x = base + own + Masked(h, c)
    <2>1. PICK h \in 0 .. c - 1 : h = x - base - own
      <3>1. x - base - own \in 0 .. c - 1
        OBVIOUS
      <3>2. QED
        BY <3>1
    <2>2. h \in Words
      BY <1>1, WidthPowers, WordsAre
    <2>3. h % c = h
      BY <1>1, IntMod
    <2>4. x = base + own + h
      BY <2>1
    <2>5. QED
      BY <1>2, <2>2, <2>3, <2>4
  <1>5. {base + own + Masked(h, c) : h \in Words} = base + own .. base + (c + own) - 1
    BY <1>3, <1>4
  <1>6. QED
    BY <1>1, <1>5

LEMMA OwnCounters ==
  ASSUME NEW own \in Nat, NEW base \in Nat
  PROVE  {base + id : id \in 0 .. own - 1} = base .. base + own - 1
  <1>1. \A id \in 0 .. own - 1 : base + id \in base .. base + own - 1
    OBVIOUS
  <1>2. ASSUME NEW x \in base .. base + own - 1
        PROVE  \E id \in 0 .. own - 1 : x = base + id
    <2>1. x - base \in 0 .. own - 1 /\ x = base + (x - base)
      OBVIOUS
    <2>2. QED
      BY <2>1
  <1>3. QED
    BY <1>1, <1>2

LEMMA PartitionHolds ==
  ASSUME IInv
  PROVE  CountersPartitioned
  <1> DEFINE shared(row) == {CounterOf(row, h) : h \in Hashes}
             private(row) == {CounterOfRegistered(row, id) :
                                id \in 0 .. nrNonOverlappingBucketCount - 1}
  <1>0. SUFFICES ASSUME nrHash > 0
                 PROVE  /\ \A row \in Rows : shared(row) \cap private(row) = {}
                        /\ (shared(0) \cup private(0)) \cap (shared(1) \cup private(1)) = {}
                        /\ (shared(0) \cup private(0)) \cup (shared(1) \cup private(1))
                             = 0 .. c_maxEpoches * nrBucketsPerEpoch - 1
    BY DEF CountersPartitioned
  <1>1. PICK own \in Nat : own = nrNonOverlappingBucketCount /\ own >= 1
    BY OwnCount
  <1>2. PICK k \in 0 .. W - 1 : nrHash = Pow[k]
    BY <1>0, ZoneCount
  <1>3. PICK c \in Nat : c = Pow[k] /\ c >= 1
    <2>1. k \in 0 .. W
      BY Width
    <2>2. QED
      BY <2>1, PowPositive
  <1>4. nrBucketsPerEpoch = c + own
    BY <1>1, <1>2, <1>3 DEF nrBucketsPerEpoch
  <1>5. ASSUME NEW row \in {0, 1}
        PROVE  /\ shared(row) = row * (c + own) + own .. row * (c + own) + (c + own) - 1
               /\ private(row) = row * (c + own) .. row * (c + own) + own - 1
    <2>1. PICK base \in Nat : base = row * (c + own)
      OBVIOUS
    <2>2. {base + own + Masked(h, c) : h \in Words} = base + own .. base + (c + own) - 1
      BY <1>3, SharedCounters
    <2>3. \A h \in Words : CounterOf(row, h) = base + own + Masked(h, c)
      BY <1>1, <1>2, <1>3, <1>4, <2>1 DEF CounterOf
    <2>4. \A id \in 0 .. own - 1 : CounterOfRegistered(row, id) = base + id
      BY <1>4, <2>1 DEF CounterOfRegistered
    <2>5. shared(row) = base + own .. base + (c + own) - 1
      BY <2>2, <2>3 DEF Hashes
    <2>6. private(row) = {base + id : id \in 0 .. own - 1}
      BY <1>1, <2>4
    <2>7. QED
      BY <2>1, <2>5, <2>6, OwnCounters
  <1>6. /\ shared(0) = own .. (c + own) - 1 /\ private(0) = 0 .. own - 1
        /\ shared(1) = (c + own) + own .. (c + own) + (c + own) - 1
        /\ private(1) = (c + own) .. (c + own) + own - 1
    <2>1. 0 * (c + own) = 0 /\ 1 * (c + own) = c + own
      OBVIOUS
    <2> HIDE DEF shared, private
    <2>2. /\ shared(0) = 0 + own .. 0 + (c + own) - 1 /\ private(0) = 0 .. 0 + own - 1
          /\ shared(1) = (c + own) + own .. (c + own) + (c + own) - 1
          /\ private(1) = (c + own) .. (c + own) + own - 1
      BY <1>5, <2>1
    <2>3. 0 + own = own /\ 0 + (c + own) = c + own
      OBVIOUS
    <2>4. QED
      BY <2>2, <2>3
  <1> HIDE DEF shared, private
  <1>7. \A row \in Rows : row = 0 \/ row = 1
    BY DEF Rows, c_maxEpoches
  <1>8. c_maxEpoches * nrBucketsPerEpoch = 2 * (c + own)
    BY <1>4 DEF c_maxEpoches
  <1>9. shared(0) \cap private(0) = {} /\ shared(1) \cap private(1) = {}
    BY <1>6
  <1>10. shared(0) \cup private(0) = 0 .. (c + own) - 1
    BY <1>6
  <1>11. shared(1) \cup private(1) = c + own .. 2 * (c + own) - 1
    BY <1>6
  <1>12. QED
    BY <1>7, <1>8, <1>9, <1>10, <1>11

LEMMA TwinsHold ==
  ASSUME IInv
  PROVE  TwinBuckets
  <1>1. SUFFICES ASSUME nrBuckets # 0, NEW h \in Words
                 PROVE  /\ Masked(h, nrBuckets) = h % nrBuckets
                        /\ Masked(h, 2 * nrBuckets) \in
                             {Masked(h, nrBuckets), Masked(h, nrBuckets) + nrBuckets}
    BY DEF TwinBuckets, Hashes
  <1>2. PICK k \in 0 .. W - 1 : nrBuckets = Pow[k]
    BY <1>1, TableCount
  <1>3. k \in 0 .. W /\ k + 1 \in 1 .. W /\ k + 1 \in 0 .. W /\ (k + 1) - 1 = k
    BY Width
  <1>4. PICK p \in Nat : p = Pow[k] /\ p >= 1 /\ Pow[k + 1] = 2 * p
    BY <1>3, PowPositive, PowUnfolds
  <1>5. Masked(h, p) = h % p /\ Masked(h, 2 * p) = h % (2 * p)
    BY <1>3, <1>4, MaskedIsMod
  <1>6. (h % (2 * p)) \in {h % p, (h % p) + p}
    <2>1. h \in Nat
      BY BitsOf
    <2>2. PICK d \in Nat : d = 2 * p /\ d > 0
      BY <1>4
    <2>3. PICK q \in Nat, r \in 0 .. d - 1 : r = h % d /\ h = d * q + r
      <3>1. h \div d \in Nat /\ (h % d) \in 0 .. d - 1 /\ h = d * (h \div d) + (h % d)
        BY <2>1, <2>2, DivMod
      <3>2. QED
        BY <3>1
    <2>4. d * q = p * (2 * q) /\ p * (2 * q) + p = p * (2 * q + 1)
      BY <2>2
    <2>5. CASE r < p
      <3>1. r \in 0 .. p - 1 /\ 2 * q \in Nat /\ p > 0
        BY <1>4, <2>5
      <3>2. (p * (2 * q) + r) % p = r
        BY <3>1, DivUnique
      <3>3. h % p = r
        BY <2>3, <2>4, <3>2
      <3>4. QED
        BY <2>2, <2>3, <3>3
    <2>6. CASE p <= r
      <3>1. PICK s \in 0 .. p - 1 : s = r - p /\ r = s + p
        <4>1. r - p \in 0 .. p - 1 /\ r = (r - p) + p
          BY <2>2, <2>6
        <4>2. QED
          BY <4>1
      <3>2. 2 * q + 1 \in Nat /\ p > 0
        BY <1>4
      <3>3. (p * (2 * q + 1) + s) % p = s
        BY <3>1, <3>2, DivUnique
      <3>4. h = p * (2 * q + 1) + s
        <4>1. PICK m \in Nat : m = p * (2 * q)
          OBVIOUS
        <4>2. h = m + r /\ m + p = p * (2 * q + 1)
          BY <2>3, <2>4, <4>1
        <4>3. m + r = (m + p) + s
          BY <3>1
        <4>4. QED
          BY <4>2, <4>3
      <3>5. h % p = s
        BY <3>3, <3>4
      <3>6. QED
        BY <2>2, <2>3, <3>1, <3>5
    <2>7. QED
      BY <2>2, <2>3, <2>5, <2>6
  <1>7. QED
    BY <1>2, <1>4, <1>5, <1>6

(***************************************************************************)
(* Types: what the zone's count is made from fits into int, whatever is    *)
(* asked for (upperBoundPowerOf2 returns a uint32_t, kept in an int).      *)
(***************************************************************************)
THEOREM SizesTypeCorrect == Spec => []TypeOK
  <1>1. IInv => TypeOK
    BY ZoneCount, TableCount DEF IInv, TypeOK
  <1>2. QED
    BY <1>1, InitIInv, IInvStep, PTL DEF Spec

(***************************************************************************)
(* For words of 3 to 32 bits, upperBoundPowerOf2 rounds up to the least    *)
(* power of two, and to 0 above half of the range of uint32_t.             *)
(***************************************************************************)
THEOREM SizesRoundUp == Spec => []RoundsUp
  <1>1. IInv => RoundsUp
    BY ZoneCount, TableCount DEF RoundsUp
  <1>2. QED
    BY <1>1, InitIInv, IInvStep, PTL DEF Spec

(***************************************************************************)
(* The counters of a zone of any size are split among its epochs and, in   *)
(* each, among registered threads and hashes, without overlap or rest.     *)
(***************************************************************************)
THEOREM SizesPartitioned == Spec => []CountersPartitioned
  <1>1. QED
    BY PartitionHolds, InitIInv, IInvStep, PTL DEF Spec

(***************************************************************************)
(* In a table of any size a mask is a remainder, and doubling the table    *)
(* leaves an element in its bucket or moves it to the twin.                *)
(***************************************************************************)
THEOREM SizesTwins == Spec => []TwinBuckets
  <1>1. QED
    BY TwinsHold, InitIInv, IInvStep, PTL DEF Spec
=============================================================================
