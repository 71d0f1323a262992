------------------------------- MODULE RCUSizes -------------------------------
(***************************************************************************)
(* How many buckets a zone and a table have, and which one a thread or a   *)
(* hash is given (upperBoundPowerOf2 and its callers in RCU.cpp and        *)
(* RCUHashTable.cpp).  The modules RCUZone and RTable take the results for *)
(* granted: a bucket id within the zone's rows, hash % nrBuckets, and for  *)
(* a doubled table one of two twin buckets.                                *)
(*                                                                         *)
(* int and uint32_t have W bits (32 in the code).  std::hash yields more,  *)
(* of which no mask of a count that fits into W bits keeps anything.       *)
(***************************************************************************)
EXTENDS Integers

CONSTANTS
  W,           \* the width of int
  Asked,       \* the ints that callers ask for
  MaxHardware  \* bound: hardware threads

\* 2^i
Pow[i \in 0 .. W] == IF i = 0 THEN 1 ELSE 2 * Pow[i - 1]

Ints == -Pow[W - 1] .. Pow[W - 1] - 1

\* The sum of two counts of buckets per row is an int.
ASSUME SizesAssumption ==
  /\ W \in 3 .. 32
  /\ Asked \subseteq Ints
  /\ MaxHardware \in 0 .. Pow[W - 3]

VARIABLES
  hardware,   \* std::thread::hardware_concurrency(); it may be 0
  zoneAsked,  \* what the zone was asked for, as a uint32_t
  nrHash,     \* zone.nrHashThreadBuckets; 0 before the first call
  tableAsked, \* what the table was asked for, as a uint32_t
  nrBuckets   \* nrBucketsPowerOf2; 0 before the first call

vars == <<hardware, zoneAsked, nrHash, tableAsked, nrBuckets>>

Unsigned(x) == x % Pow[W]
Signed(x) == IF x < Pow[W - 1] THEN x ELSE x - Pow[W]

Words == 0 .. Pow[W] - 1

\* The places of the ones of a word, and the word that has its ones there.
Bits == [x \in Words |-> {i \in 0 .. W - 1 : (x \div Pow[i]) % 2 = 1}]
Word == [S \in SUBSET (0 .. W - 1) |-> CHOOSE x \in Words : Bits[x] = S]

x | y == Word[Bits[x] \cup Bits[y]]
x & y == Word[Bits[x] \cap Bits[y]]

\* v |= v >> s
OrShifted(v, s) == v | (IF s < W THEN v \div Pow[s] ELSE 0)

Smear(v) == OrShifted(OrShifted(OrShifted(OrShifted(OrShifted(v, 1), 2), 4), 8), 16)

RoundedUp(v) == Unsigned(v + 1)

\* Mutant: one of the shifts is forgotten.
MutantOneShiftLess(v) ==
  IF v = 0 THEN 1
  ELSE RoundedUp(OrShifted(OrShifted(OrShifted(OrShifted(v - 1, 1), 2), 8), 16))

\* Mutant: the sum is not truncated to 32 bits.
MutantNoWrap(v) == IF v = 0 THEN 1 ELSE Smear(v - 1) + 1

\* Mutant: rounds up to the next power even from a power.
MutantNotDecremented(v) == IF v = 0 THEN 1 ELSE RoundedUp(Smear(v))

\* Both definitions of the function agree on 0.
upperBoundPowerOf2(v) == IF v = 0 THEN 1 ELSE RoundedUp(Smear(v - 1))

nrNonOverlappingBucketCount == upperBoundPowerOf2(hardware)

\* Mutant: the buckets of registered threads are not counted.
MutantHashOnly == nrHash

nrBucketsPerEpoch == nrHash + nrNonOverlappingBucketCount

c_maxEpoches == 2
c_nrRCUBucketsPerHardwareThread == 64

TypeOK ==
  /\ hardware \in 0 .. MaxHardware
  /\ {zoneAsked, tableAsked, nrBuckets} \subseteq Words
  /\ nrHash \in Ints

Init ==
  /\ hardware \in 0 .. MaxHardware
  /\ zoneAsked = 0 /\ nrHash = 0
  /\ tableAsked = 0 /\ nrBuckets = 0

-----------------------------------------------------------------------------

\* nr is a uint32_t, nrHashThreadBuckets an int.
ZoneMade(nr) ==
  /\ zoneAsked' = nr
  /\ nrHash' = Signed(upperBoundPowerOf2(IF nr < 1 THEN 1 ELSE nr))

TableMade(nr) ==
  /\ tableAsked' = nr
  /\ nrBuckets' = upperBoundPowerOf2(nr)

rcuInitZoneWithBucketCounts(nr) ==
  ZoneMade(Unsigned(nr)) /\ UNCHANGED <<hardware, tableAsked, nrBuckets>>

\* The product is truncated to the parameter's width.
HardwareBuckets == Unsigned(hardware * c_nrRCUBucketsPerHardwareThread)

rcuInitZone == rcuInitZoneWithBucketCounts(HardwareBuckets)

rTableInitDetailed(nr, nrZone) ==
  ZoneMade(Unsigned(nrZone)) /\ TableMade(Unsigned(nr)) /\ UNCHANGED hardware

rTableInit(nr) == rTableInitDetailed(nr, HardwareBuckets)

Next ==
  \/ \E nr \in Asked : rcuInitZoneWithBucketCounts(nr)
  \/ rcuInitZone
  \/ \E nr \in Asked : rTableInit(nr)
  \/ \E nr \in Asked, nrZone \in Asked : rTableInitDetailed(nr, nrZone)

Spec == Init /\ [][Next]_vars

-----------------------------------------------------------------------------
(* Who uses which bucket.                                                   *)

\* x & mask, the mask being -1 for a count of 0.
Masked(x, count) == IF count = 0 THEN x ELSE x & (count - 1)

\* The counter of a thread with this hash, counted from the first of the
\* array that the rows of the epochs share.
CounterOf(row, hash) ==
  row * nrBucketsPerEpoch + nrNonOverlappingBucketCount + Masked(hash, nrHash)

CounterOfRegistered(row, id) == row * nrBucketsPerEpoch + id

Rows == 0 .. c_maxEpoches - 1
Hashes == Words

-----------------------------------------------------------------------------
(***************************************************************************)
(* upperBoundPowerOf2 yields the least power of two that is not below what *)
(* was asked for, 1 for nothing; above half the range of uint32_t it wraps *)
(* to 0.  Of int arguments, the negative ones are such.                    *)
(***************************************************************************)
Powers == {Pow[i] : i \in 0 .. W - 1}

IsLeastPower(p, nr) ==
  p \in Powers /\ p >= nr /\ \A q \in Powers : q >= nr => p <= q

LeastPower(nr) ==
  IF nr <= Pow[W - 1] THEN CHOOSE p \in Powers : IsLeastPower(p, nr) ELSE 0

RoundsUp ==
  /\ nrHash # 0 \/ zoneAsked > Pow[W - 1] => Unsigned(nrHash) = LeastPower(zoneAsked)
  /\ nrBuckets # 0 \/ tableAsked > Pow[W - 1] => nrBuckets = LeastPower(tableAsked)

(***************************************************************************)
(* Whatever numbers a zone was made with, as long as its count came out    *)
(* positive: every thread's counter is one of the nrTotalRefCounts that    *)
(* were allocated, no counter serves two epochs, none serves a registered  *)
(* and an unregistered thread, and every counter serves somebody.          *)
(***************************************************************************)
CountersPartitioned ==
  nrHash > 0 =>
    LET shared(row) == {CounterOf(row, h) : h \in Hashes}
        own(row) == {CounterOfRegistered(row, id) :
                       id \in 0 .. nrNonOverlappingBucketCount - 1}
        used(row) == shared(row) \cup own(row)
    IN  /\ \A row \in Rows : shared(row) \cap own(row) = {}
        /\ used(0) \cap used(1) = {}
        /\ used(0) \cup used(1) = 0 .. c_maxEpoches * nrBucketsPerEpoch - 1

(***************************************************************************)
(* hash & (nrBuckets - 1) is a bucket of the table, and when the table is  *)
(* doubled the elements of bucket i go to i or to i + nrBuckets, which is  *)
(* what initTwinDstBuckets asserts (RCUHashTable.cpp:167) and halving      *)
(* undoes.                                                                 *)
(***************************************************************************)
TwinBuckets ==
  nrBuckets # 0 =>
    LET BucketOf(h) == Masked(h, nrBuckets)
    IN  /\ \A h \in Hashes : BucketOf(h) = h % nrBuckets
        /\ \A h \in Hashes :
             Masked(h, 2 * nrBuckets) \in {BucketOf(h), BucketOf(h) + nrBuckets}

=============================================================================
