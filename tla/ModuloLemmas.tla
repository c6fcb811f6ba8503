---------------------------- MODULE ModuloLemmas ----------------------------
(***************************************************************************)
(* Facts about x % M, for every M: what a ring buffer's slot arithmetic    *)
(* and uint32_t counters need.                                             *)
(***************************************************************************)
EXTENDS Integers, TLAPS

\* A number is a multiple of M and a remainder: the definition of % M, used
\* for slots of the ring and for uint32_t values.
LEMMA ModSplit ==
  ASSUME NEW M \in Nat \ {0}, NEW d \in Int
  PROVE  \E q \in Int, r \in 0..M-1 : d = (M * q) + r /\ d % M = r
<1>1. d \div M \in Int /\ d % M \in 0..M-1
  OBVIOUS
<1>2. d = (M * (d \div M)) + (d % M)
  OBVIOUS
<1> QED
  BY <1>1, <1>2

\* The remainder is in range: a slot index exists, a uint32_t fits.
LEMMA ModRange ==
  ASSUME NEW M \in Nat \ {0}, NEW d \in Int
  PROVE  d % M \in 0..M-1
  OBVIOUS

\* Only one remainder fits: the slot of an item is determined.
LEMMA ModUnique ==
  ASSUME NEW M \in Nat \ {0}, NEW q \in Int, NEW r \in 0..M-1, NEW x \in Int,
         x = (M * q) + r
  PROVE  x % M = r
<1>1. ((M * q) + r) % M = r
  OBVIOUS
<1> QED
  BY <1>1

\* A multiple of M has no remainder.
LEMMA ModMultiple ==
  ASSUME NEW M \in Nat \ {0}, NEW q \in Int
  PROVE  (M * q) % M = 0
<1>1. ((M * q) + 0) % M = 0
  OBVIOUS
<1>2. (M * q) + 0 = M * q
  OBVIOUS
<1> QED
  BY <1>1, <1>2

\* A difference of counters in 0 .. M-1 survives the conversion to uint32_t.
LEMMA ModSmall ==
  ASSUME NEW M \in Nat \ {0}, NEW d \in 0..M-1
  PROVE  d % M = d
  OBVIOUS

\* A small negative difference becomes a huge uint32_t.
LEMMA ModNegative ==
  ASSUME NEW M \in Nat \ {0}, NEW d \in Int, -M <= d, d < 0
  PROVE  d % M = d + M
  OBVIOUS

\* Two items less than M apart never share a slot.
LEMMA ModInjective ==
  ASSUME NEW M \in Nat \ {0}, NEW i \in Int, NEW j \in Int, i < j, j < i + M
  PROVE  i % M # j % M
<1>1. SUFFICES ASSUME i % M = j % M PROVE FALSE
  OBVIOUS
<1>2. PICK a \in Int, r \in 0..M-1 : i = (M * a) + r /\ i % M = r
  BY ModSplit
<1>3. PICK b \in Int, s \in 0..M-1 : j = (M * b) + s /\ j % M = s
  BY ModSplit
<1>4. a < b
  BY <1>1, <1>2, <1>3
<1>5. (M * a) + M <= M * b
  BY <1>4
<1> QED
  BY <1>1, <1>2, <1>3, <1>5

\* Moving on from i to x inside the ring: the first memcpy of a copy.
LEMMA ModAdd ==
  ASSUME NEW M \in Nat \ {0}, NEW i \in Int, NEW x \in Int,
         (i % M) + (x - i) \in 0..M-1
  PROVE  x % M = (i % M) + (x - i)
<1>1. PICK q \in Int, r \in 0..M-1 : i = (M * q) + r /\ i % M = r
  BY ModSplit
<1>2. PICK t \in 0..M-1 : t = r + (x - i)
  BY <1>1
<1>3. x = (M * q) + t
  BY <1>1, <1>2
<1>4. x % M = t
  BY <1>3, ModUnique, ZenonT(40)
<1> QED
  BY <1>1, <1>2, <1>4

\* A whole turn of the ring comes back to the same slot.
LEMMA ModTurn ==
  ASSUME NEW M \in Nat \ {0}, NEW i \in Int
  PROVE  (i + M) % M = i % M
<1>1. PICK q \in Int, r \in 0..M-1 : i = (M * q) + r /\ i % M = r
  BY ModSplit
<1>2. PICK p \in Int : p = q + 1
  OBVIOUS
<1>3. M * p = (M * q) + M
  BY <1>2
<1>4. PICK x \in Int : x = i + M
  OBVIOUS
<1>5. x = (M * p) + r
  BY <1>1, <1>3, <1>4
<1>6. x % M = r
  BY <1>5, ModUnique
<1> QED
  BY <1>1, <1>4, <1>6

\* Moving on past the end of the ring: the second memcpy of a copy.
LEMMA ModWrap ==
  ASSUME NEW M \in Nat \ {0}, NEW i \in Int, NEW x \in Int,
         (i % M) + (x - i) - M \in 0..M-1
  PROVE  x % M = (i % M) + (x - i) - M
<1>1. PICK y \in Int : y = x - M
  OBVIOUS
<1>2. (i % M) + (y - i) \in 0..M-1
  BY <1>1, ModRange
<1>3. y % M = (i % M) + (y - i)
  BY <1>2, ModAdd
<1>4. (y + M) % M = y % M
  BY ModTurn
<1>5. y + M = x
  BY <1>1
<1> QED
  BY <1>1, <1>3, <1>4, <1>5, ModRange

\* From a slot back to the item of a run of at most M that fills it.
LEMMA ModBack ==
  ASSUME NEW M \in Nat \ {0}, NEW i \in Int, NEW j \in 0..M-1
  PROVE  (((i + j) % M) - i) % M = j
<1>1. i + j \in Int
  OBVIOUS
<1>2. PICK q \in Int, r \in 0..M-1 : i + j = (M * q) + r /\ (i + j) % M = r
  BY <1>1, ModSplit
<1>3. PICK p \in Int : p = -q
  OBVIOUS
<1>4. M * p = -(M * q)
  BY <1>3
<1>5. r - i = (M * p) + j /\ r - i \in Int
  BY <1>2, <1>4
<1>6. (r - i) % M = j
  BY <1>5, ModUnique
<1> QED
  BY <1>2, <1>6
=============================================================================
