------------------------- MODULE ParallelMap_proofs -------------------------
(***************************************************************************)
(* Proofs about data frames and pmap (Columns, DataFrames, ParallelMap):   *)
(* for any schema, any values, any number of bits in a byte, of rows and   *)
(* of threads, and any rows per thread.                                    *)
(*                                                                         *)
(*   - what is packed is read back, wherever it stands, and no prefix of   *)
(*     it is: bits, numbers, strings, arrays, columns, frames;             *)
(*   - Built, the invariant of the frame while it is built, sent and read; *)
(*   - IInv, that of a map: every value of a row that was accepted is in   *)
(*     a result, in the generated frame, or in the hand of a thread;       *)
(*   - the frame implements Table.                                         *)
(*                                                                         *)
(* The folds of the model (FoldLeft of an operator) are reasoned about     *)
(* through instances of InductionLemmas, one for each operator.            *)
(***************************************************************************)
EXTENDS ParallelMap, InductionLemmas, SequenceTheorems, FiniteSetTheorems, TLAPS

----------------------------------------------------------------------------
(* Arithmetic. *)

Bytes == INSTANCE InductionLemmas WITH Combine <- PackBit

(* What \div leaves over is less than the divisor.                          *)
LEMMA Division ==
  ASSUME NEW a \in Nat, NEW b \in Nat \ {0}
  PROVE  /\ a \div b \in Nat
         /\ (a \div b) * b <= a
         /\ a < ((a \div b) + 1) * b
<1>1. PICK q : q = a \div b
  OBVIOUS
<1>2. q \in Int /\ b * q <= a /\ a < b * q + b
  BY <1>1
<1>3. q >= 0
  BY <1>2
<1>4. b * q = q * b /\ (q + 1) * b = b * q + b
  BY <1>2
<1> QED
  BY <1>1, <1>2, <1>3, <1>4

(* Multiplication is monotone.                                              *)
LEMMA Products ==
  ASSUME NEW a \in Nat, NEW b \in Nat, NEW s \in Nat, a <= b
  PROVE  a * s \in Nat /\ b * s \in Nat /\ a * s <= b * s
  OBVIOUS

(* The quotient is the only number with these bounds.                       *)
LEMMA Quotient ==
  ASSUME NEW a \in Nat, NEW b \in Nat \ {0}, NEW q \in Nat, NEW r \in Nat,
         a = q * b + r, r < b
  PROVE  a \div b = q /\ a % b = r
<1>1. PICK x \in Nat : x = a \div b /\ x * b <= a /\ a < (x + 1) * b
  BY Division
<1>2. q * b \in Nat /\ (q + 1) * b = q * b + b /\ (x + 1) * b = x * b + b /\ x * b \in Nat
  OBVIOUS
<1>3. ~(q < x)
  <2> SUFFICES ASSUME q < x PROVE FALSE
    OBVIOUS
  <2>1. (q + 1) * b <= x * b
    BY Products
  <2> QED
    BY <1>1, <1>2, <2>1
<1>4. ~(x < q)
  <2> SUFFICES ASSUME x < q PROVE FALSE
    OBVIOUS
  <2>1. (x + 1) * b <= q * b
    BY Products
  <2> QED
    BY <1>1, <1>2, <2>1
<1>5. x = q
  BY <1>3, <1>4
<1>6. a % b = a - b * (a \div b)
  OBVIOUS
<1>7. b * q = q * b
  OBVIOUS
<1> QED
  BY <1>1, <1>2, <1>5, <1>6, <1>7

(* Which byte the j-th bit is in, and where there, both counted from 0.     *)
Quo(j) == (j - 1) \div ByteBits
Rem(j) == (j - 1) % ByteBits

(* A bit is in a byte, at a place within it. *)
LEMMA QuoRem ==
  ASSUME NEW j \in Nat \ {0}
  PROVE  /\ Quo(j) \in Nat /\ Rem(j) \in 0..(ByteBits - 1)
         /\ j - 1 = Quo(j) * ByteBits + Rem(j)
<1>1. j - 1 \in Nat /\ ByteBits \in Nat \ {0}
  BY ByteAssumption
<1>2. PICK a \in Nat : a = j - 1
  BY <1>1
<1>3. a \div ByteBits \in Nat /\ (a \div ByteBits) * ByteBits <= a /\ a < ((a \div ByteBits) + 1) * ByteBits
  BY <1>1, Division
<1>4. a % ByteBits = a - ByteBits * (a \div ByteBits)
  BY <1>1
<1>5. PICK q \in Nat : q = a \div ByteBits
  BY <1>3
<1>6. q * ByteBits \in Nat /\ (q + 1) * ByteBits = q * ByteBits + ByteBits /\ ByteBits * q = q * ByteBits
  BY <1>1
<1> QED
  BY <1>1, <1>2, <1>3, <1>4, <1>5, <1>6 DEF Quo, Rem

(* The next bit is at the next place, or the first of the next byte. *)
LEMMA QuoRemNext ==
  ASSUME NEW j \in Nat \ {0}
  PROVE  /\ Rem(j) + 1 = ByteBits => Quo(j + 1) = Quo(j) + 1 /\ Rem(j + 1) = 0
         /\ Rem(j) + 1 # ByteBits => Quo(j + 1) = Quo(j) /\ Rem(j + 1) = Rem(j) + 1
<1>1. ByteBits \in Nat \ {0} /\ ByteBits > 1
  BY ByteAssumption
<1>2. PICK q \in Nat, r \in 0..(ByteBits - 1) : q = Quo(j) /\ r = Rem(j) /\ j - 1 = q * ByteBits + r
  BY QuoRem
<1>3. q * ByteBits \in Nat /\ (q + 1) * ByteBits = q * ByteBits + ByteBits
  BY <1>1
<1>4. CASE r + 1 = ByteBits
  <2>1. j = (q + 1) * ByteBits + 0
    BY <1>1, <1>2, <1>3, <1>4
  <2>2. j \div ByteBits = q + 1 /\ j % ByteBits = 0
    BY <1>1, <2>1, Quotient
  <2> QED
    BY <1>2, <1>4, <2>2 DEF Quo, Rem
<1>5. CASE r + 1 # ByteBits
  <2>1. j = q * ByteBits + (r + 1) /\ r + 1 \in Nat /\ r + 1 < ByteBits
    BY <1>1, <1>2, <1>3, <1>5
  <2>2. j \div ByteBits = q /\ j % ByteBits = r + 1
    BY <1>1, <2>1, Quotient
  <2> QED
    BY <1>2, <1>5, <2>2 DEF Quo, Rem
<1> QED
  BY <1>4, <1>5

(* The first bit is the first of the first byte. *)
LEMMA QuoRemFirst == Quo(1) = 0 /\ Rem(1) = 0
<1>1. 0 = 0 * ByteBits + 0 /\ ByteBits \in Nat \ {0}
  BY ByteAssumption
<1>2. 0 \div ByteBits = 0 /\ 0 % ByteBits = 0
  BY <1>1, Quotient
<1> QED
  BY <1>2 DEF Quo, Rem

(* Bytes follow one another. *)
LEMMA QuoMonotone ==
  ASSUME NEW j \in Nat \ {0}, NEW k \in Nat, j < k
  PROVE  Quo(j) < Quo(k) \/ (Quo(j) = Quo(k) /\ Rem(j) < Rem(k))
<1>1. PICK q \in Nat, r \in 0..(ByteBits - 1) : q = Quo(j) /\ r = Rem(j) /\ j - 1 = q * ByteBits + r
  BY QuoRem
<1>2. PICK p \in Nat, s \in 0..(ByteBits - 1) : p = Quo(k) /\ s = Rem(k) /\ k - 1 = p * ByteBits + s
  BY QuoRem
<1>3. ByteBits \in Nat
  BY ByteAssumption
<1>4. ~(p < q)
  <2> SUFFICES ASSUME p < q PROVE FALSE
    OBVIOUS
  <2>1. (p + 1) * ByteBits <= q * ByteBits /\ q * ByteBits \in Nat
    BY <1>3, Products
  <2>2. (p + 1) * ByteBits = p * ByteBits + ByteBits /\ p * ByteBits \in Nat
    BY <1>3
  <2> QED
    BY <1>1, <1>2, <1>3, <2>1, <2>2
<1>5. CASE p = q
  <2>1. q * ByteBits \in Nat
    BY <1>3
  <2> QED
    BY <1>1, <1>2, <1>3, <1>5, <2>1
<1> QED
  BY <1>1, <1>2, <1>4, <1>5

(* The bytes that n bits fill.                                              *)
LEMMA BytesFilled ==
  ASSUME NEW n \in Nat
  PROVE  (n + ByteBits - 1) \div ByteBits = IF n = 0 THEN 0 ELSE Quo(n) + 1
<1>1. ByteBits \in Nat \ {0}
  BY ByteAssumption
<1>2. CASE n = 0
  <2>1. PICK r \in Nat : r = n + ByteBits - 1
    BY <1>1, <1>2
  <2>2. r = 0 * ByteBits + r /\ r < ByteBits
    BY <1>1, <1>2, <2>1
  <2>3. r \div ByteBits = 0
    BY <1>1, <2>2, Quotient
  <2> QED
    BY <1>2, <2>1, <2>3
<1>3. CASE n # 0
  <2>1. PICK q \in Nat, r \in 0..(ByteBits - 1) : q = Quo(n) /\ r = Rem(n) /\ n - 1 = q * ByteBits + r
    BY <1>3, QuoRem
  <2>2. (q + 1) * ByteBits = q * ByteBits + ByteBits /\ q * ByteBits \in Nat
    BY <1>1
  <2>3. PICK a \in Nat : a = n + ByteBits - 1
    BY <1>1
  <2>4. a = (q + 1) * ByteBits + r
    BY <1>1, <2>1, <2>2, <2>3
  <2>5. a \div ByteBits = q + 1
    BY <1>1, <2>4, Quotient
  <2> QED
    BY <1>3, <2>1, <2>3, <2>5
<1> QED
  BY <1>2, <1>3

----------------------------------------------------------------------------
(* Bits and their weights. *)

(* The weights of the bits are powers of two. *)
LEMMA WeightsAre ==
  Weight = [k \in 0..ByteBits |-> IF k = 0 THEN 1 ELSE 2 * Weight[k - 1]]
<1> DEFINE Solved(m) == \E f : f = [k \in 0..m |-> IF k = 0 THEN 1 ELSE 2 * f[k - 1]]
           T == {m \in Nat : Solved(m)}
<1>1. 0 \in T
  <2>1. [k \in 0..0 |-> 1] = [k \in 0..0 |-> IF k = 0 THEN 1 ELSE 2 * [i \in 0..0 |-> 1][k - 1]]
    OBVIOUS
  <2> QED
    BY <2>1
<1>2. ASSUME NEW m \in Nat, m \in T
      PROVE  m + 1 \in T
  <2>1. PICK f : f = [k \in 0..m |-> IF k = 0 THEN 1 ELSE 2 * f[k - 1]]
    BY <1>2
  <2> DEFINE g == [k \in 0..(m + 1) |-> IF k = m + 1 THEN 2 * f[m] ELSE f[k]]
  <2>2. ASSUME NEW k \in 0..(m + 1)
        PROVE  g[k] = IF k = 0 THEN 1 ELSE 2 * g[k - 1]
    <3>1. CASE k = m + 1
      <4>1. k # 0 /\ k - 1 = m /\ m \in 0..(m + 1) /\ m # m + 1
        BY <3>1
      <4> QED
        BY <3>1, <4>1
    <3>2. CASE k # m + 1
      <4>1. k \in 0..m /\ (k # 0 => k - 1 \in 0..(m + 1) /\ k - 1 # m + 1)
        BY <3>2
      <4>2. f[k] = IF k = 0 THEN 1 ELSE 2 * f[k - 1]
        BY <2>1, <4>1
      <4> QED
        BY <3>2, <4>1, <4>2
    <3> QED
      BY <3>1, <3>2
  <2>3. g = [k \in 0..(m + 1) |-> g[k]]
    OBVIOUS
  <2>4. g = [k \in 0..(m + 1) |-> IF k = 0 THEN 1 ELSE 2 * g[k - 1]]
    <3> HIDE DEF g
    <3> QED
      BY <2>2, <2>3
  <2>5. Solved(m + 1)
    <3> HIDE DEF g
    <3> QED
      BY <2>4
  <2> HIDE DEF Solved
  <2> QED
    BY <2>5
<1>3. ByteBits \in T
  <2> HIDE DEF T
  <2> QED
    BY <1>1, <1>2, Bytes!NatInductive, ByteAssumption
<1>4. \E f : f = [k \in 0..ByteBits |-> IF k = 0 THEN 1 ELSE 2 * f[k - 1]]
  BY <1>3
<1> QED
  BY <1>4 DEF Weight

(* The weights are positive and double from bit to bit. *)
LEMMA Weights ==
  /\ Weight[0] = 1
  /\ \A k \in 0..ByteBits : Weight[k] \in Nat \ {0}
  /\ \A k \in 0..(ByteBits - 1) : Weight[k + 1] = 2 * Weight[k]
<1>1. ByteBits \in Nat /\ ByteBits > 1
  BY ByteAssumption
<1>2. Weight[0] = 1
  BY <1>1, WeightsAre
<1>3. ASSUME NEW k \in 0..(ByteBits - 1)
      PROVE  Weight[k + 1] = 2 * Weight[k]
  <2>1. k + 1 \in 0..ByteBits /\ k + 1 # 0 /\ (k + 1) - 1 = k
    BY <1>1
  <2> QED
    BY <2>1, WeightsAre
<1> DEFINE T == {m \in Nat : m <= ByteBits => Weight[m] \in Nat \ {0}}
<1>4. 0 \in T
  BY <1>2
<1>5. ASSUME NEW m \in Nat, m \in T
      PROVE  m + 1 \in T
  <2>1. CASE m + 1 <= ByteBits
    <3>1. m \in 0..(ByteBits - 1) /\ m <= ByteBits
      BY <1>1, <2>1
    <3>2. Weight[m] \in Nat \ {0} /\ Weight[m + 1] = 2 * Weight[m]
      BY <1>3, <1>5, <3>1
    <3> QED
      BY <3>2
  <2> QED
    BY <2>1
<1>6. \A m \in Nat : m \in T
  <2> HIDE DEF T
  <2> QED
    BY <1>4, <1>5, Bytes!NatInductive
<1> QED
  BY <1>1, <1>2, <1>3, <1>6

(* A weight is an even multiple of each smaller one.                        *)
LEMMA WeightsDivide ==
  ASSUME NEW j \in Nat, NEW p \in Nat, j < p, p <= ByteBits
  PROVE  \E m \in Nat : Weight[p] = (2 * m) * Weight[j]
<1>1. ByteBits \in Nat /\ j \in 0..(ByteBits - 1) /\ j \in 0..ByteBits
  BY ByteAssumption
<1>2. PICK w \in Nat \ {0} : w = Weight[j]
  BY <1>1, Weights
<1> DEFINE T == {d \in Nat : j + d + 1 <= ByteBits => \E m \in Nat : Weight[j + d + 1] = (2 * m) * w}
<1>3. 0 \in T
  <2>1. Weight[j + 1] = (2 * 1) * w /\ j + 0 + 1 = j + 1
    BY <1>1, <1>2, Weights
  <2> QED
    BY <2>1
<1>4. ASSUME NEW d \in Nat, d \in T
      PROVE  d + 1 \in T
  <2>1. CASE j + (d + 1) + 1 <= ByteBits
    <3>1. PICK q \in Nat : q = j + d + 1
      OBVIOUS
    <3>2. q <= ByteBits /\ q \in 0..(ByteBits - 1) /\ j + (d + 1) + 1 = q + 1
      BY <1>1, <2>1, <3>1
    <3>3. PICK m \in Nat : Weight[q] = (2 * m) * w
      BY <1>4, <3>1, <3>2
    <3>4. Weight[q + 1] = 2 * ((2 * m) * w)
      BY <3>2, <3>3, Weights
    <3>5. 2 * ((2 * m) * w) = (2 * (2 * m)) * w /\ 2 * m \in Nat
      <4>1. PICK x \in Nat : x = 2 * m
        OBVIOUS
      <4>2. (x + x) * w = x * w + x * w
        BY <1>2
      <4>3. 2 * (x * w) = x * w + x * w /\ 2 * x = x + x
        BY <1>2
      <4> QED
        BY <4>1, <4>2, <4>3
    <3>6. PICK n \in Nat : n = 2 * m
      OBVIOUS
    <3>7. Weight[q + 1] = (2 * n) * w
      BY <3>4, <3>5, <3>6
    <3> QED
      BY <3>2, <3>7
  <2> QED
    BY <2>1
<1>5. \A d \in Nat : d \in T
  <2> HIDE DEF T
  <2> QED
    BY <1>3, <1>4, Bytes!NatInductive
<1>6. p - j - 1 \in Nat /\ j + (p - j - 1) + 1 = p
  OBVIOUS
<1> QED
  BY <1>2, <1>5, <1>6

(* The bit at position p of a byte. *)
BitAt(byte, p) == (byte \div Weight[p]) % 2
AsBit(b) == IF b THEN 1 ELSE 0

(* A bit that is set above the others leaves them as they are.              *)
LEMMA LowerBitsKept ==
  ASSUME NEW byte \in Nat, NEW j \in Nat, NEW p \in Nat, j < p, p <= ByteBits, NEW c \in {0, 1}
  PROVE  BitAt(byte + c * Weight[p], j) = BitAt(byte, j)
<1>1. j \in 0..ByteBits
  BY ByteAssumption
<1>2. PICK w \in Nat \ {0} : w = Weight[j]
  BY <1>1, Weights
<1>3. PICK m \in Nat : Weight[p] = (2 * m) * w
  BY <1>2, WeightsDivide
<1>4. PICK e \in Nat : e = c * m
  OBVIOUS
<1>5. c * Weight[p] = (2 * e) * w
  <2>1. c * ((2 * m) * w) = (2 * (c * m)) * w
    BY <1>2
  <2> QED
    BY <1>3, <1>4, <2>1
<1>6. PICK q \in Nat : q = byte \div w /\ q * w <= byte /\ byte < (q + 1) * w
  BY <1>2, Division
<1>7. q * w \in Nat /\ (q + 1) * w = q * w + w /\ (q + 2 * e) * w = q * w + (2 * e) * w /\ (2 * e) * w \in Nat
  BY <1>2
<1>8. PICK r \in Nat : r = byte - q * w
  BY <1>6, <1>7
<1>9. byte + (2 * e) * w = (q + 2 * e) * w + r /\ r < w
  BY <1>6, <1>7, <1>8
<1>10. (byte + (2 * e) * w) \div w = q + 2 * e
  <2>1. q + 2 * e \in Nat /\ byte + (2 * e) * w \in Nat
    BY <1>7
  <2> QED
    BY <1>9, <2>1, Quotient
<1>11. (q + 2 * e) % 2 = q % 2
  OBVIOUS
<1> QED
  BY <1>2, <1>5, <1>6, <1>10, <1>11 DEF BitAt

(* ... and is itself what it was set to.                                    *)
LEMMA TopBitSet ==
  ASSUME NEW p \in Nat, p < ByteBits, NEW byte \in Nat, byte < Weight[p], NEW c \in {0, 1}
  PROVE  /\ BitAt(byte + c * Weight[p], p) = c
         /\ byte + c * Weight[p] \in Nat
         /\ byte + c * Weight[p] < Weight[p + 1]
<1>1. p \in 0..ByteBits /\ p \in 0..(ByteBits - 1)
  BY ByteAssumption
<1>2. PICK w \in Nat \ {0} : w = Weight[p] /\ Weight[p + 1] = 2 * w
  BY <1>1, Weights
<1>3. byte + c * w = c * w + byte /\ c \in Nat /\ byte + c * w \in Nat
  BY <1>2
<1>4. (byte + c * w) \div w = c
  <2>1. PICK a \in Nat : a = byte + c * w
    BY <1>3
  <2>2. a = c * w + byte /\ c \in Nat /\ byte < w
    BY <1>2, <1>3, <2>1
  <2>3. a \div w = c
    BY <2>2, Quotient
  <2> QED
    BY <2>1, <2>3
<1>5. c % 2 = c
  OBVIOUS
<1>6. byte + c * w < 2 * w
  <2>1. CASE c = 0
    BY <1>2, <2>1
  <2>2. CASE c = 1
    BY <1>2, <2>2
  <2> QED
    BY <2>1, <2>2
<1>7. (byte + c * w) \div Weight[p] = c /\ byte + c * w < Weight[p + 1]
  BY <1>2, <1>4, <1>6
<1>8. byte + c * Weight[p] = byte + c * w
  BY <1>2
<1>9. BitAt(byte + c * w, p) = c
  BY <1>5, <1>7 DEF BitAt
<1> QED
  BY <1>3, <1>7, <1>8, <1>9

----------------------------------------------------------------------------
(* Packing bits (serialize of a bitmap). *)

(* serialize<vector<bool>> as a sequence of steps. *)
LEMMA BytesUnfold ==
  ASSUME NEW n \in Nat, NEW bits, DOMAIN bits = 1..n
  PROVE  \E h : /\ h[0] = [out |-> <<Len(bits)>>, byte |-> 0, pos |-> 0]
                /\ \A k \in 1..n : h[k] = PackBit(h[k - 1], bits[k])
                /\ FillBytes(bits) = h[n]
<1> DEFINE base == [out |-> <<Len(bits)>>, byte |-> 0, pos |-> 0]
<1>1. FillBytes(bits) = Bytes!Fold(base, bits)
  BY DEF FillBytes, Bytes!Fold, FoldLeft, MapThenFoldSet, Bytes!Top, Max
<1> HIDE DEF base
<1>2. PICK h : /\ h[0] = base
               /\ \A k \in 1..n : h[k] = PackBit(h[k - 1], bits[k])
               /\ Bytes!Fold(base, bits) = h[n]
  BY Bytes!FoldUnfolds
<1> QED
  BY <1>1, <1>2 DEF base

(* After k bits: those of the byte in hand are in it, the others behind    *)
(* the length in what is written.                                          *)
FilledTo(s, bits, k) ==
  /\ s \in [out : Seq(Int), byte : Nat, pos : Nat]
  /\ s.pos = Rem(k) + 1 /\ Len(s.out) = Quo(k) + 1 /\ s.out[1] = Len(bits)
  /\ s.byte < Weight[s.pos]
  /\ \A j \in 1..k :
       BitAt(IF Quo(j) = Quo(k) THEN s.byte ELSE s.out[Quo(j) + 2], Rem(j)) = AsBit(bits[j])

(* A byte with a single bit. *)
LEMMA SingleBit ==
  ASSUME NEW c \in {0, 1}
  PROVE  c < Weight[1] /\ BitAt(c, 0) = c
<1>1. Weight[0] = 1 /\ Weight[0 + 1] = 2 * Weight[0]
  BY Weights, ByteAssumption
<1>2. (c \div 1) % 2 = c
  OBVIOUS
<1> QED
  BY <1>1, <1>2 DEF BitAt

(* The first bit makes the first byte. *)
LEMMA FirstBit ==
  ASSUME NEW bits \in Seq(BOOLEAN), Len(bits) # 0
  PROVE  FilledTo(PackBit([out |-> <<Len(bits)>>, byte |-> 0, pos |-> 0], bits[1]), bits, 1)
<1> DEFINE s == PackBit([out |-> <<Len(bits)>>, byte |-> 0, pos |-> 0], bits[1])
<1>1. bits[1] \in BOOLEAN /\ AsBit(bits[1]) \in {0, 1} /\ Len(bits) \in Nat
  BY DEF AsBit
<1>2. PICK c \in {0, 1} : c = AsBit(bits[1])
  BY <1>1
<1>3. Weight[0] = 1 /\ ByteBits # 0
  BY Weights, ByteAssumption
<1>4. s = [out |-> <<Len(bits)>>, byte |-> 0 + c * Weight[0], pos |-> 0 + 1]
  BY <1>2, <1>3 DEF PackBit, AsBit
<1>5. 0 + c * Weight[0] = c
  BY <1>3
<1>6. s = [out |-> <<Len(bits)>>, byte |-> c, pos |-> 1]
  BY <1>4, <1>5
<1>7. Quo(1) = 0 /\ Rem(1) = 0
  BY QuoRemFirst
<1>8. c < Weight[1] /\ BitAt(c, 0) = c
  BY SingleBit
<1>9. <<Len(bits)>> \in Seq(Int) /\ Len(<<Len(bits)>>) = 1 /\ <<Len(bits)>>[1] = Len(bits)
  BY <1>1
<1> HIDE DEF s
<1>10. \A j \in 1..1 : j = 1
  OBVIOUS
<1>11. FilledTo(s, bits, 1)
  BY <1>2, <1>6, <1>7, <1>8, <1>9, <1>10 DEF FilledTo
<1> QED
  BY <1>11 DEF s

(* Every further bit goes into the last byte, or begins a new one, and     *)
(* leaves those before it as they are. *)
LEMMA NextBit ==
  ASSUME NEW bits \in Seq(BOOLEAN), NEW k \in Nat \ {0}, k + 1 <= Len(bits),
         NEW s, FilledTo(s, bits, k)
  PROVE  FilledTo(PackBit(s, bits[k + 1]), bits, k + 1)
<1> DEFINE u == PackBit(s, bits[k + 1])
<1>1. bits[k + 1] \in BOOLEAN /\ Len(bits) \in Nat /\ ByteBits \in Nat \ {0}
  BY ByteAssumption
<1>2. PICK c \in {0, 1} : c = AsBit(bits[k + 1])
  BY <1>1 DEF AsBit
<1>3. PICK out, byte, pos :
        /\ s = [out |-> out, byte |-> byte, pos |-> pos]
        /\ out \in Seq(Int) /\ byte \in Nat /\ pos \in Nat
  BY DEF FilledTo
<1>4. /\ pos = Rem(k) + 1 /\ Len(out) = Quo(k) + 1 /\ out[1] = Len(bits)
      /\ byte < Weight[pos]
      /\ \A j \in 1..k : BitAt(IF Quo(j) = Quo(k) THEN byte ELSE out[Quo(j) + 2], Rem(j)) = AsBit(bits[j])
  BY <1>3 DEF FilledTo
<1>5. Quo(k) \in Nat /\ Rem(k) \in 0..(ByteBits - 1)
  BY QuoRem
<1>6. ASSUME NEW j \in 1..k
      PROVE  /\ Quo(j) \in Nat /\ Rem(j) \in Nat
             /\ Quo(j) < Quo(k) \/ (Quo(j) = Quo(k) /\ Rem(j) <= Rem(k))
  <2>0. j \in Nat \ {0}
    OBVIOUS
  <2>1. Quo(j) \in Nat /\ Rem(j) \in Nat
    <3>1. Quo(j) \in Nat /\ Rem(j) \in 0..(ByteBits - 1)
      BY <2>0, QuoRem
    <3> QED
      BY <1>1, <3>1
  <2>2. CASE j = k
    BY <1>5, <2>1, <2>2
  <2>3. CASE j # k
    <3>1. Quo(j) < Quo(k) \/ (Quo(j) = Quo(k) /\ Rem(j) < Rem(k))
      BY <2>0, <2>3, QuoMonotone
    <3> QED
      BY <1>5, <2>1, <3>1
  <2> QED
    BY <2>1, <2>2, <2>3
<1>7. CASE pos = ByteBits
  <2>1. Quo(k + 1) = Quo(k) + 1 /\ Rem(k + 1) = 0
    BY <1>4, <1>7, QuoRemNext
  <2>2. u = [out |-> Append(out, byte), byte |-> c, pos |-> 1]
    BY <1>2, <1>3, <1>7 DEF PackBit, AsBit
  <2>3. c < Weight[1] /\ BitAt(c, 0) = c
    BY SingleBit
  <2>4. PICK new : new = Append(out, byte)
    OBVIOUS
  <2>5. /\ new \in Seq(Int) /\ Len(new) = Quo(k) + 2
        /\ new[Quo(k) + 2] = byte
        /\ \A i \in 1..(Quo(k) + 1) : new[i] = out[i]
    BY <1>3, <1>4, <1>5, <2>4
  <2>6. ASSUME NEW j \in 1..(k + 1)
        PROVE  BitAt(IF Quo(j) = Quo(k + 1) THEN c ELSE new[Quo(j) + 2], Rem(j)) = AsBit(bits[j])
    <3>1. CASE j = k + 1
      BY <1>2, <2>1, <2>3, <3>1
    <3>2. CASE j # k + 1
      <4>1. j \in 1..k
        BY <3>2
      <4>2. Quo(j) # Quo(k + 1) /\ Quo(j) \in Nat
        BY <1>5, <1>6, <2>1, <4>1
      <4>3. new[Quo(j) + 2] = IF Quo(j) = Quo(k) THEN byte ELSE out[Quo(j) + 2]
        <5>1. CASE Quo(j) = Quo(k)
          BY <2>5, <5>1
        <5>2. CASE Quo(j) # Quo(k)
          <6>1. Quo(j) + 2 \in 1..(Quo(k) + 1)
            BY <1>5, <1>6, <4>1, <5>2
          <6> QED
            BY <2>5, <5>2, <6>1
        <5> QED
          BY <5>1, <5>2
      <4> QED
        BY <1>4, <4>1, <4>2, <4>3
    <3> QED
      BY <3>1, <3>2
  <2>7. new[1] = Len(bits)
    BY <1>4, <1>5, <2>5
  <2> HIDE DEF u
  <2>8. u = [out |-> new, byte |-> c, pos |-> 1] /\ c \in Nat
    BY <2>2, <2>4
  <2>9. u \in [out : Seq(Int), byte : Nat, pos : Nat] /\ u.out = new /\ u.byte = c /\ u.pos = 1
    BY <2>5, <2>8
  <2>10. 1 = Rem(k + 1) + 1 /\ Len(new) = Quo(k + 1) + 1
    BY <1>5, <2>1, <2>5
  <2>11. FilledTo(u, bits, k + 1)
    BY <2>3, <2>6, <2>7, <2>9, <2>10 DEF FilledTo
  <2> QED
    BY <2>11 DEF u
<1>8. CASE pos # ByteBits
  <2>1. Quo(k + 1) = Quo(k) /\ Rem(k + 1) = pos
    BY <1>4, <1>8, QuoRemNext
  <2>2. pos < ByteBits
    BY <1>1, <1>4, <1>5, <1>8
  <2>3. PICK more : more = byte + c * Weight[pos]
    OBVIOUS
  <2>4. u = [out |-> out, byte |-> more, pos |-> pos + 1]
    BY <1>2, <1>3, <1>8, <2>3 DEF PackBit, AsBit
  <2>5. /\ BitAt(more, pos) = c /\ more \in Nat /\ more < Weight[pos + 1]
    BY <1>3, <1>4, <2>2, <2>3, TopBitSet
  <2>6. ASSUME NEW j \in 1..(k + 1)
        PROVE  BitAt(IF Quo(j) = Quo(k + 1) THEN more ELSE out[Quo(j) + 2], Rem(j)) = AsBit(bits[j])
    <3>1. CASE j = k + 1
      BY <1>2, <2>1, <2>5, <3>1
    <3>2. CASE j # k + 1
      <4>1. j \in 1..k
        BY <3>2
      <4>2. Quo(j) = Quo(k) => BitAt(more, Rem(j)) = BitAt(byte, Rem(j))
        <5> SUFFICES ASSUME Quo(j) = Quo(k)
                     PROVE  BitAt(more, Rem(j)) = BitAt(byte, Rem(j))
          OBVIOUS
        <5>1. PICK r : r = Rem(j)
          OBVIOUS
        <5>2. r < pos /\ r \in Nat
          <6>1. pos = Rem(k) + 1
            BY <1>4
          <6>2. Quo(j) \in Nat /\ Rem(j) \in Nat
                /\ (Quo(j) < Quo(k) \/ (Quo(j) = Quo(k) /\ Rem(j) <= Rem(k)))
            BY <1>6, <4>1
          <6> QED
            BY <1>5, <5>1, <6>1, <6>2
        <5>3. pos \in Nat /\ pos <= ByteBits /\ byte \in Nat
          BY <1>1, <1>3, <2>2
        <5>4. BitAt(byte + c * Weight[pos], r) = BitAt(byte, r)
          BY <5>2, <5>3, LowerBitsKept
        <5> QED
          BY <2>3, <5>1, <5>4
      <4> QED
        BY <1>4, <2>1, <4>1, <4>2
    <3> QED
      BY <3>1, <3>2
  <2> HIDE DEF u
  <2>7. u \in [out : Seq(Int), byte : Nat, pos : Nat] /\ u.out = out /\ u.byte = more /\ u.pos = pos + 1
    BY <1>3, <2>4, <2>5
  <2>8. FilledTo(u, bits, k + 1)
    BY <1>4, <2>1, <2>5, <2>6, <2>7 DEF FilledTo
  <2> QED
    BY <2>8 DEF u
<1> QED
  BY <1>7, <1>8

(* Where a bit is in what is written: behind the length, in its byte.       *)
PackedBits(out, bits) ==
  /\ out \in Seq(Int)
  /\ Len(out) = 1 + (Len(bits) + ByteBits - 1) \div ByteBits
  /\ out[1] = Len(bits)
  /\ \A j \in 1..Len(bits) : BitAt(out[Quo(j) + 2], Rem(j)) = AsBit(bits[j])

(* No bit is lost around the end of a byte.                                 *)
LEMMA BitsPacked ==
  ASSUME NEW bits \in Seq(BOOLEAN)
  PROVE  PackedBits(PackBits(bits), bits)
<1>0. PICK n \in Nat : n = Len(bits)
  OBVIOUS
<1> DEFINE start == [out |-> <<n>>, byte |-> 0, pos |-> 0]
<1>1. n \in Nat /\ DOMAIN bits = 1..n
  BY <1>0
<1>2. PICK h : /\ h[0] = start
               /\ \A k \in 1..n : h[k] = PackBit(h[k - 1], bits[k])
               /\ FillBytes(bits) = h[n]
  BY <1>0, <1>1, BytesUnfold
<1>3. PackBits(bits) = IF h[n].pos > 0 THEN Append(h[n].out, h[n].byte) ELSE h[n].out
  BY <1>2 DEF PackBits
<1>4. CASE n = 0
  <2>1. PackBits(bits) = <<0>>
    BY <1>2, <1>3, <1>4
  <2>2. (n + ByteBits - 1) \div ByteBits = 0
    BY <1>1, <1>4, BytesFilled
  <2>3. <<0>> \in Seq(Int) /\ Len(<<0>>) = 1 /\ <<0>>[1] = 0 /\ \A j \in 1..0 : FALSE
    OBVIOUS
  <2> QED
    BY <1>0, <1>4, <2>1, <2>2, <2>3 DEF PackedBits
<1>5. CASE n # 0
  <2> DEFINE T == {k \in Nat : k + 1 <= n => FilledTo(h[k + 1], bits, k + 1)}
  <2>1. 0 \in T
    <3>1. 1 \in 1..n /\ 1 - 1 = 0
      BY <1>1, <1>5
    <3>2. h[1] = PackBit(start, bits[1])
      BY <1>2, <3>1
    <3> QED
      BY <1>0, <1>5, <3>2, FirstBit
  <2>2. ASSUME NEW k \in Nat, k \in T
        PROVE  k + 1 \in T
    <3>1. CASE (k + 1) + 1 <= n
      <4>1. k + 1 <= n /\ (k + 1) + 1 \in 1..n /\ ((k + 1) + 1) - 1 = k + 1 /\ k + 1 \in Nat \ {0}
        BY <1>1, <3>1
      <4>2. FilledTo(h[k + 1], bits, k + 1)
        BY <2>2, <4>1
      <4>3. h[(k + 1) + 1] = PackBit(h[k + 1], bits[(k + 1) + 1])
        BY <1>2, <4>1
      <4>4. FilledTo(h[(k + 1) + 1], bits, (k + 1) + 1)
        BY <1>0, <3>1, <4>1, <4>2, <4>3, NextBit
      <4> QED
        BY <4>4
    <3> QED
      BY <3>1
  <2>3. \A k \in Nat : k \in T
    <3> HIDE DEF T
    <3> QED
      BY <2>1, <2>2, Bytes!NatInductive
  <2>4. FilledTo(h[n], bits, n)
    <3>1. n - 1 \in Nat /\ (n - 1) + 1 = n
      BY <1>1, <1>5
    <3> QED
      BY <2>3, <3>1
  <2>5. PICK front, byte, pos : front = h[n].out /\ byte = h[n].byte /\ pos = h[n].pos
    OBVIOUS
  <2>6. /\ front \in Seq(Int) /\ byte \in Nat /\ pos \in Nat
        /\ pos = Rem(n) + 1 /\ Len(front) = Quo(n) + 1 /\ front[1] = n
        /\ \A j \in 1..n :
             BitAt(IF Quo(j) = Quo(n) THEN byte ELSE front[Quo(j) + 2], Rem(j)) = AsBit(bits[j])
    BY <1>0, <2>4, <2>5 DEF FilledTo
  <2>7. Quo(n) \in Nat /\ Rem(n) \in Nat
    <3>1. Quo(n) \in Nat /\ Rem(n) \in 0..(ByteBits - 1)
      BY <1>1, <1>5, QuoRem
    <3> QED
      BY <3>1, ByteAssumption
  <2>8. PICK out : out = Append(front, byte)
    OBVIOUS
  <2>9. PackBits(bits) = out
    <3>1. pos > 0
      BY <2>6, <2>7
    <3> QED
      BY <1>3, <2>5, <2>8, <3>1
  <2>10. /\ out \in Seq(Int) /\ Len(out) = Quo(n) + 2
         /\ out[Quo(n) + 2] = byte
         /\ \A i \in 1..(Quo(n) + 1) : out[i] = front[i]
    <3>1. PICK q \in Nat : q = Quo(n)
      BY <2>7
    <3>2. front \in Seq(Int) /\ byte \in Int /\ Len(front) = q + 1
      BY <2>6, <3>1
    <3>3. /\ out \in Seq(Int) /\ Len(out) = q + 2 /\ out[q + 2] = byte
          /\ \A i \in 1..(q + 1) : out[i] = front[i]
      BY <2>8, <3>2
    <3> QED
      BY <3>1, <3>3
  <2>11. out[1] = n
    <3>1. 1 \in 1..(Quo(n) + 1)
      BY <2>7
    <3> QED
      BY <2>6, <2>10, <3>1
  <2>12. ASSUME NEW j \in 1..n
         PROVE  BitAt(out[Quo(j) + 2], Rem(j)) = AsBit(bits[j])
    <3>1. out[Quo(j) + 2] = IF Quo(j) = Quo(n) THEN byte ELSE front[Quo(j) + 2]
      <4>1. CASE Quo(j) = Quo(n)
        BY <2>10, <4>1
      <4>2. CASE Quo(j) # Quo(n)
        <5>1. j # n /\ j \in Nat \ {0} /\ j < n
          BY <1>1, <4>2
        <5>2. Quo(j) < Quo(n) /\ Quo(j) \in Nat
          BY <1>1, <4>2, <5>1, QuoMonotone, QuoRem
        <5>3. Quo(j) + 2 \in 1..(Quo(n) + 1)
          BY <2>7, <5>2
        <5> QED
          BY <2>10, <4>2, <5>3
      <4> QED
        BY <4>1, <4>2
    <3> QED
      BY <2>6, <3>1
  <2>13. Len(out) = 1 + (n + ByteBits - 1) \div ByteBits
    <3>1. (n + ByteBits - 1) \div ByteBits = Quo(n) + 1
      BY <1>1, <1>5, BytesFilled
    <3> QED
      BY <2>7, <2>10, <3>1
  <2> QED
    BY <1>0, <2>9, <2>10, <2>11, <2>12, <2>13 DEF PackedBits
<1> QED
  BY <1>4, <1>5

----------------------------------------------------------------------------
(* Reading numbers and bits. *)

Reads == INSTANCE InductionLemmas WITH Combine <- ReadNext

(* The data has enc at pos, as far as the data goes. *)
Meets(data, pos, enc) ==
  \A i \in 1..Len(enc) : pos + i <= Len(data) + 1 => data[pos + i - 1] = enc[i]

(* What a reader makes of enc at pos: its value v, or the end of the        *)
(* process if the data ends before it.                                      *)
Got(r, data, pos, enc, v) ==
  IF pos + Len(enc) <= Len(data) + 1 THEN r.val = v /\ r.pos = pos + Len(enc) ELSE r.pos = 0

(* What has two parts at pos has the first there and the second behind it.  *)
LEMMA MeetsParts ==
  ASSUME NEW data \in Seq(Int), NEW pos \in 1..(Len(data) + 1), NEW a \in Seq(Int), NEW b \in Seq(Int),
         Meets(data, pos, a \o b)
  PROVE  Meets(data, pos, a) /\ Meets(data, pos + Len(a), b)
<1>1. PICK c : c = a \o b
  OBVIOUS
<1>2. PICK m \in Nat, n \in Nat, l \in Nat : m = Len(a) /\ n = Len(b) /\ l = Len(data)
  OBVIOUS
<1>3. /\ Len(c) = m + n
      /\ \A i \in 1..m : c[i] = a[i]
      /\ \A i \in 1..n : c[m + i] = b[i]
  BY <1>1, <1>2
<1>4. \A i \in 1..(m + n) : pos + i <= l + 1 => data[pos + i - 1] = c[i]
  BY <1>1, <1>2, <1>3 DEF Meets
<1>5. ASSUME NEW i \in 1..m, pos + i <= l + 1
      PROVE  data[pos + i - 1] = a[i]
  <2>1. i \in 1..(m + n)
    OBVIOUS
  <2> QED
    BY <1>3, <1>4, <1>5, <2>1
<1>6. ASSUME NEW i \in 1..n, (pos + m) + i <= l + 1
      PROVE  data[(pos + m) + i - 1] = b[i]
  <2>1. m + i \in 1..(m + n) /\ pos + (m + i) <= l + 1 /\ pos + (m + i) - 1 = (pos + m) + i - 1
    BY <1>6
  <2>2. data[pos + (m + i) - 1] = c[m + i]
    BY <1>4, <2>1
  <2> QED
    BY <1>3, <2>1, <2>2
<1> QED
  BY <1>2, <1>5, <1>6 DEF Meets

(* What is in the data as a whole is met there, whatever the data is cut to.*)
LEMMA NumberRead ==
  ASSUME NEW data \in Seq(Int), NEW pos \in 1..(Len(data) + 1), NEW enc \in Seq(Int),
         Len(enc) # 0, Meets(data, pos, enc)
  PROVE  /\ pos = Len(data) + 1 => ReadNumber(data, pos).pos = 0
         /\ pos # Len(data) + 1 => ReadNumber(data, pos) = [val |-> enc[1], pos |-> pos + 1]
<1>1. Len(data) \in Nat /\ DOMAIN data = 1..Len(data) /\ Len(enc) \in Nat /\ 1 \in 1..Len(enc)
  OBVIOUS
<1>2. CASE pos = Len(data) + 1
  <2>1. pos \notin DOMAIN data
    BY <1>1, <1>2
  <2> QED
    BY <1>2, <2>1 DEF ReadNumber, Failed
<1>3. CASE pos # Len(data) + 1
  <2>1. pos \in DOMAIN data /\ pos + 1 <= Len(data) + 1 /\ pos + 1 - 1 = pos
    BY <1>1, <1>3
  <2>2. data[pos] = enc[1]
    BY <1>1, <2>1 DEF Meets
  <2> QED
    BY <1>3, <2>1, <2>2 DEF ReadNumber
<1> QED
  BY <1>2, <1>3

(* What ReadNumber gives of a single number. *)
LEMMA SingleRead ==
  ASSUME NEW data \in Seq(Int), NEW pos \in 1..(Len(data) + 1), NEW v \in Int,
         Meets(data, pos, <<v>>)
  PROVE  Got(ReadNumber(data, pos), data, pos, <<v>>, v)
<1>1. PICK e : e = <<v>>
  OBVIOUS
<1>2. e \in Seq(Int) /\ Len(e) = 1 /\ e[1] = v /\ Len(data) \in Nat
  BY <1>1
<1>3. Meets(data, pos, e)
  BY <1>1
<1>4. /\ pos = Len(data) + 1 => ReadNumber(data, pos).pos = 0
      /\ pos # Len(data) + 1 => ReadNumber(data, pos) = [val |-> v, pos |-> pos + 1]
  <2>1. e \in Seq(Int) /\ Len(e) # 0
    BY <1>2
  <2>2. /\ pos = Len(data) + 1 => ReadNumber(data, pos).pos = 0
        /\ pos # Len(data) + 1 => ReadNumber(data, pos) = [val |-> e[1], pos |-> pos + 1]
    BY <1>3, <2>1, NumberRead
  <2> QED
    BY <1>2, <2>2
<1>5. Got(ReadNumber(data, pos), data, pos, e, v)
  BY <1>2, <1>4 DEF Got
<1> QED
  BY <1>1, <1>5

(* Nothing is read by who has failed before.                                *)
LEMMA NothingRead ==
  ASSUME NEW data \in Seq(Int)
  PROVE  ReadNumber(data, 0) = Failed
<1>1. 0 \notin DOMAIN data
  OBVIOUS
<1> QED
  BY <1>1 DEF ReadNumber

(* deserialize<vector<bool>> *)
LEMMA BitsRead ==
  ASSUME NEW data \in Seq(Int), NEW pos \in 1..(Len(data) + 1), NEW bits \in Seq(BOOLEAN),
         Meets(data, pos, PackBits(bits))
  PROVE  Got(ReadBits(data, pos), data, pos, PackBits(bits), bits)
<1>1. PICK enc, n, l : enc = PackBits(bits) /\ n = Len(bits) /\ l = Len(data)
  OBVIOUS
<1>2. PICK m : m = (n + ByteBits - 1) \div ByteBits
  OBVIOUS
<1>3. /\ enc \in Seq(Int) /\ Len(enc) = 1 + m /\ enc[1] = n
      /\ \A j \in 1..n : BitAt(enc[Quo(j) + 2], Rem(j)) = AsBit(bits[j])
  BY <1>1, <1>2, BitsPacked DEF PackedBits
<1>4. n \in Nat /\ l \in Nat /\ DOMAIN bits = 1..n
  BY <1>1
<1>5. m = IF n = 0 THEN 0 ELSE Quo(n) + 1
  BY <1>2, <1>4, BytesFilled
<1>6. m \in Nat
  <2>1. n # 0 => Quo(n) \in Nat
    BY <1>4, QuoRem
  <2> QED
    BY <1>5, <2>1
<1>7. CASE pos = l + 1
  <2>1. ReadNumber(data, pos).pos = 0
    BY <1>1, <1>3, <1>6, <1>7, NumberRead
  <2>2. ReadBits(data, pos).pos = 0
    BY <2>1 DEF ReadBits, Failed
  <2>3. ~(pos + Len(enc) <= l + 1)
    BY <1>3, <1>4, <1>6, <1>7
  <2> QED
    BY <1>1, <2>2, <2>3 DEF Got
<1>8. CASE pos # l + 1
  <2>1. ReadNumber(data, pos) = [val |-> n, pos |-> pos + 1]
    BY <1>1, <1>3, <1>6, <1>8, NumberRead
  <2> DEFINE bit(i) == (data[pos + 1 + (i - 1) \div ByteBits] \div Weight[(i - 1) % ByteBits]) % 2
  <2>2. ReadBits(data, pos) =
          IF pos + 1 + m - 1 > l THEN Failed
          ELSE [val |-> [i \in 1..n |-> bit(i) = 1], pos |-> pos + 1 + m]
    <3>1. pos + 1 # 0
      BY <1>4
    <3> QED
      BY <1>1, <1>2, <2>1, <3>1 DEF ReadBits
  <2>3. CASE pos + m > l
    <3>1. pos + 1 + m - 1 > l /\ ~(pos + Len(enc) <= l + 1)
      BY <1>3, <1>4, <1>6, <2>3
    <3>2. ReadBits(data, pos).pos = 0
      BY <2>2, <3>1 DEF Failed
    <3> QED
      BY <1>1, <3>1, <3>2 DEF Got
  <2>4. CASE ~(pos + m > l)
    <3>1. ~(pos + 1 + m - 1 > l) /\ pos + Len(enc) <= l + 1 /\ pos + 1 + m = pos + Len(enc)
      BY <1>3, <1>4, <1>6, <2>4
    <3>2. ASSUME NEW j \in 1..n
          PROVE  (bit(j) = 1) = bits[j]
      <4>1. j \in Nat \ {0} /\ Quo(j) \in Nat
        BY <1>4, QuoRem
      <4>2. Quo(j) + 2 \in 1..Len(enc)
        <5>1. Quo(j) <= Quo(n) /\ Quo(n) \in Nat
          <6>1. CASE j = n
            BY <4>1, <6>1
          <6>2. CASE j # n
            <7>1. j < n
              BY <1>4, <6>2
            <7>2. n \in Nat \ {0}
              BY <1>4, <4>1, <7>1
            <7>3. Quo(n) \in Nat
              BY <7>2, QuoRem
            <7>4. Quo(j) < Quo(n) \/ (Quo(j) = Quo(n) /\ Rem(j) < Rem(n))
              BY <4>1, <7>1, <7>2, QuoMonotone
            <7> QED
              BY <4>1, <7>3, <7>4
          <6> QED
            BY <6>1, <6>2
        <5>2. m = Quo(n) + 1
          BY <1>4, <1>5
        <5>3. Len(enc) = Quo(n) + 2
          BY <1>3, <5>1, <5>2
        <5> QED
          BY <4>1, <5>1, <5>3
      <4>3. pos + (Quo(j) + 2) <= l + 1
        BY <1>3, <1>4, <3>1, <4>1, <4>2
      <4>4. data[pos + (Quo(j) + 2) - 1] = enc[Quo(j) + 2]
        BY <1>1, <4>2, <4>3 DEF Meets
      <4>5. pos + (Quo(j) + 2) - 1 = pos + 1 + Quo(j)
        BY <4>1
      <4>6. bit(j) = BitAt(enc[Quo(j) + 2], Rem(j))
        BY <4>4, <4>5 DEF BitAt, Quo, Rem
      <4>7. bits[j] \in BOOLEAN
        BY <1>4
      <4> HIDE DEF bit
      <4> QED
        BY <1>3, <4>6, <4>7 DEF AsBit
    <3>3. [i \in 1..n |-> bit(i) = 1] = bits
      <4>1. bits = [i \in 1..n |-> bits[i]]
        BY <1>4
      <4> HIDE DEF bit
      <4> QED
        BY <3>2, <4>1
    <3>4. ReadBits(data, pos) = [val |-> bits, pos |-> pos + Len(enc)]
      <4> HIDE DEF bit
      <4> QED
        BY <2>2, <3>1, <3>3
    <3> QED
      BY <1>1, <3>1, <3>4 DEF Got
  <2> QED
    BY <2>3, <2>4
<1> QED
  BY <1>7, <1>8

----------------------------------------------------------------------------
(* Sequences in parts, and reading them. *)

(* Prefixes of a sequence of values. *)
UpTo(vals, k) == [i \in 1..k |-> vals[i]]

(* One more of the first values. *)
LEMMA UpToNext ==
  ASSUME NEW k \in Nat, NEW vals
  PROVE  Append(UpTo(vals, k), vals[k + 1]) = UpTo(vals, k + 1)
<1>1. PICK S : S = {vals[i] : i \in 1..(k + 1)}
  OBVIOUS
<1>2. PICK a, b : a = UpTo(vals, k) /\ b = UpTo(vals, k + 1)
  OBVIOUS
<1>3. a \in Seq(S) /\ Len(a) = k /\ b \in Seq(S) /\ Len(b) = k + 1 /\ vals[k + 1] \in S
  BY <1>1, <1>2 DEF UpTo
<1>4. PICK c : c = Append(a, vals[k + 1])
  OBVIOUS
<1>5. c \in Seq(S) /\ Len(c) = k + 1 /\ c[k + 1] = vals[k + 1] /\ \A i \in 1..k : c[i] = a[i]
  BY <1>3, <1>4
<1>6. \A i \in 1..(k + 1) : c[i] = b[i]
  <2>1. ASSUME NEW i \in 1..(k + 1)
        PROVE  c[i] = b[i]
    <3>1. CASE i = k + 1
      BY <1>2, <1>5, <3>1 DEF UpTo
    <3>2. CASE i # k + 1
      <4>1. i \in 1..k
        BY <3>2
      <4> QED
        BY <1>2, <1>5, <4>1 DEF UpTo
    <3> QED
      BY <3>1, <3>2
  <2> QED
    BY <2>1
<1>7. c = b
  BY <1>3, <1>5, <1>6
<1> QED
  BY <1>2, <1>4, <1>7

(* Flatten is FlattenSeq. *)
LEMMA FlattenSums ==
  ASSUME NEW S, NEW parts \in Seq(Seq(S)), NEW n, n = Len(parts)
  PROVE  \E h : Sums(h, parts, n) /\ FlattenSeq(parts) = h[n]
<1>1. FlattenSeq(parts) = Flatten(parts)
  BY DEF FlattenSeq, Flatten
<1> QED
  BY <1>1, FlattenUnfolds

NothingReadTo(pos) == [val |-> Nothing, pos |-> pos]

(* The reads of ReadMany as a sequence of steps. *)
ReadSteps(r, readers, pos, n) ==
  r[0] = NothingReadTo(pos) /\ \A k \in 1..n : r[k] = ReadNext(r[k - 1], readers[k])

(* What ReadMany returns is the last of such steps. *)
LEMMA ReadsUnfold ==
  ASSUME NEW pos, NEW n \in Nat, NEW readers, DOMAIN readers = 1..n
  PROVE  \E r : ReadSteps(r, readers, pos, n) /\ ReadMany(readers, pos) = r[n]
<1>1. ReadMany(readers, pos) = Reads!Fold(NothingReadTo(pos), readers)
  BY DEF NothingReadTo, Nothing, ReadMany, Reads!Fold, FoldLeft, MapThenFoldSet, Reads!Top, Max
<1>2. PICK r : /\ r[0] = NothingReadTo(pos)
               /\ \A k \in 1..n : r[k] = ReadNext(r[k - 1], readers[k])
               /\ Reads!Fold(NothingReadTo(pos), readers) = r[n]
  BY Reads!FoldUnfolds
<1> QED
  BY <1>1, <1>2 DEF ReadSteps

(* A reader that reads v where the data has enc, and fails where another   *)
(* has failed.                                                              *)
Reader(reader, data, enc, v) ==
  /\ \A p \in 1..(Len(data) + 1) : Meets(data, p, enc) => Got(reader[p], data, p, enc, v)
  /\ reader[0].pos = 0

(* Many values are read one behind the other. *)
LEMMA ManyRead ==
  ASSUME NEW data \in Seq(Int), NEW pos \in 1..(Len(data) + 1), NEW n \in Nat,
         NEW readers, DOMAIN readers = 1..n,
         NEW parts, \A k \in 1..n : parts[k] \in Seq(Int),
         NEW h, Sums(h, parts, n),
         NEW vals,
         \A k \in 1..n : Reader(readers[k], data, parts[k], vals[k]),
         Meets(data, pos, h[n])
  PROVE  Got(ReadMany(readers, pos), data, pos, h[n], UpTo(vals, n))
<1>1. \A k \in 0..n : h[k] \in Seq(Int)
  BY SumsAreSequences
<1>2. PICK l \in Nat : l = Len(data)
  OBVIOUS
<1>3. \A k \in 0..n : Meets(data, pos, h[k])
  <2> DEFINE T == {d \in Nat : d <= n => Meets(data, pos, h[n - d])}
  <2>1. 0 \in T
    OBVIOUS
  <2>2. ASSUME NEW d \in Nat, d \in T
        PROVE  d + 1 \in T
    <3>1. CASE d + 1 <= n
      <4>1. PICK k \in 1..n : k = n - d
        BY <3>1
      <4>2. n - (d + 1) = k - 1 /\ k - 1 \in 0..n /\ d <= n
        BY <3>1, <4>1
      <4>3. Meets(data, pos, h[k]) /\ h[k] = h[k - 1] \o parts[k]
        BY <2>2, <4>1, <4>2 DEF Sums
      <4>4. h[k - 1] \in Seq(Int) /\ parts[k] \in Seq(Int)
        BY <1>1, <4>2
      <4>5. Meets(data, pos, h[k - 1])
        BY <4>3, <4>4, MeetsParts
      <4> QED
        BY <4>2, <4>5
    <3> QED
      BY <3>1
  <2>3. \A d \in Nat : d \in T
    <3> HIDE DEF T
    <3> QED
      BY <2>1, <2>2, Reads!NatInductive
  <2>4. \A k \in 0..n : n - k \in Nat /\ n - k <= n /\ n - (n - k) = k
    OBVIOUS
  <2> QED
    BY <2>3, <2>4
<1>4. PICK r : ReadSteps(r, readers, pos, n) /\ ReadMany(readers, pos) = r[n]
  BY ReadsUnfold
<1> DEFINE T == {k \in Nat : k <= n => Got(r[k], data, pos, h[k], UpTo(vals, k))}
<1>5. 0 \in T
  <2>1. h[0] = Nothing /\ Len(Nothing) = 0 /\ UpTo(vals, 0) = Nothing
    BY DEF Sums, UpTo, Nothing
  <2>2. r[0].val = Nothing /\ r[0].pos = pos
    BY <1>4 DEF ReadSteps, NothingReadTo
  <2>3. pos + 0 = pos /\ pos + 0 <= Len(data) + 1
    BY <1>2
  <2>4. Got(r[0], data, pos, h[0], UpTo(vals, 0))
    BY <2>1, <2>2, <2>3 DEF Got
  <2> QED
    BY <2>4
<1>6. ASSUME NEW k \in Nat, k \in T
      PROVE  k + 1 \in T
  <2>1. CASE k + 1 <= n
    <3>1. k + 1 \in 1..n /\ (k + 1) - 1 = k /\ k <= n /\ k \in 0..n /\ k + 1 \in 0..n
      BY <2>1
    <3>2. PICK reader, part, a : reader = readers[k + 1] /\ part = parts[k + 1] /\ a = h[k]
      OBVIOUS
    <3>3. part \in Seq(Int) /\ a \in Seq(Int) /\ h[k + 1] = a \o part
      BY <1>1, <3>1, <3>2 DEF Sums
    <3>4. PICK x \in Nat, y \in Nat : x = Len(a) /\ y = Len(part)
      BY <3>3
    <3>5. Len(h[k + 1]) = x + y
      BY <3>3, <3>4
    <3>6. /\ r[k + 1].val = Append(r[k].val, reader[r[k].pos].val)
          /\ r[k + 1].pos = reader[r[k].pos].pos
      <4>1. r[k + 1] = ReadNext(r[k], reader)
        BY <1>4, <3>1, <3>2 DEF ReadSteps
      <4> QED
        BY <4>1 DEF ReadNext
    <3>7. Reader(reader, data, part, vals[k + 1])
      BY <3>1, <3>2
    <3>8. IF pos + x <= l + 1 THEN r[k].val = UpTo(vals, k) /\ r[k].pos = pos + x ELSE r[k].pos = 0
      BY <1>2, <1>6, <3>1, <3>2, <3>4 DEF Got
    <3>9. CASE pos + x <= l + 1
      <4>1. Meets(data, pos + x, part)
        <5>1. Meets(data, pos, a \o part)
          BY <1>3, <3>1, <3>3
        <5> QED
          BY <3>3, <3>4, <5>1, MeetsParts
      <4>2. pos + x \in 1..(l + 1)
        BY <3>9
      <4>3. Got(reader[pos + x], data, pos + x, part, vals[k + 1])
        BY <1>2, <3>7, <4>1, <4>2 DEF Reader
      <4>4. IF pos + x + y <= l + 1 THEN reader[pos + x].val = vals[k + 1] /\ reader[pos + x].pos = pos + x + y
            ELSE reader[pos + x].pos = 0
        BY <1>2, <3>4, <4>3 DEF Got
      <4>5. r[k + 1].pos = reader[pos + x].pos /\ r[k + 1].val = Append(UpTo(vals, k), reader[pos + x].val)
        BY <3>6, <3>8, <3>9
      <4>6. Append(UpTo(vals, k), vals[k + 1]) = UpTo(vals, k + 1)
        BY UpToNext
      <4>7. IF pos + (x + y) <= l + 1 THEN r[k + 1].val = UpTo(vals, k + 1) /\ r[k + 1].pos = pos + (x + y)
            ELSE r[k + 1].pos = 0
        <5>1. pos + (x + y) = pos + x + y
          OBVIOUS
        <5> QED
          BY <4>4, <4>5, <4>6, <5>1
      <4>8. Got(r[k + 1], data, pos, h[k + 1], UpTo(vals, k + 1))
        BY <1>2, <3>5, <4>7 DEF Got
      <4> QED
        BY <4>8
    <3>10. CASE ~(pos + x <= l + 1)
      <4>1. ~(pos + (x + y) <= l + 1)
        BY <3>10
      <4>2. r[k + 1].pos = 0
        BY <3>6, <3>7, <3>8, <3>10 DEF Reader
      <4>3. Got(r[k + 1], data, pos, h[k + 1], UpTo(vals, k + 1))
        BY <1>2, <3>5, <4>1, <4>2 DEF Got
      <4> QED
        BY <4>3
    <3> QED
      BY <3>9, <3>10
  <2> QED
    BY <2>1
<1>7. \A k \in Nat : k \in T
  <2> HIDE DEF T
  <2> QED
    BY <1>5, <1>6, Reads!NatInductive
<1> QED
  BY <1>4, <1>7

----------------------------------------------------------------------------
(* Strings and values. *)

(* What is appended is a part of its own. *)
LEMMA SinglesAddUp ==
  ASSUME NEW v, NEW n \in Nat
  PROVE  Sums([k \in 0..n |-> UpTo(v, k)], [k \in 1..n |-> <<v[k]>>], n)
<1>1. PICK h, parts : h = [k \in 0..n |-> UpTo(v, k)] /\ parts = [k \in 1..n |-> <<v[k]>>]
  OBVIOUS
<1>2. UpTo(v, 0) = Nothing
  BY DEF UpTo, Nothing
<1>3. h[0] = Nothing
  BY <1>1, <1>2
<1>4. ASSUME NEW k \in 1..n
      PROVE  h[k] = h[k - 1] \o parts[k]
  <2>1. PICK m \in Nat : k = m + 1 /\ m \in 0..n /\ k \in 0..n /\ k - 1 = m
    <3>1. k - 1 \in Nat /\ k = (k - 1) + 1 /\ k - 1 \in 0..n /\ k \in 0..n
      OBVIOUS
    <3> QED
      BY <3>1
  <2>2. PICK a, e, S : a = UpTo(v, m) /\ e = v[m + 1] /\ S = {v[i] : i \in 1..(m + 1)}
    OBVIOUS
  <2>3. a \in Seq(S) /\ e \in S
    BY <2>2 DEF UpTo
  <2>4. Append(a, e) = a \o <<e>>
    BY <2>3
  <2>5. Append(a, e) = UpTo(v, k)
    BY <2>1, <2>2, UpToNext
  <2>6. h[k] = UpTo(v, k) /\ h[k - 1] = a /\ parts[k] = <<e>>
    BY <1>1, <2>1, <2>2
  <2> QED
    BY <2>4, <2>5, <2>6
<1> QED
  BY <1>1, <1>3, <1>4 DEF Sums

(* deserialize<string> *)
LEMMA StringRead ==
  ASSUME NEW data \in Seq(Int), NEW pos \in 1..(Len(data) + 1), NEW v \in Seq(Int),
         Meets(data, pos, <<Len(v)>> \o v)
  PROVE  Got(ReadString(data, pos), data, pos, <<Len(v)>> \o v, v)
<1>1. PICK n \in Nat, l \in Nat : n = Len(v) /\ l = Len(data)
  OBVIOUS
<1>2. PICK one, enc : one = <<n>> /\ enc = one \o v
  OBVIOUS
<1>3. one \in Seq(Int) /\ Len(one) = 1 /\ enc \in Seq(Int) /\ Len(enc) = n + 1 /\ enc[1] = n
  BY <1>1, <1>2
<1>4. Meets(data, pos, enc)
  BY <1>1, <1>2
<1>5. Len(enc) # 0
  BY <1>3
<1>6. CASE pos = l + 1
  <2>1. ReadNumber(data, pos).pos = 0
    BY <1>1, <1>3, <1>4, <1>5, <1>6, NumberRead
  <2>2. ReadString(data, pos).pos = 0
    BY <2>1 DEF ReadString, Failed
  <2>3. ~(pos + Len(enc) <= l + 1)
    BY <1>3, <1>6
  <2> QED
    BY <1>1, <1>2, <2>2, <2>3 DEF Got
<1>7. CASE pos # l + 1
  <2>1. ReadNumber(data, pos) = [val |-> enc[1], pos |-> pos + 1]
    BY <1>1, <1>3, <1>4, <1>5, <1>7, NumberRead
  <2>2. pos + 1 \in 1..(l + 1) /\ pos + 1 # 0
    BY <1>1, <1>7
  <2>3. PICK reader, readers : /\ reader = [p \in Nat |-> ReadNumber(data, p)]
                               /\ readers = [i \in 1..n |-> reader]
    OBVIOUS
  <2>4. ReadString(data, pos) = ReadMany(readers, pos + 1)
    BY <1>3, <2>1, <2>2, <2>3 DEF ReadString
  <2>5. PICK parts, h : parts = [k \in 1..n |-> <<v[k]>>] /\ h = [k \in 0..n |-> UpTo(v, k)]
    OBVIOUS
  <2>6. Sums(h, parts, n)
    BY <2>5, SinglesAddUp
  <2>7. UpTo(v, n) = v /\ h[n] = v
    <3>1. UpTo(v, n) = v
      BY <1>1 DEF UpTo
    <3> QED
      BY <2>5, <3>1
  <2>8. Meets(data, pos + 1, v)
    <3>1. Meets(data, pos, one \o v)
      BY <1>2, <1>4
    <3>2. Meets(data, pos + Len(one), v)
      BY <1>3, <3>1, MeetsParts
    <3> QED
      BY <1>3, <3>2
  <2>9. ASSUME NEW k \in 1..n
        PROVE  Reader(readers[k], data, parts[k], v[k]) /\ parts[k] \in Seq(Int)
    <3>1. v[k] \in Int /\ readers[k] = reader /\ parts[k] = <<v[k]>>
      BY <1>1, <2>3, <2>5
    <3>2. reader[0].pos = 0
      <4>1. reader[0] = ReadNumber(data, 0)
        BY <2>3
      <4> QED
        BY <4>1, NothingRead DEF Failed
    <3>3. ASSUME NEW p \in 1..(Len(data) + 1), Meets(data, p, <<v[k]>>)
          PROVE  Got(reader[p], data, p, <<v[k]>>, v[k])
      <4>1. Got(ReadNumber(data, p), data, p, <<v[k]>>, v[k])
        BY <3>1, <3>3, SingleRead
      <4>2. p \in Nat
        BY <1>1
      <4>3. reader[p] = ReadNumber(data, p)
        BY <2>3, <4>2
      <4> QED
        BY <4>1, <4>3
    <3>4. Reader(reader, data, <<v[k]>>, v[k])
      BY <3>2, <3>3 DEF Reader
    <3> QED
      BY <3>1, <3>4
  <2>10. DOMAIN readers = 1..n
    BY <2>3
  <2>11. Got(ReadMany(readers, pos + 1), data, pos + 1, h[n], UpTo(v, n))
    <3>1. Meets(data, pos + 1, h[n])
      BY <2>7, <2>8
    <3> QED
      BY <1>1, <2>2, <2>6, <2>9, <2>10, <3>1, ManyRead
  <2>12. Got(ReadString(data, pos), data, pos + 1, v, v)
    BY <2>4, <2>7, <2>11
  <2>13. pos + 1 + n = pos + (n + 1)
    OBVIOUS
  <2>14. Got(ReadString(data, pos), data, pos, enc, v)
    BY <1>1, <1>3, <2>12, <2>13 DEF Got
  <2> QED
    BY <1>1, <1>2, <2>14
<1> QED
  BY <1>6, <1>7

(* Nothing is read after a failure. *)
LEMMA NoStringRead ==
  ASSUME NEW data \in Seq(Int)
  PROVE  ReadString(data, 0).pos = 0
BY NothingRead DEF ReadString, Failed

(* What is kept of a type. *)
Data(type) == CASE type = CharB -> BOOLEAN
                [] type = CharS -> Seq(Nat)
                [] OTHER -> Int

(* A value is written as numbers. *)
LEMMA ValuesPacked ==
  ASSUME NEW type \in Types \ {CharB}, NEW v \in Data(type)
  PROVE  PackValue(type, v) \in Seq(Int)
<1>1. CASE type = CharS
  <2>1. v \in Seq(Nat)
    BY <1>1 DEF Data, CharB, CharS
  <2>2. v \in Seq(Int) /\ <<Len(v)>> \in Seq(Int)
    BY <2>1
  <2>3. <<Len(v)>> \o v \in Seq(Int)
    BY <2>2, ConcatProperties
  <2> QED
    BY <1>1, <2>3 DEF PackValue
<1>2. CASE type # CharS
  <2>1. v \in Int
    BY <1>2 DEF Data
  <2> QED
    BY <1>2, <2>1 DEF PackValue
<1> QED
  BY <1>1, <1>2

(* A value that was packed is read back. *)
LEMMA ValueRead ==
  ASSUME NEW data \in Seq(Int), NEW type \in Types \ {CharB}, NEW v \in Data(type),
         NEW reader, \A p \in Nat : reader[p] = ReadValue(type, data, p)
  PROVE  Reader(reader, data, PackValue(type, v), v)
<1>1. reader[0].pos = 0
  BY NothingRead, NoStringRead DEF ReadValue, Failed
<1>2. ASSUME NEW p \in 1..(Len(data) + 1), Meets(data, p, PackValue(type, v))
      PROVE  Got(reader[p], data, p, PackValue(type, v), v)
  <2>1. p \in Nat
    OBVIOUS
  <2>2. CASE type = CharS
    <3>1. v \in Seq(Nat)
      BY <2>2 DEF Data, CharB, CharS
    <3>2. v \in Seq(Int)
      BY <3>1
    <3>3. PackValue(type, v) = <<Len(v)>> \o v /\ ReadValue(type, data, p) = ReadString(data, p)
      BY <2>2 DEF PackValue, ReadValue
    <3> QED
      BY <1>2, <2>1, <3>2, <3>3, StringRead
  <2>3. CASE type # CharS
    <3>1. v \in Int
      BY <2>3 DEF Data
    <3>2. PackValue(type, v) = <<v>> /\ ReadValue(type, data, p) = ReadNumber(data, p)
      BY <2>3 DEF PackValue, ReadValue
    <3> QED
      BY <1>2, <2>1, <3>1, <3>2, SingleRead
  <2> QED
    BY <2>2, <2>3
<1> QED
  BY <1>1, <1>2 DEF Reader

----------------------------------------------------------------------------
(* Nullable arrays. *)

Pushes == INSTANCE InductionLemmas WITH Combine <- PushBack

(* A nullable array: as many bits as data, and T() where a bit is not set.  *)
NullableArray(type, a) ==
  /\ a = [bitmap |-> a.bitmap, data |-> a.data]
  /\ a.bitmap \in Seq(BOOLEAN) /\ a.data \in Seq(Data(type)) /\ Len(a.bitmap) = Len(a.data)
  /\ \A i \in 1..Len(a.data) :
       IF a.bitmap[i] THEN a.data[i] \in Values[type] ELSE a.data[i] = Default(type)

(* An array is written as numbers. *)
LEMMA ArraysPacked ==
  ASSUME NEW type \in Types, NEW a, NullableArray(type, a)
  PROVE  PackArray(type, a) \in Seq(Int)
<1>1. PICK bits, vals : bits = a.bitmap /\ vals = a.data
  OBVIOUS
<1>2. bits \in Seq(BOOLEAN) /\ vals \in Seq(Data(type)) /\ Len(bits) = Len(vals)
  <2>1. a.bitmap \in Seq(BOOLEAN) /\ a.data \in Seq(Data(type)) /\ Len(a.bitmap) = Len(a.data)
    BY DEF NullableArray
  <2> QED
    BY <1>1, <2>1
<1>3. PackBits(bits) \in Seq(Int)
  BY <1>2, BitsPacked DEF PackedBits
<1>4. CASE type = CharB
  <2>1. Data(type) = BOOLEAN
    BY <1>4 DEF Data, CharB, CharS
  <2>2. PackBits(vals) \in Seq(Int)
    BY <1>2, <2>1, BitsPacked DEF PackedBits
  <2>3. PackArray(type, a) = PackBits(bits) \o PackBits(vals)
    BY <1>1, <1>4 DEF PackArray
  <2> QED
    BY <1>3, <2>2, <2>3, ConcatProperties
<1>5. CASE type # CharB
  <2>1. PICK n \in Nat : n = Len(vals) /\ DOMAIN vals = 1..n /\ DOMAIN bits = 1..n
    BY <1>2, LenProperties
  <2>2. PICK parts : parts = [i \in DOMAIN vals |-> IF bits[i] THEN PackValue(type, vals[i]) ELSE <<>>]
    OBVIOUS
  <2>3. ASSUME NEW i \in 1..n
        PROVE  parts[i] \in Seq(Int)
    <3>1. vals[i] \in Data(type) /\ bits[i] \in BOOLEAN
      BY <1>2, <2>1, ElementOfSeq
    <3>2. PackValue(type, vals[i]) \in Seq(Int) /\ <<>> \in Seq(Int)
      BY <1>5, <3>1, ValuesPacked, EmptySeq
    <3> QED
      BY <2>1, <2>2, <3>1, <3>2
  <2>4. parts \in Seq(Seq(Int)) /\ Len(parts) = n
    BY <2>1, <2>2, <2>3
  <2>5. PICK h : Sums(h, parts, n) /\ FlattenSeq(parts) = h[n]
    BY <2>4, FlattenSums
  <2>6. FlattenSeq(parts) \in Seq(Int)
    <3>1. \A k \in 0..n : h[k] \in Seq(Int)
      BY <2>3, <2>5, SumsAreSequences
    <3> QED
      BY <2>5, <3>1
  <2>7. PackArray(type, a) = PackBits(bits) \o FlattenSeq(parts)
    BY <1>1, <1>5, <2>2 DEF PackArray
  <2> QED
    BY <1>3, <2>6, <2>7, ConcatProperties
<1> QED
  BY <1>4, <1>5

(* An array that was packed is read back, bits and data. *)
LEMMA ArrayRead ==
  ASSUME NEW data \in Seq(Int), NEW pos \in 1..(Len(data) + 1), NEW type \in Types, NEW a,
         NullableArray(type, a), Meets(data, pos, PackArray(type, a))
  PROVE  Got(ReadArray(type, data, pos), data, pos, PackArray(type, a), a)
<1>1. PICK n, l, bits, vals :
        /\ n = Len(a.data) /\ l = Len(data) /\ bits = a.bitmap /\ vals = a.data
        /\ n \in Nat /\ l \in Nat
  <2>1. a.data \in Seq(Data(type))
    BY DEF NullableArray
  <2>2. Len(a.data) \in Nat /\ Len(data) \in Nat
    BY <2>1, LenProperties
  <2> QED
    BY <2>2
<1>2. /\ bits \in Seq(BOOLEAN) /\ Len(bits) = n /\ vals \in Seq(Data(type)) /\ Len(vals) = n
      /\ a = [bitmap |-> bits, data |-> vals]
  <2>1. /\ a = [bitmap |-> a.bitmap, data |-> a.data]
        /\ a.bitmap \in Seq(BOOLEAN) /\ a.data \in Seq(Data(type)) /\ Len(a.bitmap) = Len(a.data)
    BY DEF NullableArray
  <2> QED
    BY <1>1, <2>1
<1>3. PICK first : first = PackBits(bits)
  OBVIOUS
<1>4. first \in Seq(Int)
  BY <1>2, <1>3, BitsPacked DEF PackedBits
<1>5. PICK rest : rest = IF type = CharB THEN PackBits(vals)
                         ELSE FlattenSeq([i \in DOMAIN vals |->
                                IF bits[i] THEN PackValue(type, vals[i]) ELSE <<>>])
  OBVIOUS
<1>6. PackArray(type, a) = first \o rest
  BY <1>1, <1>3, <1>5 DEF PackArray
<1>7. ASSUME NEW read, NEW p,
             rest \in Seq(Int),
             p = ReadBits(data, pos).pos,
             p # 0 /\ Meets(data, p, rest) /\ p \in 1..(l + 1) => Got(read, data, p, rest, vals),
             ReadArray(type, data, pos) =
               [val |-> [bitmap |-> ReadBits(data, pos).val,
                         data |-> IF p = 0 THEN Failed.val ELSE read.val],
                pos |-> IF p = 0 THEN Failed.pos ELSE read.pos]
      PROVE  Got(ReadArray(type, data, pos), data, pos, PackArray(type, a), a)
  <2>1. PICK enc : enc = first \o rest
    OBVIOUS
  <2>2. PICK x \in Nat, y \in Nat : x = Len(first) /\ y = Len(rest)
    BY <1>4, <1>7
  <2>3. enc \in Seq(Int) /\ Len(enc) = x + y
    BY <1>4, <1>7, <2>1, <2>2, ConcatProperties
  <2>4. Meets(data, pos, first) /\ Meets(data, pos + x, rest)
    BY <1>4, <1>6, <1>7, <2>2, MeetsParts
  <2>5. Got(ReadBits(data, pos), data, pos, first, bits)
    BY <1>2, <1>3, <2>4, BitsRead
  <2>6. IF pos + x <= l + 1 THEN ReadBits(data, pos).val = bits /\ p = pos + x ELSE p = 0
    BY <1>1, <1>7, <2>2, <2>5 DEF Got
  <2>7. PICK r : r = ReadArray(type, data, pos)
    OBVIOUS
  <2>8. CASE pos + x <= l + 1
    <3>1. p # 0 /\ p \in 1..(l + 1) /\ Meets(data, p, rest)
      BY <1>1, <2>4, <2>6, <2>8
    <3>2. Got(read, data, p, rest, vals)
      BY <1>7, <3>1
    <3>3. r.val = [bitmap |-> bits, data |-> read.val] /\ r.pos = read.pos
      BY <1>7, <2>6, <2>7, <2>8, <3>1
    <3>4. IF p + y <= l + 1 THEN read.val = vals /\ read.pos = p + y ELSE read.pos = 0
      BY <1>1, <2>2, <3>2 DEF Got
    <3>5. IF pos + (x + y) <= l + 1 THEN r.val = a /\ r.pos = pos + (x + y) ELSE r.pos = 0
      <4>1. p + y = pos + (x + y)
        BY <2>6, <2>8
      <4> QED
        BY <1>2, <3>3, <3>4, <4>1
    <3>6. Got(r, data, pos, enc, a)
      BY <1>1, <2>3, <3>5 DEF Got
    <3> QED
      BY <1>6, <2>1, <2>3, <2>7, <3>6
  <2>9. CASE ~(pos + x <= l + 1)
    <3>1. p = 0 /\ ~(pos + (x + y) <= l + 1)
      BY <1>1, <2>6, <2>9
    <3>2. r.pos = 0
      BY <1>7, <2>7, <3>1 DEF Failed
    <3>3. Got(r, data, pos, enc, a)
      BY <1>1, <2>3, <3>1, <3>2 DEF Got
    <3> QED
      BY <1>6, <2>1, <2>3, <2>7, <3>3
  <2> QED
    BY <2>8, <2>9
<1>8. PICK p : p = ReadBits(data, pos).pos
  OBVIOUS
<1>9. CASE type = CharB
  <2>1. vals \in Seq(BOOLEAN)
    <3>1. Data(type) = BOOLEAN
      BY <1>9 DEF Data, CharB, CharS
    <3> QED
      BY <1>2, <3>1
  <2>2. rest = PackBits(vals)
    BY <1>5, <1>9
  <2>3. rest \in Seq(Int)
    BY <2>1, <2>2, BitsPacked DEF PackedBits
  <2>4. PICK read : read = ReadBits(data, p)
    OBVIOUS
  <2>5. ASSUME Meets(data, p, rest), p \in 1..(l + 1)
        PROVE  Got(read, data, p, rest, vals)
    <3>1. p \in 1..(Len(data) + 1) /\ Meets(data, p, PackBits(vals))
      BY <1>1, <2>2, <2>5
    <3>2. Got(ReadBits(data, p), data, p, PackBits(vals), vals)
      BY <2>1, <3>1, BitsRead
    <3> QED
      BY <2>2, <2>4, <3>2
  <2>6. ReadArray(type, data, pos) =
               [val |-> [bitmap |-> ReadBits(data, pos).val,
                         data |-> IF p = 0 THEN Failed.val ELSE read.val],
                pos |-> IF p = 0 THEN Failed.pos ELSE read.pos]
    BY <1>8, <1>9, <2>4 DEF ReadArray
  <2> QED
    BY <1>7, <1>8, <2>3, <2>5, <2>6
<1>10. CASE type # CharB
  <2>1. PICK parts : parts = [i \in DOMAIN vals |-> IF bits[i] THEN PackValue(type, vals[i]) ELSE <<>>]
    OBVIOUS
  <2>2. rest = FlattenSeq(parts) /\ DOMAIN vals = 1..n /\ DOMAIN bits = 1..n
    BY <1>2, <1>5, <1>10, <2>1
  <2>3. ASSUME NEW i \in 1..n
        PROVE  parts[i] \in Seq(Int) /\ vals[i] \in Data(type) /\ bits[i] \in BOOLEAN
    <3>1. vals[i] \in Data(type) /\ bits[i] \in BOOLEAN
      BY <1>2, ElementOfSeq
    <3>2. PackValue(type, vals[i]) \in Seq(Int)
      BY <1>10, <3>1, ValuesPacked
    <3>3. <<>> \in Seq(Int)
      BY EmptySeq
    <3> QED
      BY <2>1, <2>2, <3>1, <3>2, <3>3
  <2>4. parts \in Seq(Seq(Int)) /\ Len(parts) = n
    <3>1. n \in Nat
      BY <1>1
    <3>2. parts \in [1..n -> Seq(Int)]
      BY <2>1, <2>2, <2>3
    <3> QED
      BY <3>1, <3>2
  <2>5. PICK h : Sums(h, parts, n) /\ rest = h[n]
    BY <2>2, <2>4, FlattenSums
  <2>6. rest \in Seq(Int)
    <3>1. \A k \in 0..n : h[k] \in Seq(Int)
      BY <1>1, <2>3, <2>5, SumsAreSequences
    <3> QED
      BY <1>1, <2>5, <3>1
  <2> DEFINE reader(bit) == [q \in Nat |-> IF bit THEN ReadValue(type, data, q)
                                           ELSE [val |-> Default(type), pos |-> q]]
  <2>7. PICK readers : readers = [i \in 1..n |-> reader(bits[i])]
    OBVIOUS
  <2>8. PICK read : read = ReadMany(readers, p)
    OBVIOUS
  <2>9. ASSUME NEW i \in 1..n
        PROVE  Reader(readers[i], data, parts[i], vals[i])
    <3>1. CASE bits[i]
      <4>1. readers[i] = reader(TRUE) /\ parts[i] = PackValue(type, vals[i])
        BY <2>1, <2>2, <2>7, <3>1
      <4>2. \A q \in Nat : reader(TRUE)[q] = ReadValue(type, data, q)
        OBVIOUS
      <4> HIDE DEF reader
      <4>3. \A q \in Nat : readers[i][q] = ReadValue(type, data, q)
        BY <4>1, <4>2
      <4> QED
        BY <1>10, <2>3, <4>1, <4>3, ValueRead
    <3>2. CASE ~bits[i]
      <4>1. readers[i] = reader(FALSE) /\ parts[i] = <<>> /\ vals[i] = Default(type)
        BY <1>1, <2>1, <2>2, <2>7, <3>2 DEF NullableArray
      <4>2. \A q \in Nat : reader(FALSE)[q].val = Default(type) /\ reader(FALSE)[q].pos = q
        OBVIOUS
      <4> HIDE DEF reader
      <4>3. ASSUME NEW q \in 1..(Len(data) + 1)
            PROVE  Got(readers[i][q], data, q, parts[i], vals[i])
        <5>1. q \in Nat /\ q + 0 = q /\ q <= Len(data) + 1
          BY <1>1
        <5>2. Len(parts[i]) = 0
          BY <4>1, EmptySeq
        <5> QED
          BY <4>1, <4>2, <5>1, <5>2 DEF Got
      <4> QED
        BY <4>1, <4>2, <4>3 DEF Reader
    <3> QED
      BY <2>3, <3>1, <3>2
  <2>10. p # 0 /\ Meets(data, p, rest) /\ p \in 1..(l + 1) => Got(read, data, p, rest, vals)
    <3> HIDE DEF reader
    <3>1. SUFFICES ASSUME Meets(data, p, rest), p \in 1..(l + 1)
                   PROVE  Got(read, data, p, rest, vals)
      OBVIOUS
    <3>2. UpTo(vals, n) = vals
      BY <1>2, <2>2 DEF UpTo
    <3>3. DOMAIN readers = 1..n
      BY <2>7
    <3>4. p \in 1..(Len(data) + 1) /\ Meets(data, p, h[n])
      BY <1>1, <2>5, <3>1
    <3>5. \A k \in 1..n : parts[k] \in Seq(Int)
      BY <2>3
    <3>6. Got(ReadMany(readers, p), data, p, h[n], UpTo(vals, n))
      BY <1>1, <2>5, <2>9, <3>3, <3>4, <3>5, ManyRead
    <3> QED
      BY <2>5, <2>8, <3>2, <3>6
  <2>11. p # 0 => ReadBits(data, pos).val = bits
    <3>1. Meets(data, pos, first)
      BY <1>4, <1>6, <2>6, MeetsParts
    <3>2. Got(ReadBits(data, pos), data, pos, first, bits)
      BY <1>2, <1>3, <3>1, BitsRead
    <3> QED
      BY <1>8, <3>2 DEF Got
  <2>12. ReadArray(type, data, pos) =
               [val |-> [bitmap |-> ReadBits(data, pos).val,
                         data |-> IF p = 0 THEN Failed.val ELSE read.val],
                pos |-> IF p = 0 THEN Failed.pos ELSE read.pos]
    <3>1. CASE p = 0
      BY <1>8, <3>1 DEF ReadArray
    <3>2. CASE p # 0
      <4>1. readers = [i \in DOMAIN ReadBits(data, pos).val |->
                        [q \in Nat |-> IF ReadBits(data, pos).val[i] THEN ReadValue(type, data, q)
                                       ELSE [val |-> Default(type), pos |-> q]]]
        BY <2>2, <2>7, <2>11, <3>2
      <4> HIDE DEF reader
      <4> QED
        BY <1>8, <1>10, <2>8, <3>2, <4>1 DEF ReadArray
    <3> QED
      BY <3>1, <3>2
  <2> HIDE DEF reader
  <2> QED
    BY <1>7, <1>8, <2>6, <2>10, <2>12
<1> QED
  BY <1>9, <1>10

(* No bits are read after a failure ... *)
LEMMA NoBitsRead ==
  ASSUME NEW data \in Seq(Int)
  PROVE  ReadBits(data, 0).pos = 0
BY NothingRead DEF ReadBits, Failed

(* ... and no array. *)
LEMMA NoArrayRead ==
  ASSUME NEW data \in Seq(Int), NEW type
  PROVE  ReadArray(type, data, 0).pos = 0
BY NoBitsRead DEF ReadArray, Failed

----------------------------------------------------------------------------
(* Columns. *)

Appends == INSTANCE InductionLemmas WITH Combine <- WithColumn

(* A column of a type. *)
ColumnOf(type, col) ==
  col = [type |-> type, array |-> col.array] /\ NullableArray(type, col.array)

(* The four kinds of columns differ in their type only. *)
LEMMA EmptyColumns ==
  ASSUME NEW type \in Types
  PROVE  EmptyColumn(type) = [type |-> type, array |-> EmptyArray]
BY DEF EmptyColumn, Types, IntColumn, FloatColumn, BoolColumn, StringColumn, CharI, CharF, CharB, CharS

(* push_back of an optional appends the bit and what stands for it.         *)
LEMMA PushedBack ==
  ASSUME NEW type \in Types, NEW bits, NEW vals, NEW k \in Nat,
         bits[k + 1] \in BOOLEAN,
         IF bits[k + 1] THEN vals[k + 1] \in Values[type] ELSE vals[k + 1] = Default(type),
         NEW v, v = IF bits[k + 1] THEN vals[k + 1] ELSE Null
  PROVE  PushBack([type |-> type, array |-> [bitmap |-> UpTo(bits, k), data |-> UpTo(vals, k)]], v)
         = [type |-> type, array |-> [bitmap |-> UpTo(bits, k + 1), data |-> UpTo(vals, k + 1)]]
<1>1. PICK b, d, b1, d1 : /\ b = UpTo(bits, k) /\ d = UpTo(vals, k)
                          /\ b1 = UpTo(bits, k + 1) /\ d1 = UpTo(vals, k + 1)
  OBVIOUS
<1>2. Append(b, bits[k + 1]) = b1 /\ Append(d, vals[k + 1]) = d1
  BY <1>1, UpToNext
<1>3. Bit(v) = bits[k + 1] /\ Datum(type, v) = vals[k + 1]
  BY FrameAssumption DEF Bit, Datum
<1>4. PICK a : a = [bitmap |-> b, data |-> d]
  OBVIOUS
<1>5. PushBack([type |-> type, array |-> a], v) = [type |-> type, array |-> ArrayPush(type, a, v)]
  BY DEF PushBack
<1>6. ArrayPush(type, a, v) = [bitmap |-> b1, data |-> d1]
  BY <1>2, <1>3, <1>4 DEF ArrayPush
<1> QED
  BY <1>1, <1>4, <1>5, <1>6

(* The columns that are made by pushing one optional after the other.       *)
PushSteps(h, base, opts, n) ==
  h[0] = base /\ \A k \in 1..n : h[k] = PushBack(h[k - 1], opts[k])

(* Pushing the optionals of a list is the last of such steps. *)
LEMMA PushesUnfold ==
  ASSUME NEW base, NEW n \in Nat, NEW opts, DOMAIN opts = 1..n
  PROVE  \E h : PushSteps(h, base, opts, n) /\ Pushes!Fold(base, opts) = h[n]
<1>1. PICK h : /\ h[0] = base
               /\ \A k \in 1..n : h[k] = PushBack(h[k - 1], opts[k])
               /\ Pushes!Fold(base, opts) = h[n]
  BY Pushes!FoldUnfolds
<1> QED
  BY <1>1 DEF PushSteps

(* Pushing the optionals of an array into a fresh column makes the array    *)
(* again, down to the data behind missing values.                           *)
LEMMA RefilledSame ==
  ASSUME NEW type \in Types, NEW a, NullableArray(type, a)
  PROVE  Refilled(type, a) = [type |-> type, array |-> a]
<1>1. PICK n, bits, vals : n = Len(a.data) /\ bits = a.bitmap /\ vals = a.data
  OBVIOUS
<1>2. /\ bits \in Seq(BOOLEAN) /\ Len(bits) = n /\ vals \in Seq(Data(type)) /\ Len(vals) = n
      /\ a = [bitmap |-> bits, data |-> vals]
  <2>1. /\ a = [bitmap |-> a.bitmap, data |-> a.data]
        /\ a.bitmap \in Seq(BOOLEAN) /\ a.data \in Seq(Data(type)) /\ Len(a.bitmap) = Len(a.data)
    BY DEF NullableArray
  <2> QED
    BY <1>1, <2>1
<1>3. n \in Nat /\ DOMAIN vals = 1..n /\ DOMAIN bits = 1..n
  BY <1>2, LenProperties
<1>4. ASSUME NEW k \in 1..n
      PROVE  /\ bits[k] \in BOOLEAN
             /\ IF bits[k] THEN vals[k] \in Values[type] ELSE vals[k] = Default(type)
  <2>1. bits[k] \in BOOLEAN
    BY <1>2
  <2> QED
    BY <1>1, <2>1 DEF NullableArray
<1>5. PICK opts : opts = [i \in 1..n |-> ArrayGet(a, i)]
  OBVIOUS
<1>6. \A k \in 1..n : opts[k] = IF bits[k] THEN vals[k] ELSE Null
  BY <1>1, <1>5 DEF ArrayGet
<1>7. PICK h : PushSteps(h, EmptyColumn(type), opts, n) /\ Refilled(type, a) = h[n]
  <2>1. DOMAIN a.data = 1..n /\ DOMAIN opts = 1..n
    BY <1>1, <1>3, <1>5
  <2>2. opts = [i \in DOMAIN a.data |-> ArrayGet(a, i)]
    BY <1>5, <2>1
  <2>3. Refilled(type, a) = Pushes!Fold(EmptyColumn(type), opts)
    BY <2>2 DEF Refilled, Pushes!Fold, FoldLeft, MapThenFoldSet, Pushes!Top, Max
  <2>4. PICK h : PushSteps(h, EmptyColumn(type), opts, n) /\ Pushes!Fold(EmptyColumn(type), opts) = h[n]
    BY <1>3, <2>1, PushesUnfold
  <2> QED
    BY <2>3, <2>4
<1> DEFINE col(k) == [type |-> type, array |-> [bitmap |-> UpTo(bits, k), data |-> UpTo(vals, k)]]
           T == {k \in Nat : k <= n => h[k] = col(k)}
<1>8. 0 \in T
  <2>1. UpTo(bits, 0) = <<>> /\ UpTo(vals, 0) = <<>>
    BY DEF UpTo
  <2>2. h[0] = [type |-> type, array |-> EmptyArray]
    BY <1>7, EmptyColumns DEF PushSteps
  <2>3. h[0] = col(0)
    BY <2>1, <2>2 DEF EmptyArray
  <2> QED
    BY <2>3
<1>9. ASSUME NEW k \in Nat, k \in T
      PROVE  k + 1 \in T
  <2>1. CASE k + 1 <= n
    <3>1. k + 1 \in 1..n /\ (k + 1) - 1 = k /\ k <= n
      BY <1>3, <2>1
    <3>2. h[k] = col(k)
      BY <1>9, <3>1
    <3> HIDE DEF col
    <3>3. h[k + 1] = PushBack(col(k), opts[k + 1])
      BY <1>7, <3>1, <3>2 DEF PushSteps
    <3> USE DEF col
    <3>4. PushBack(col(k), opts[k + 1]) = col(k + 1)
      BY <1>4, <1>6, <3>1, PushedBack
    <3> HIDE DEF col
    <3> QED
      BY <3>3, <3>4
  <2> QED
    BY <2>1
<1>10. \A k \in Nat : k \in T
  <2> HIDE DEF T
  <2> QED
    BY <1>8, <1>9, Pushes!NatInductive
<1>11. h[n] = col(n)
  BY <1>3, <1>10
<1>12. UpTo(bits, n) = bits /\ UpTo(vals, n) = vals
  BY <1>2, <1>3 DEF UpTo
<1> QED
  BY <1>2, <1>7, <1>11, <1>12

(* A column that was packed is read back. *)
LEMMA ColumnRead ==
  ASSUME NEW data \in Seq(Int), NEW type \in Types, NEW col, ColumnOf(type, col),
         NEW reader, \A p \in Nat : reader[p] = ReadColumn(type, data, p)
  PROVE  /\ Reader(reader, data, PackArray(type, col.array), col)
         /\ PackArray(type, col.array) \in Seq(Int)
<1>1. PICK a, enc : a = col.array /\ enc = PackArray(type, a)
  OBVIOUS
<1>2. NullableArray(type, a) /\ col = [type |-> type, array |-> a]
  BY <1>1 DEF ColumnOf
<1>3. reader[0].pos = 0
  <2>1. reader[0] = ReadColumn(type, data, 0)
    OBVIOUS
  <2>2. ReadArray(type, data, 0).pos = 0
    BY NoArrayRead
  <2> QED
    BY <2>1, <2>2 DEF ReadColumn
<1>4. ASSUME NEW p \in 1..(Len(data) + 1), Meets(data, p, enc)
      PROVE  Got(reader[p], data, p, enc, col)
  <2>1. PICK r : r = ReadArray(type, data, p)
    OBVIOUS
  <2>2. Got(r, data, p, enc, a)
    BY <1>1, <1>2, <1>4, <2>1, ArrayRead
  <2>3. p \in Nat
    OBVIOUS
  <2>4. reader[p] = [val |-> IF r.pos = 0 THEN EmptyColumn(type) ELSE Refilled(type, r.val), pos |-> r.pos]
    BY <2>1, <2>3 DEF ReadColumn
  <2>5. CASE p + Len(enc) <= Len(data) + 1
    <3>1. r.val = a /\ r.pos = p + Len(enc)
      BY <2>2, <2>5 DEF Got
    <3>2. r.pos # 0
      <4>1. enc \in Seq(Int)
        BY <1>1, <1>2, ArraysPacked
      <4>2. Len(enc) \in Nat
        BY <4>1
      <4> QED
        BY <3>1, <4>2
    <3>3. reader[p].val = col /\ reader[p].pos = p + Len(enc)
      BY <1>2, <2>4, <3>1, <3>2, RefilledSame
    <3> QED
      BY <2>5, <3>3 DEF Got
  <2>6. CASE ~(p + Len(enc) <= Len(data) + 1)
    BY <2>2, <2>4, <2>6 DEF Got
  <2> QED
    BY <2>5, <2>6
<1>5. enc \in Seq(Int)
  BY <1>1, <1>2, ArraysPacked
<1> QED
  BY <1>1, <1>3, <1>4, <1>5 DEF Reader

----------------------------------------------------------------------------
(* Frames. *)

(* A frame: a column of its type for each type of the schema. *)
WellFormed(f) ==
  /\ f = [types |-> f.types, columns |-> f.columns]
  /\ f.types \in Seq(Types) /\ f.columns = UpTo(f.columns, Len(f.types))
  /\ \A c \in 1..Len(f.types) : ColumnOf(f.types[c], f.columns[c])

AssembleSteps(h, cols, n) ==
  h[0] = Frame(<<>>) /\ \A k \in 1..n : h[k] = WithColumn(h[k - 1], cols[k])

(* The frame that is assembled is the last of such steps. *)
LEMMA AssemblyUnfolds ==
  ASSUME NEW n \in Nat, NEW cols, DOMAIN cols = 1..n
  PROVE  \E h : AssembleSteps(h, cols, n) /\ Assembled(cols) = h[n]
<1>1. PICK base : base = Frame(<<>>)
  OBVIOUS
<1>2. Assembled(cols) = Appends!Fold(base, cols)
  BY <1>1 DEF Assembled, Appends!Fold, FoldLeft, MapThenFoldSet, Appends!Top, Max
<1>3. PICK h : /\ h[0] = base
               /\ \A k \in 1..n : h[k] = WithColumn(h[k - 1], cols[k])
               /\ Appends!Fold(base, cols) = h[n]
  BY Appends!FoldUnfolds
<1> QED
  BY <1>1, <1>2, <1>3 DEF AssembleSteps

(* A frame without columns. *)
LEMMA NoColumns == Frame(<<>>) = [types |-> Nothing, columns |-> Nothing]
<1>1. DOMAIN <<>> = {}
  OBVIOUS
<1> QED
  BY <1>1 DEF Frame, Nothing

(* The columns of a frame make the frame again. *)
LEMMA AssembledSame ==
  ASSUME NEW f, WellFormed(f)
  PROVE  Assembled(f.columns) = f
<1>1. PICK types, cols, n :
        /\ n \in Nat /\ f = [types |-> types, columns |-> cols] /\ types \in Seq(Types) /\ n = Len(types)
        /\ cols = UpTo(cols, n) /\ \A c \in 1..n : ColumnOf(types[c], cols[c])
  <2>1. Len(f.types) \in Nat
    BY LenProperties DEF WellFormed
  <2> QED
    BY <2>1 DEF WellFormed
<1>2. DOMAIN cols = 1..n /\ UpTo(types, n) = types
  <2>1. DOMAIN cols = 1..n
    BY <1>1 DEF UpTo
  <2>2. types \in Seq(Types) /\ n = Len(types)
    BY <1>1
  <2> QED
    BY <2>1, <2>2 DEF UpTo
<1>3. PICK h : AssembleSteps(h, cols, n) /\ Assembled(cols) = h[n]
  BY <1>1, <1>2, AssemblyUnfolds
<1> DEFINE fr(k) == [types |-> UpTo(types, k), columns |-> UpTo(cols, k)]
           T == {k \in Nat : k <= n => h[k] = fr(k)}
<1>4. 0 \in T
  <2>1. UpTo(types, 0) = Nothing /\ UpTo(cols, 0) = Nothing
    BY DEF UpTo, Nothing
  <2>2. h[0] = fr(0)
    BY <1>3, <2>1, NoColumns DEF AssembleSteps
  <2> QED
    BY <2>2
<1>5. ASSUME NEW k \in Nat, k \in T
      PROVE  k + 1 \in T
  <2>1. CASE k + 1 <= n
    <3>1. k + 1 \in 1..n /\ (k + 1) - 1 = k /\ k <= n
      BY <1>1, <2>1
    <3>2. h[k] = fr(k)
      BY <1>5, <3>1
    <3>3. cols[k + 1].type = types[k + 1]
      <4>1. ColumnOf(types[k + 1], cols[k + 1])
        BY <1>1, <3>1
      <4> QED
        BY <4>1 DEF ColumnOf
    <3>4. Append(UpTo(types, k), types[k + 1]) = UpTo(types, k + 1)
          /\ Append(UpTo(cols, k), cols[k + 1]) = UpTo(cols, k + 1)
      BY UpToNext
    <3>5. h[k + 1] = WithColumn(h[k], cols[k + 1])
      BY <1>3, <3>1 DEF AssembleSteps
    <3>6. WithColumn(fr(k), cols[k + 1]) = fr(k + 1)
      BY <3>3, <3>4 DEF WithColumn
    <3> HIDE DEF fr
    <3>7. h[k + 1] = fr(k + 1)
      BY <3>2, <3>5, <3>6
    <3> QED
      BY <3>7
  <2> QED
    BY <2>1
<1>6. \A k \in Nat : k \in T
  <2> HIDE DEF T
  <2> QED
    BY <1>4, <1>5, Appends!NatInductive
<1>7. h[n] = fr(n)
  BY <1>1, <1>6
<1> QED
  BY <1>1, <1>2, <1>3, <1>7

Parts(f, n, schema, width, parts, h) ==
  /\ schema = <<n>> \o f.types /\ width = <<n>>
  /\ parts = [c \in 1..n |-> PackArray(f.columns[c].type, f.columns[c].array)]
  /\ schema \in Seq(Int) /\ width \in Seq(Int) /\ Len(width) = 1
  /\ \A c \in 1..n : parts[c] \in Seq(Int)
  /\ Sums(h, parts, n) /\ h[n] \in Seq(Int)
  /\ Pack(f) = (schema \o width) \o h[n]

(* A frame is written as numbers, and as parts: the schema, the number of   *)
(* columns, and each column.                                                *)
LEMMA FramePacked ==
  ASSUME NEW f, WellFormed(f), NEW n, n = Len(f.types)
  PROVE  \E schema, width, parts, h : Parts(f, n, schema, width, parts, h)
<1>1. PICK types, cols : types = f.types /\ cols = f.columns
  OBVIOUS
<1>2. /\ types \in Seq(Types) /\ n \in Nat /\ n = Len(types)
      /\ cols = UpTo(cols, n) /\ \A c \in 1..n : ColumnOf(types[c], cols[c])
  BY <1>1, LenProperties DEF WellFormed
<1>3. DOMAIN cols = 1..n
  BY <1>2 DEF UpTo
<1>4. Len(cols) = n
  BY <1>2, <1>3
<1>5. types \in Seq(Int)
  BY <1>2 DEF Types, CharI, CharF, CharB, CharS
<1>6. PICK width, schema, parts :
        /\ width = <<n>> /\ schema = width \o types
        /\ parts = [c \in 1..n |-> PackArray(cols[c].type, cols[c].array)]
  OBVIOUS
<1>7. width \in Seq(Int) /\ Len(width) = 1
  BY <1>2, <1>6
<1>8. schema \in Seq(Int)
  BY <1>5, <1>6, <1>7, ConcatProperties
<1>9. ASSUME NEW c \in 1..n
      PROVE  parts[c] \in Seq(Int)
  <2>1. types[c] \in Types /\ ColumnOf(types[c], cols[c])
    BY <1>2
  <2>2. NullableArray(types[c], cols[c].array) /\ cols[c].type = types[c]
    BY <2>1 DEF ColumnOf
  <2>3. PackArray(types[c], cols[c].array) \in Seq(Int)
    BY <2>1, <2>2, ArraysPacked
  <2> QED
    BY <1>6, <2>2, <2>3
<1>10. parts \in Seq(Seq(Int)) /\ Len(parts) = n
  BY <1>2, <1>6, <1>9
<1>11. PICK h : Sums(h, parts, n) /\ FlattenSeq(parts) = h[n]
  BY <1>10, FlattenSums
<1>12. h[n] \in Seq(Int)
  <2>1. \A k \in 0..n : h[k] \in Seq(Int)
    BY <1>2, <1>9, <1>11, SumsAreSequences
  <2> QED
    BY <1>2, <2>1
<1>13. Pack(f) = (schema \o width) \o FlattenSeq(parts)
  BY <1>1, <1>2, <1>3, <1>4, <1>6 DEF Pack, PackSchema
<1> QED
  <2>1. Parts(f, n, schema, width, parts, h)
    BY <1>1, <1>6, <1>7, <1>8, <1>9, <1>11, <1>12, <1>13 DEF Parts
  <2> QED
    BY <2>1

(* What ends in the middle of one of its two parts. *)
LEMMA GotParts ==
  ASSUME NEW data \in Seq(Int), NEW pos \in 1..(Len(data) + 1), NEW a \in Seq(Int), NEW b \in Seq(Int),
         NEW r, NEW v,
         IF pos + Len(a) <= Len(data) + 1 THEN Got(r, data, pos + Len(a), b, v) ELSE r.pos = 0
  PROVE  Got(r, data, pos, a \o b, v)
<1>1. PICK m \in Nat, n \in Nat, l \in Nat, c \in Seq(Int) :
        c = a \o b /\ m = Len(a) /\ n = Len(b) /\ l = Len(data)
  BY LenProperties, ConcatProperties
<1>2. Len(c) = m + n /\ pos + (m + n) = (pos + m) + n
  BY <1>1, ConcatProperties
<1>3. Got(r, data, pos, c, v)
  BY <1>1, <1>2 DEF Got
<1> QED
  BY <1>1, <1>3

(* deserialize<DataFrame> *)
LEMMA FrameRead ==
  ASSUME NEW data \in Seq(Int), NEW pos \in 1..(Len(data) + 1), NEW f, WellFormed(f),
         Meets(data, pos, Pack(f))
  PROVE  Got(Read(data, pos), data, pos, Pack(f), f)
<1>0. PICK n \in Nat, l \in Nat : n = Len(f.types) /\ l = Len(data)
  <2>1. Len(f.types) \in Nat /\ Len(data) \in Nat
    BY LenProperties DEF WellFormed
  <2> QED
    BY <2>1
<1>1. PICK types, cols :
        /\ types = f.types /\ cols = f.columns /\ l = Len(data)
        /\ types \in Seq(Types) /\ n = Len(types)
        /\ cols = UpTo(cols, n) /\ \A c \in 1..n : ColumnOf(types[c], cols[c])
  BY <1>0 DEF WellFormed
<1>2. types \in Seq(Int) /\ DOMAIN types = 1..n
  <2>1. Types \subseteq Int
    BY DEF Types, CharI, CharF, CharB, CharS
  <2>2. types \in Seq(Types) /\ Len(types) = n
    BY <1>1
  <2>3. \A c \in 1..n : types[c] \in Types
    BY <2>2, ElementOfSeq
  <2>4. types \in Seq(Int)
    BY <2>1, <2>2, SeqMonotonic
  <2> QED
    BY <2>2, <2>4
<1>3. PICK schema, width, parts, h :
           /\ schema = <<n>> \o types /\ width = <<n>>
           /\ parts = [c \in 1..n |-> PackArray(cols[c].type, cols[c].array)]
           /\ schema \in Seq(Int) /\ width \in Seq(Int) /\ Len(width) = 1
           /\ \A c \in 1..n : parts[c] \in Seq(Int)
           /\ Sums(h, parts, n) /\ h[n] \in Seq(Int)
           /\ Pack(f) = (schema \o width) \o h[n]
  <2>1. n = Len(f.types)
    BY <1>1
  <2>2. PICK schema, width, parts, h : Parts(f, n, schema, width, parts, h)
    BY <2>1, FramePacked
  <2> QED
    BY <1>1, <2>2 DEF Parts
<1>4. PICK rest, top : rest = h[n] /\ top = schema \o width
  OBVIOUS
<1>5. rest \in Seq(Int) /\ top \in Seq(Int) /\ Len(top) = Len(schema) + 1 /\ Len(schema) \in Nat
  BY <1>3, <1>4, ConcatProperties, LenProperties
<1>6. Meets(data, pos, top) /\ Meets(data, pos + Len(top), rest)
  <2>1. Meets(data, pos, top \o rest)
    BY <1>3, <1>4
  <2> QED
    BY <1>5, <2>1, MeetsParts
<1>7. Meets(data, pos, schema) /\ Meets(data, pos + Len(schema), width)
  BY <1>3, <1>4, <1>6, MeetsParts
<1>8. PICK x \in Nat : x = Len(schema)
  BY <1>5
<1>14. PICK s, w : s = ReadString(data, pos) /\ w = ReadNumber(data, s.pos)
  OBVIOUS
<1>9. IF pos + x <= l + 1 THEN s.val = types /\ s.pos = pos + x ELSE s.pos = 0
  <2>1. schema = <<Len(types)>> \o types
    BY <1>1, <1>3
  <2>2. Meets(data, pos, <<Len(types)>> \o types)
    BY <1>7, <2>1
  <2>3. Got(s, data, pos, schema, types)
    BY <1>2, <1>14, <2>1, <2>2, StringRead
  <2> QED
    BY <1>1, <1>8, <2>3 DEF Got
<1>10. IF pos + x + 1 <= l + 1 THEN w.val = n /\ w.pos = pos + x + 1 ELSE w.pos = 0
  <2>1. CASE pos + x <= l + 1
    <3>1. PICK p \in Nat : p = pos + x /\ p \in 1..(Len(data) + 1) /\ s.pos = p
      BY <1>1, <1>9, <2>1
    <3>2. Meets(data, p, <<n>>)
      BY <1>3, <1>7, <1>8, <3>1
    <3>3. n \in Int
      OBVIOUS
    <3>4. Got(w, data, p, <<n>>, n)
      BY <1>14, <3>1, <3>2, <3>3, SingleRead
    <3>5. Len(<<n>>) = 1
      OBVIOUS
    <3> QED
      BY <1>1, <3>1, <3>4, <3>5 DEF Got
  <2>2. CASE ~(pos + x <= l + 1)
    <3>1. s.pos = 0 /\ ~(pos + x + 1 <= l + 1)
      BY <1>9, <2>2
    <3>2. w.pos = 0
      BY <1>14, <3>1, NothingRead DEF Failed
    <3> QED
      BY <3>1, <3>2
  <2> QED
    BY <2>1, <2>2
<1> DEFINE reader(c) == [p \in Nat |-> ReadColumn(types[c], data, p)]
<1>11. PICK readers : readers = [c \in 1..n |-> reader(c)]
  OBVIOUS
<1>12. CASE pos + x + 1 <= l + 1
  <2>1. s.val = types /\ s.pos = pos + x /\ w.val = n /\ w.pos = pos + x + 1 /\ w.pos # 0
    BY <1>9, <1>10, <1>12
  <2>2. PICK p \in Nat : p = pos + x + 1 /\ p \in 1..(Len(data) + 1) /\ p = w.pos /\ p = pos + Len(top)
    BY <1>1, <1>5, <1>8, <1>12, <2>1
  <2>3. PICK m : m = ReadMany(readers, p)
    OBVIOUS
  <2>4. Read(data, pos) = [val |-> IF m.pos = 0 THEN None ELSE Assembled(m.val), pos |-> m.pos]
    <3>1. readers = [c \in DOMAIN types |-> [q \in Nat |-> ReadColumn(types[c], data, q)]]
      BY <1>2, <1>11
    <3>2. ~(w.pos = 0 \/ w.val # Len(types))
      BY <1>1, <2>1
    <3> HIDE DEF reader
    <3> QED
      BY <1>14, <2>1, <2>2, <2>3, <3>1, <3>2 DEF Read
  <2>5. ASSUME NEW c \in 1..n
        PROVE  Reader(readers[c], data, parts[c], cols[c])
    <3>1. types[c] \in Types /\ ColumnOf(types[c], cols[c])
      BY <1>1, <1>2
    <3>2. \A q \in Nat : reader(c)[q] = ReadColumn(types[c], data, q)
      OBVIOUS
    <3> HIDE DEF reader
    <3>3. \A q \in Nat : readers[c][q] = ReadColumn(types[c], data, q)
      BY <1>11, <3>2
    <3>4. Reader(readers[c], data, PackArray(types[c], cols[c].array), cols[c])
      BY <3>1, <3>3, ColumnRead
    <3>5. cols[c].type = types[c]
      BY <3>1 DEF ColumnOf
    <3>6. parts[c] = PackArray(types[c], cols[c].array)
      BY <1>3, <3>5
    <3> QED
      BY <3>4, <3>6
  <2>6. Got(m, data, p, rest, cols)
    <3> HIDE DEF reader
    <3>1. DOMAIN readers = 1..n
      BY <1>11
    <3>2. Meets(data, p, h[n])
      BY <1>4, <1>6, <2>2
    <3>3. Got(ReadMany(readers, p), data, p, h[n], UpTo(cols, n))
      BY <1>3, <2>2, <2>5, <3>1, <3>2, ManyRead
    <3> QED
      BY <1>1, <1>4, <2>3, <3>3
  <2>7. PICK r : r = Read(data, pos)
    OBVIOUS
  <2>8. Got(r, data, p, rest, f)
    <3>1. CASE p + Len(rest) <= Len(data) + 1
      <4>1. m.val = cols /\ m.pos = p + Len(rest)
        BY <2>6, <3>1 DEF Got
      <4>2. Len(rest) \in Nat
        BY <1>5, LenProperties
      <4>3. m.pos # 0
        BY <2>2, <4>1, <4>2
      <4>4. Assembled(cols) = f
        BY <1>1, AssembledSame
      <4> QED
        BY <2>4, <2>7, <3>1, <4>1, <4>3, <4>4 DEF Got
    <3>2. CASE ~(p + Len(rest) <= Len(data) + 1)
      <4>1. m.pos = 0
        BY <2>6, <3>2 DEF Got
      <4> QED
        BY <2>4, <2>7, <3>2, <4>1 DEF Got
    <3> QED
      BY <3>1, <3>2
  <2>9. Got(r, data, pos, top \o rest, f)
    <3>1. pos + Len(top) <= Len(data) + 1 /\ Got(r, data, pos + Len(top), rest, f)
      BY <2>2, <2>8
    <3> HIDE DEF Got
    <3> QED
      BY <1>5, <3>1, GotParts
  <2> QED
    BY <1>3, <1>4, <2>7, <2>9
<1>13. CASE ~(pos + x + 1 <= l + 1)
  <2>1. w.pos = 0
    BY <1>10, <1>13
  <2>2. Read(data, pos).pos = 0
    BY <1>14, <2>1 DEF Read, Failed
  <2>3. ~(pos + Len(top) <= Len(data) + 1)
    BY <1>1, <1>5, <1>8, <1>13
  <2>4. PICK r : r = Read(data, pos)
    OBVIOUS
  <2>5. Got(r, data, pos, top \o rest, f)
    BY <1>5, <2>2, <2>3, <2>4, GotParts
  <2> QED
    BY <1>3, <1>4, <2>4, <2>5
<1> QED
  BY <1>12, <1>13

----------------------------------------------------------------------------
(* What the operations do to a column, and the rows of a schema. *)

Lengthened == INSTANCE InductionLemmas WITH Combine <- Longer

(* Values and what stands for a missing one are data of their type. *)
LEMMA DataTyped ==
  ASSUME NEW type \in Types
  PROVE  Values[type] \subseteq Data(type) /\ Default(type) \in Data(type)
<1>1. CASE type = CharB
  BY <1>1, FrameAssumption DEF Data, Default, CharB, CharS
<1>2. CASE type = CharS
  <2>1. <<>> \in Seq(Nat)
    BY EmptySeq
  <2>2. type # CharB
    BY <1>2 DEF CharB, CharS
  <2> QED
    BY <1>2, <2>1, <2>2, FrameAssumption DEF Data, Default
<1>3. CASE type # CharB /\ type # CharS
  <2>1. Values[type] \subseteq Int
    BY <1>3, FrameAssumption DEF Types
  <2> QED
    BY <1>3, <2>1 DEF Data, Default
<1> QED
  BY <1>1, <1>2, <1>3

(* The bit and the datum of an optional. *)
LEMMA OptionalTyped ==
  ASSUME NEW type \in Types, NEW v \in Optional(type)
  PROVE  /\ Bit(v) \in BOOLEAN /\ Datum(type, v) \in Data(type)
         /\ IF Bit(v) THEN Datum(type, v) \in Values[type] ELSE Datum(type, v) = Default(type)
         /\ IF Bit(v) THEN v = Datum(type, v) ELSE v = Null
<1>1. Values[type] \subseteq Data(type) /\ Default(type) \in Data(type)
  BY DataTyped
<1> QED
  BY <1>1 DEF Optional, Bit, Datum

(* The columns of EmptyColumn. *)
LEMMA EmptyTyped ==
  ASSUME NEW type \in Types
  PROVE  /\ ColumnOf(type, EmptyColumn(type)) /\ Size(EmptyColumn(type)) = 0
         /\ Cells(EmptyColumn(type)) = <<>>
<1>1. EmptyColumn(type) = [type |-> type, array |-> EmptyArray]
  BY EmptyColumns
<1>2. /\ EmptyArray.bitmap = <<>> /\ EmptyArray.data = <<>>
      /\ EmptyArray = [bitmap |-> EmptyArray.bitmap, data |-> EmptyArray.data]
  BY DEF EmptyArray
<1>3. <<>> \in Seq(BOOLEAN) /\ <<>> \in Seq(Data(type)) /\ Len(<<>>) = 0 /\ 1..0 = {}
  BY EmptySeq
<1>4. NullableArray(type, EmptyArray)
  BY <1>2, <1>3 DEF NullableArray
<1>5. Size(EmptyColumn(type)) = 0
  BY <1>1, <1>2, <1>3 DEF Size
<1>6. Cells(EmptyColumn(type)) = <<>>
  BY <1>3, <1>5 DEF Cells
<1> QED
  BY <1>1, <1>4, <1>5, <1>6 DEF ColumnOf

(* What is appended is at the end, and nothing else changes. *)
LEMMA Appended ==
  ASSUME NEW S, NEW s \in Seq(S), NEW e \in S, NEW n, n = Len(s)
  PROVE  /\ n \in Nat /\ Append(s, e) \in Seq(S) /\ Len(Append(s, e)) = n + 1
         /\ Append(s, e)[n + 1] = e /\ \A i \in 1..n : Append(s, e)[i] = s[i]
         /\ DOMAIN Append(s, e) = 1..(n + 1)
OBVIOUS

(* push_back of an optional. *)
LEMMA PushTyped ==
  ASSUME NEW type \in Types, NEW col, ColumnOf(type, col), NEW v \in Optional(type),
         NEW new, new = PushBack(col, v)
  PROVE  /\ ColumnOf(type, new) /\ Size(col) \in Nat /\ Size(new) = Size(col) + 1
         /\ Get(new, Size(col) + 1) = v /\ \A i \in 1..Size(col) : Get(new, i) = Get(col, i)
<1>1. PICK a, bits, vals, n : a = col.array /\ bits = a.bitmap /\ vals = a.data /\ n = Len(vals)
  OBVIOUS
<1>2. /\ bits \in Seq(BOOLEAN) /\ Len(bits) = n /\ vals \in Seq(Data(type))
      /\ \A i \in 1..n : IF bits[i] THEN vals[i] \in Values[type] ELSE vals[i] = Default(type)
  BY <1>1 DEF ColumnOf, NullableArray
<1>3. PICK b, d : b = Bit(v) /\ d = Datum(type, v)
  OBVIOUS
<1>4. /\ b \in BOOLEAN /\ d \in Data(type)
      /\ IF b THEN d \in Values[type] ELSE d = Default(type)
      /\ IF b THEN v = d ELSE v = Null
  BY <1>3, OptionalTyped
<1>5. PICK bits1, vals1 : bits1 = Append(bits, b) /\ vals1 = Append(vals, d)
  OBVIOUS
<1>6. /\ n \in Nat /\ bits1 \in Seq(BOOLEAN) /\ Len(bits1) = n + 1 /\ bits1[n + 1] = b
      /\ \A i \in 1..n : bits1[i] = bits[i]
  BY <1>2, <1>4, <1>5, Appended
<1>7. /\ vals1 \in Seq(Data(type)) /\ Len(vals1) = n + 1 /\ vals1[n + 1] = d
      /\ \A i \in 1..n : vals1[i] = vals[i]
  BY <1>1, <1>2, <1>4, <1>5, Appended
<1>8. new = [type |-> type, array |-> [bitmap |-> bits1, data |-> vals1]]
  <2>1. col = [type |-> type, array |-> a]
    BY <1>1 DEF ColumnOf
  <2>2. ArrayPush(type, a, v) = [bitmap |-> bits1, data |-> vals1]
    BY <1>1, <1>3, <1>5 DEF ArrayPush
  <2> QED
    BY <2>1, <2>2 DEF PushBack
<1>9. ASSUME NEW i \in 1..(n + 1)
      PROVE  IF bits1[i] THEN vals1[i] \in Values[type] ELSE vals1[i] = Default(type)
  <2>1. CASE i = n + 1
    BY <1>4, <1>6, <1>7, <2>1
  <2>2. CASE i # n + 1
    <3>1. i \in 1..n
      BY <1>6, <2>2
    <3> QED
      BY <1>2, <1>6, <1>7, <3>1
  <2> QED
    BY <2>1, <2>2
<1>10. ColumnOf(type, new)
  <2>1. PICK a1 : a1 = [bitmap |-> bits1, data |-> vals1]
    OBVIOUS
  <2>2. NullableArray(type, a1)
    BY <1>6, <1>7, <1>9, <2>1 DEF NullableArray
  <2> QED
    BY <1>8, <2>1, <2>2 DEF ColumnOf
<1>11. Size(col) = n /\ Size(new) = n + 1
  BY <1>1, <1>7, <1>8 DEF Size
<1>12. Get(new, n + 1) = v
  BY <1>4, <1>6, <1>7, <1>8 DEF Get, ArrayGet
<1>13. \A i \in 1..n : Get(new, i) = Get(col, i)
  BY <1>1, <1>6, <1>7, <1>8 DEF Get, ArrayGet
<1> QED
  BY <1>6, <1>10, <1>11, <1>12, <1>13

(* set of an optional. *)
LEMMA SetTyped ==
  ASSUME NEW type \in Types, NEW col, ColumnOf(type, col), NEW v \in Optional(type),
         NEW r \in 1..Size(col), NEW new, new = Set(col, r, v)
  PROVE  /\ ColumnOf(type, new) /\ Size(col) \in Nat /\ Size(new) = Size(col)
         /\ Get(new, r) = v /\ \A i \in 1..Size(col) : i # r => Get(new, i) = Get(col, i)
<1>1. PICK a, bits, vals, n : a = col.array /\ bits = a.bitmap /\ vals = a.data /\ n = Len(vals)
  OBVIOUS
<1>2. /\ bits \in Seq(BOOLEAN) /\ Len(bits) = n /\ vals \in Seq(Data(type)) /\ n = Len(vals)
      /\ \A i \in 1..n : IF bits[i] THEN vals[i] \in Values[type] ELSE vals[i] = Default(type)
  BY <1>1 DEF ColumnOf, NullableArray
<1>3. PICK b, d : b = Bit(v) /\ d = Datum(type, v)
  OBVIOUS
<1>4. /\ b \in BOOLEAN /\ d \in Data(type)
      /\ IF b THEN d \in Values[type] ELSE d = Default(type)
      /\ IF b THEN v = d ELSE v = Null
  BY <1>3, OptionalTyped
<1>5. PICK bits1, vals1 : bits1 = [bits EXCEPT ![r] = b] /\ vals1 = [vals EXCEPT ![r] = d]
  OBVIOUS
<1>6. r \in 1..n /\ n \in Nat
  BY <1>1, <1>2, LenProperties DEF Size
<1>7. /\ bits1 \in Seq(BOOLEAN) /\ Len(bits1) = n /\ bits1[r] = b
      /\ \A i \in 1..n : i # r => bits1[i] = bits[i]
  BY <1>2, <1>4, <1>5, <1>6, ExceptSeq
<1>8. /\ vals1 \in Seq(Data(type)) /\ Len(vals1) = n /\ vals1[r] = d
      /\ \A i \in 1..n : i # r => vals1[i] = vals[i]
  BY <1>2, <1>4, <1>5, <1>6, ExceptSeq
<1>9. new = [type |-> type, array |-> [bitmap |-> bits1, data |-> vals1]]
  <2>1. col = [type |-> type, array |-> a]
    BY <1>1 DEF ColumnOf
  <2>2. ArraySet(type, a, r, v) = [bitmap |-> bits1, data |-> vals1]
    BY <1>1, <1>3, <1>5 DEF ArraySet
  <2> QED
    BY <2>1, <2>2 DEF Set
<1>10. \A i \in 1..n : IF bits1[i] THEN vals1[i] \in Values[type] ELSE vals1[i] = Default(type)
  BY <1>2, <1>4, <1>7, <1>8
<1>11. ColumnOf(type, new)
  <2>1. PICK a1 : a1 = [bitmap |-> bits1, data |-> vals1]
    OBVIOUS
  <2>2. NullableArray(type, a1)
    BY <1>7, <1>8, <1>10, <2>1 DEF NullableArray
  <2> QED
    BY <1>9, <2>1, <2>2 DEF ColumnOf
<1>12. Size(col) = n /\ Size(new) = n
  BY <1>1, <1>8, <1>9 DEF Size
<1>13. Get(new, r) = v
  BY <1>4, <1>7, <1>8, <1>9 DEF Get, ArrayGet
<1>14. \A i \in 1..n : i # r => Get(new, i) = Get(col, i)
  BY <1>1, <1>7, <1>8, <1>9 DEF Get, ArrayGet
<1> QED
  BY <1>6, <1>11, <1>12, <1>13, <1>14

(* get of a cell gives an optional of the column's type. *)
LEMMA CellsTyped ==
  ASSUME NEW type \in Types, NEW col, ColumnOf(type, col), NEW i \in 1..Size(col)
  PROVE  Get(col, i) \in Optional(type)
BY DEF ColumnOf, NullableArray, Get, ArrayGet, Optional, Size

RowOf(types, k, row) ==
  row = UpTo(row, k) /\ \A c \in 1..k : row[c] \in Optional(types[c])

RowSteps(h, types, n) == h[0] = {Nothing} /\ \A k \in 1..n : h[k] = Longer(h[k - 1], types[k])

(* The rows of a schema are the last of such steps. *)
LEMMA RowsUnfold ==
  ASSUME NEW n \in Nat, NEW types, DOMAIN types = 1..n
  PROVE  \E h : RowSteps(h, types, n) /\ Rows(types) = h[n]
<1>1. Rows(types) = Lengthened!Fold({Nothing}, types)
  BY DEF Nothing, Rows, Lengthened!Fold, FoldLeft, MapThenFoldSet, Lengthened!Top, Max
<1>2. PICK h : /\ h[0] = {Nothing}
               /\ \A k \in 1..n : h[k] = Longer(h[k - 1], types[k])
               /\ Lengthened!Fold({Nothing}, types) = h[n]
  BY Lengthened!FoldUnfolds
<1> QED
  BY <1>1, <1>2 DEF RowSteps

(* A row has an optional of each type of its schema. *)
LEMMA RowsTyped ==
  ASSUME NEW types \in Seq(Types), NEW n, n = Len(types), NEW row \in Rows(types)
  PROVE  RowOf(types, n, row)
<1>1. n \in Nat /\ DOMAIN types = 1..n
  BY LenProperties
<1>2. PICK h : RowSteps(h, types, n) /\ Rows(types) = h[n]
  BY <1>1, RowsUnfold
<1> DEFINE T == {k \in Nat : k <= n => \A x \in h[k] : RowOf(types, k, x)}
<1>3. 0 \in T
  <2>1. h[0] = {Nothing} /\ Nothing = UpTo(Nothing, 0) /\ 1..0 = {}
    BY <1>2 DEF RowSteps, Nothing, UpTo
  <2> QED
    BY <2>1 DEF RowOf
<1>4. ASSUME NEW k \in Nat, k \in T
      PROVE  k + 1 \in T
  <2>1. ASSUME k + 1 <= n, NEW x \in h[k + 1]
        PROVE  RowOf(types, k + 1, x)
    <3>1. k + 1 \in 1..n /\ (k + 1) - 1 = k /\ k <= n
      BY <1>1, <2>1
    <3>2. h[k + 1] = Longer(h[k], types[k + 1])
      BY <1>2, <3>1 DEF RowSteps
    <3>3. PICK y \in h[k], v \in Optional(types[k + 1]) : x = Append(y, v)
      BY <2>1, <3>2 DEF Longer
    <3>4. RowOf(types, k, y)
      BY <1>4, <3>1
    <3>5. PICK S : S = {y[i] : i \in 1..k} \cup {v}
      OBVIOUS
    <3>6. y = UpTo(y, k) /\ \A c \in 1..k : y[c] \in Optional(types[c])
      BY <3>4 DEF RowOf
    <3>7. y \in Seq(S) /\ Len(y) = k /\ v \in S
      <4>1. PICK z : z = UpTo(y, k)
        OBVIOUS
      <4>2. z \in Seq(S) /\ Len(z) = k
        BY <3>5, <4>1 DEF UpTo
      <4> QED
        BY <3>5, <3>6, <4>1, <4>2
    <3>8. x \in Seq(S) /\ Len(x) = k + 1 /\ x[k + 1] = v /\ \A i \in 1..k : x[i] = y[i]
      BY <3>3, <3>7, Appended
    <3>9. x = UpTo(x, k + 1)
      BY <3>8 DEF UpTo
    <3>10. ASSUME NEW c \in 1..(k + 1)
           PROVE  x[c] \in Optional(types[c])
      <4>1. CASE c = k + 1
        BY <3>3, <3>8, <4>1
      <4>2. CASE c # k + 1
        <5>1. c \in 1..k
          BY <4>2
        <5> QED
          BY <3>6, <3>8, <5>1
      <4> QED
        BY <4>1, <4>2
    <3> QED
      BY <3>9, <3>10 DEF RowOf
  <2> QED
    BY <2>1
<1>5. \A k \in Nat : k \in T
  <2> HIDE DEF T
  <2> QED
    BY <1>3, <1>4, Lengthened!NatInductive
<1> QED
  BY <1>1, <1>2, <1>5

----------------------------------------------------------------------------
(* What the operations do to a frame. *)

(* Its columns are of one size, the number of rows. *)
Sized(f) ==
  /\ NRows(f) \in Nat
  /\ \A c \in 1..Len(f.types) : Size(f.columns[c]) = NRows(f)

(* The indices of the columns are those of the schema. *)
LEMMA FrameIndices ==
  ASSUME NEW f, WellFormed(f), NEW n, n = Len(f.types)
  PROVE  /\ n \in Nat /\ DOMAIN f.types = 1..n /\ DOMAIN f.columns = 1..n
         /\ (n = 0 <=> f.columns = <<>>)
         /\ NRows(f) = IF n = 0 THEN 0 ELSE Size(f.columns[1])
<1>1. n \in Nat /\ DOMAIN f.types = 1..n
  BY LenProperties DEF WellFormed
<1>2. PICK cols : cols = f.columns
  OBVIOUS
<1>3. cols = UpTo(cols, n)
  BY <1>2 DEF WellFormed
<1>4. DOMAIN cols = 1..n
  BY <1>3 DEF UpTo
<1>5. n = 0 => cols = <<>>
  <2>1. n = 0 => UpTo(cols, n) = <<>>
    BY DEF UpTo
  <2> QED
    BY <1>3, <2>1
<1>6. n # 0 => cols # <<>>
  <2>1. n # 0 => 1 \in DOMAIN cols
    BY <1>1, <1>4
  <2>2. DOMAIN <<>> = {}
    OBVIOUS
  <2> QED
    BY <2>1, <2>2
<1> QED
  BY <1>1, <1>2, <1>4, <1>5, <1>6 DEF NRows

(* A frame with columns of n types and m rows. *)
FrameOf(f, n, m) == WellFormed(f) /\ Sized(f) /\ NRows(f) = IF n = 0 THEN 0 ELSE m

(* Such a schema and columns make one. *)
LEMMA FrameMade ==
  ASSUME NEW types \in Seq(Types), NEW n, n = Len(types), NEW cols, cols = UpTo(cols, n),
         \A c \in 1..n : ColumnOf(types[c], cols[c]),
         NEW m \in Nat, \A c \in 1..n : Size(cols[c]) = m,
         NEW f, f = [types |-> types, columns |-> cols]
  PROVE  FrameOf(f, n, m)
<1>1. WellFormed(f)
  BY DEF WellFormed
<1>2. NRows(f) = IF n = 0 THEN 0 ELSE Size(cols[1])
  BY <1>1, FrameIndices
<1>3. n \in Nat
  BY LenProperties
<1>4. n # 0 => Size(cols[1]) = m
  BY <1>3
<1> QED
  BY <1>1, <1>2, <1>3, <1>4 DEF FrameOf, Sized

(* DataFrame(Schema) *)
LEMMA FreshFrame ==
  ASSUME NEW types \in Seq(Types)
  PROVE  WellFormed(Frame(types)) /\ Sized(Frame(types)) /\ NRows(Frame(types)) = 0
<1>1. PICK n, cols : n = Len(types) /\ cols = [c \in DOMAIN types |-> EmptyColumn(types[c])]
  OBVIOUS
<1>2. n \in Nat /\ DOMAIN types = 1..n /\ \A c \in 1..n : types[c] \in Types
  BY <1>1, LenProperties, ElementOfSeq
<1>3. cols = UpTo(cols, n)
  BY <1>1, <1>2 DEF UpTo
<1>4. \A c \in 1..n : ColumnOf(types[c], cols[c]) /\ Size(cols[c]) = 0
  BY <1>1, <1>2, EmptyTyped
<1>5. Frame(types) = [types |-> types, columns |-> cols]
  BY <1>1 DEF Frame
<1>6. PICK m \in Nat : m = 0
  OBVIOUS
<1>8. PICK f : f = Frame(types)
  OBVIOUS
<1>7. FrameOf(f, n, m)
  <2>1. (\A c \in 1..n : ColumnOf(types[c], cols[c])) /\ \A c \in 1..n : Size(cols[c]) = m
    BY <1>4, <1>6
  <2>2. n = Len(types) /\ f = [types |-> types, columns |-> cols]
    BY <1>1, <1>5, <1>8
  <2> QED
    BY <1>3, <2>1, <2>2, FrameMade
<1> QED
  BY <1>6, <1>7, <1>8 DEF FrameOf

(* DataFrame::add_row *)
LEMMA RowAdded ==
  ASSUME NEW f, WellFormed(f), Sized(f), NEW n, n = Len(f.types),
         NEW row, RowOf(f.types, n, row), NEW new, new = AddRow(f, row)
  PROVE  /\ WellFormed(new) /\ Sized(new) /\ NRows(new) = IF n = 0 THEN 0 ELSE NRows(f) + 1
         /\ new.types = f.types
         /\ \A c \in 1..n : new.columns[c] = PushBack(f.columns[c], row[c])
<1>1. PICK types, cols, m : types = f.types /\ cols = f.columns /\ m = NRows(f)
  OBVIOUS
<1>2. /\ n \in Nat /\ DOMAIN cols = 1..n /\ types \in Seq(Types) /\ n = Len(types) /\ m \in Nat
      /\ \A c \in 1..n : ColumnOf(types[c], cols[c]) /\ Size(cols[c]) = m
  BY <1>1, FrameIndices DEF WellFormed, Sized
<1>3. PICK cols1 : cols1 = [c \in 1..n |-> PushBack(cols[c], row[c])]
  OBVIOUS
<1>4. new = [types |-> types, columns |-> cols1]
  <2>1. f = [types |-> types, columns |-> cols]
    BY <1>1 DEF WellFormed
  <2> QED
    BY <1>2, <1>3, <2>1 DEF AddRow
<1>5. cols1 = UpTo(cols1, n)
  BY <1>3 DEF UpTo
<1>6. ASSUME NEW c \in 1..n
      PROVE  ColumnOf(types[c], cols1[c]) /\ Size(cols1[c]) = m + 1
  <2>1. types[c] \in Types /\ row[c] \in Optional(types[c]) /\ cols1[c] = PushBack(cols[c], row[c])
    BY <1>1, <1>2, <1>3, ElementOfSeq DEF RowOf
  <2> QED
    BY <1>2, <2>1, PushTyped
<1>7. PICK k \in Nat : k = m + 1
  BY <1>2
<1>8. FrameOf(new, n, k)
  <2>1. (\A c \in 1..n : ColumnOf(types[c], cols1[c])) /\ \A c \in 1..n : Size(cols1[c]) = k
    BY <1>6, <1>7
  <2> QED
    BY <1>2, <1>4, <1>5, <2>1, FrameMade
<1>9. \A c \in 1..n : new.columns[c] = PushBack(f.columns[c], row[c])
  BY <1>1, <1>3, <1>4
<1> QED
  BY <1>1, <1>4, <1>7, <1>8, <1>9 DEF FrameOf

(* DataFrame::add_column *)
LEMMA ColumnAdded ==
  ASSUME NEW f, WellFormed(f), Sized(f), NEW n, n = Len(f.types),
         NEW type \in Types, NEW col, ColumnOf(type, col),
         n = 0 \/ Size(col) = NRows(f),
         NEW new, new = WithColumn(f, col)
  PROVE  /\ WellFormed(new) /\ Sized(new) /\ NRows(new) = Size(col)
         /\ DOMAIN new.columns = 1..(n + 1) /\ new.columns[n + 1] = col
         /\ \A c \in 1..n : new.columns[c] = f.columns[c]
<1>1. PICK types, cols, m : types = f.types /\ cols = f.columns /\ m = Size(col)
  OBVIOUS
<1>2. /\ n \in Nat /\ types \in Seq(Types) /\ n = Len(types) /\ cols = UpTo(cols, n)
      /\ \A c \in 1..n : ColumnOf(types[c], cols[c]) /\ Size(cols[c]) = NRows(f)
  BY <1>1, FrameIndices DEF WellFormed, Sized
<1>3. m \in Nat
  BY <1>1, LenProperties DEF ColumnOf, NullableArray, Size
<1>4. PICK types1, cols1 : types1 = Append(types, type) /\ cols1 = Append(cols, col)
  OBVIOUS
<1>5. /\ types1 \in Seq(Types) /\ Len(types1) = n + 1 /\ types1[n + 1] = type
      /\ \A c \in 1..n : types1[c] = types[c]
  BY <1>2, <1>4, Appended
<1>6. /\ Len(cols1) = n + 1 /\ DOMAIN cols1 = 1..(n + 1) /\ cols1 = UpTo(cols1, n + 1)
      /\ cols1[n + 1] = col /\ \A c \in 1..n : cols1[c] = cols[c]
  <2>1. PICK S : S = {cols[c] : c \in 1..n} \cup {col}
    OBVIOUS
  <2>2. cols \in Seq(S) /\ Len(cols) = n /\ col \in S
    <3>1. PICK z : z = UpTo(cols, n)
      OBVIOUS
    <3>2. z \in Seq(S) /\ Len(z) = n
      BY <1>2, <2>1, <3>1 DEF UpTo
    <3> QED
      BY <1>2, <2>1, <3>1, <3>2
  <2>3. /\ cols1 \in Seq(S) /\ Len(cols1) = n + 1 /\ DOMAIN cols1 = 1..(n + 1)
        /\ cols1[n + 1] = col /\ \A c \in 1..n : cols1[c] = cols[c]
    BY <1>4, <2>2, Appended
  <2>4. cols1 = UpTo(cols1, n + 1)
    BY <2>3 DEF UpTo
  <2> QED
    BY <2>3, <2>4
<1>7. new = [types |-> types1, columns |-> cols1]
  <2>1. col.type = type
    BY DEF ColumnOf
  <2> QED
    BY <1>1, <1>4, <2>1 DEF WithColumn
<1>8. ASSUME NEW c \in 1..(n + 1)
      PROVE  ColumnOf(types1[c], cols1[c]) /\ Size(cols1[c]) = m
  <2>1. CASE c = n + 1
    BY <1>1, <1>5, <1>6, <2>1
  <2>2. CASE c # n + 1
    <3>1. c \in 1..n /\ n # 0
      BY <1>2, <2>2
    <3> QED
      BY <1>1, <1>2, <1>5, <1>6, <3>1
  <2> QED
    BY <2>1, <2>2
<1>9. PICK k : k = n + 1 /\ k # 0
  BY <1>2
<1>10. FrameOf(new, k, m)
  <2>1. (\A c \in 1..k : ColumnOf(types1[c], cols1[c])) /\ \A c \in 1..k : Size(cols1[c]) = m
    BY <1>8, <1>9
  <2>2. k = Len(types1) /\ cols1 = UpTo(cols1, k)
    BY <1>5, <1>6, <1>9
  <2> QED
    BY <1>3, <1>5, <1>7, <2>1, <2>2, FrameMade
<1> QED
  BY <1>1, <1>6, <1>7, <1>9, <1>10 DEF FrameOf

HasRows(f, m) == NRows(f) = m

CellChanged(f, c, r, v) == [f EXCEPT !.columns[c] = Set(@, r, v)]

(* DataFrame::set *)
LEMMA CellSet ==
  ASSUME NEW f, WellFormed(f), Sized(f), NEW n, n = Len(f.types),
         NEW m, m = NRows(f), NEW c \in 1..n, NEW r \in 1..m, NEW v \in Optional(f.types[c]),
         NEW new, new = CellChanged(f, c, r, v)
  PROVE  /\ WellFormed(new) /\ Sized(new) /\ HasRows(new, m)
         /\ new.types = f.types
         /\ new.columns = [d \in 1..n |-> IF d = c THEN Set(f.columns[c], r, v) ELSE f.columns[d]]
<1>1. PICK types, cols : types = f.types /\ cols = f.columns
  OBVIOUS
<1>2. /\ n \in Nat /\ DOMAIN cols = 1..n /\ types \in Seq(Types) /\ n = Len(types) /\ m \in Nat
      /\ \A d \in 1..n : ColumnOf(types[d], cols[d]) /\ Size(cols[d]) = m
  BY <1>1, FrameIndices DEF WellFormed, Sized
<1>3. PICK cols1 : cols1 = [d \in 1..n |-> IF d = c THEN Set(cols[c], r, v) ELSE cols[d]]
  OBVIOUS
<1>4. new = [types |-> types, columns |-> cols1]
  <2>1. f = [types |-> types, columns |-> cols]
    BY <1>1 DEF WellFormed
  <2> QED
    BY <1>2, <1>3, <2>1 DEF CellChanged
<1>5. cols1 = UpTo(cols1, n)
  BY <1>3 DEF UpTo
<1>6. ASSUME NEW d \in 1..n
      PROVE  ColumnOf(types[d], cols1[d]) /\ Size(cols1[d]) = m
  <2>1. CASE d = c
    <3>1. types[c] \in Types /\ v \in Optional(types[c]) /\ r \in 1..Size(cols[c])
      BY <1>1, <1>2, ElementOfSeq
    <3>2. cols1[d] = Set(cols[c], r, v)
      BY <1>3, <2>1
    <3> QED
      BY <1>2, <2>1, <3>1, <3>2, SetTyped
  <2>2. CASE d # c
    BY <1>2, <1>3, <2>2
  <2> QED
    BY <2>1, <2>2
<1>7. FrameOf(new, n, m)
  <2>1. (\A d \in 1..n : ColumnOf(types[d], cols1[d])) /\ \A d \in 1..n : Size(cols1[d]) = m
    BY <1>6
  <2>2. types \in Seq(Types) /\ n = Len(types) /\ m \in Nat
    BY <1>2
  <2> QED
    BY <1>4, <1>5, <2>1, <2>2, FrameMade
<1>8. n # 0
  BY <1>2
<1> QED
  BY <1>1, <1>3, <1>4, <1>7, <1>8 DEF FrameOf, HasRows

----------------------------------------------------------------------------
(* The frame while it is built, sent and read. *)

Before == {"new", "rows", "columns", "stored", "read"}
Begun == {"mapping", "merged", "done", "aborted"}

ColumnBuilt(col) ==
  col = None \/ (\E type \in Types : ColumnOf(type, col) /\ Size(col) \in 0..MaxRows)

CopyBuilt ==
  \/ phase \in {"new", "rows", "columns", "stored"} /\ copy = None
  \/ phase \in {"read"} \cup Begun /\ copy = frame

Built ==
  /\ WellFormed(frame) /\ Sized(frame) /\ NRows(frame) <= MaxRows
  /\ ColumnBuilt(column)
  /\ CopyBuilt
  /\ phase = "new" => frame = Frame(<<>>)

(* What is no frame, and no column. *)
LEMMA NoneIsNothing ==
  /\ \A f : WellFormed(f) => f # None
  /\ \A type, col : ColumnOf(type, col) => col # None
<1>1. "types" \notin DOMAIN None /\ "array" \notin DOMAIN None
  BY DEF None
<1>2. \A f : WellFormed(f) => "types" \in DOMAIN f
  BY DEF WellFormed
<1>3. \A type, col : ColumnOf(type, col) => "array" \in DOMAIN col
  BY DEF ColumnOf
<1> QED
  BY <1>1, <1>2, <1>3

(* A longer sequence has an element behind its prefix. *)
LEMMA NextOfLonger ==
  ASSUME NEW S, NEW a \in Seq(S), NEW b \in Seq(S), IsStrictPrefix(a, b)
  PROVE  b[Len(a) + 1] \in S
<1>1. Len(a) \in Nat /\ Len(b) \in Nat /\ Len(a) <= Len(b) /\ a # b
      /\ SubSeq(a, 1, Len(a)) = SubSeq(b, 1, Len(a))
  BY LenProperties DEF IsStrictPrefix, IsPrefix
<1>2. Len(a) # Len(b)
  <2> SUFFICES ASSUME Len(a) = Len(b)
               PROVE  FALSE
    OBVIOUS
  <2>1. SubSeq(a, 1, Len(a)) = a /\ SubSeq(b, 1, Len(b)) = b
    BY SubSeqFull
  <2> QED
    BY <1>1, <2>1
<1>3. Len(a) + 1 \in 1..Len(b)
  BY <1>1, <1>2
<1> QED
  BY <1>3, ElementOfSeq

(* The frame that is stored meets what is sent at its first unit. *)
LEMMA SentIsRead ==
  ASSUME NEW f, WellFormed(f)
  PROVE  Pack(f) \in Seq(Int) /\ Read(Pack(f), 1).val = f
<1>1. PICK data : data = Pack(f)
  OBVIOUS
<1>2. data \in Seq(Int)
  <2>1. PICK n : n = Len(f.types)
    OBVIOUS
  <2>2. PICK schema, width, parts, h : Parts(f, n, schema, width, parts, h)
    BY <2>1, FramePacked
  <2>3. schema \in Seq(Int) /\ width \in Seq(Int) /\ h[n] \in Seq(Int) /\ Pack(f) = (schema \o width) \o h[n]
    BY <2>2 DEF Parts
  <2>4. schema \o width \in Seq(Int)
    BY <2>3, ConcatProperties
  <2> QED
    BY <1>1, <2>3, <2>4, ConcatProperties
<1>3. PICK l \in Nat : l = Len(data)
  BY <1>2, LenProperties
<1>4. Meets(data, 1, data)
  <2>1. \A i \in 1..l : 1 + i - 1 = i
    OBVIOUS
  <2> QED
    BY <1>3, <2>1 DEF Meets
<1>5. 1 \in 1..(Len(data) + 1) /\ 1 + Len(data) <= Len(data) + 1
  BY <1>3
<1>6. Got(Read(data, 1), data, 1, data, f)
  BY <1>1, <1>2, <1>4, <1>5, FrameRead
<1> QED
  BY <1>1, <1>2, <1>5, <1>6 DEF Got

(* Every step of the construction keeps the frame a frame. *)
LEMMA BuildKeeps ==
  ASSUME Built, Build
  PROVE  Built'
<1>1. PICK n : n = Len(frame.types)
  OBVIOUS
<1>2. /\ WellFormed(frame) /\ Sized(frame) /\ NRows(frame) <= MaxRows /\ ColumnBuilt(column)
      /\ frame.types \in Seq(Types) /\ NRows(frame) \in Nat /\ n \in Nat /\ DOMAIN frame.columns = 1..n
      /\ NRows(frame) = IF n = 0 THEN 0 ELSE Size(frame.columns[1])
  BY <1>1, FrameIndices DEF Built, WellFormed, Sized
<1>3. MaxRows \in Nat /\ ColumnBuilt(None)
  BY FrameAssumption DEF ColumnBuilt
<1>4. ASSUME NEW types \in Schemas, InitializeSchema(types)
      PROVE  Built'
  <2>1. types \in Seq(Types)
    BY FrameAssumption
  <2>2. WellFormed(frame') /\ Sized(frame') /\ NRows(frame') = 0
    BY <1>4, <2>1, FreshFrame DEF InitializeSchema
  <2>3. phase = "new" /\ phase' = "rows" /\ column' = column /\ copy' = copy
    BY <1>4 DEF InitializeSchema
  <2>4. CopyBuilt'
    BY <2>3 DEF Built, CopyBuilt, Begun
  <2> QED
    BY <1>2, <1>3, <2>2, <2>3, <2>4 DEF Built
<1>5. ASSUME NEW row \in Rows(frame.types), ParseRow(row)
      PROVE  Built'
  <2>1. /\ frame' = AddRow(frame, row) /\ phase = "rows" /\ UNCHANGED <<phase, column, copy>>
        /\ NRows(frame) + 1 <= MaxRows
    BY <1>5 DEF ParseRow, Fits
  <2>2. RowOf(frame.types, n, row)
    BY <1>1, <1>2, RowsTyped
  <2>3. WellFormed(frame') /\ Sized(frame') /\ NRows(frame') = IF n = 0 THEN 0 ELSE NRows(frame) + 1
    BY <1>1, <1>2, <2>1, <2>2, RowAdded
  <2>4. CopyBuilt'
    BY <2>1 DEF Built, CopyBuilt, Begun
  <2> QED
    BY <1>2, <1>3, <2>1, <2>3, <2>4 DEF Built
<1>6. ASSUME NEW types \in Schemas, IsStrictPrefix(frame.types, types), NewColumn(types[Len(frame.types) + 1])
      PROVE  Built'
  <2>1. PICK type : type = types[Len(frame.types) + 1]
    OBVIOUS
  <2>2. type \in Types
    BY <1>2, <1>6, <2>1, FrameAssumption, NextOfLonger
  <2>3. /\ column' = EmptyColumn(type) /\ phase \in {"new", "columns"} /\ phase' = "columns"
        /\ UNCHANGED <<frame, copy>>
    BY <1>6, <2>1 DEF NewColumn
  <2>4. ColumnOf(type, column') /\ Size(column') = 0
    BY <2>2, <2>3, EmptyTyped
  <2>5. ColumnBuilt(column')
    BY <1>3, <2>2, <2>4 DEF ColumnBuilt
  <2>6. CopyBuilt'
    BY <2>3 DEF Built, CopyBuilt, Begun
  <2> QED
    BY <1>2, <2>3, <2>5, <2>6 DEF Built
<1>7. ASSUME NEW v \in Optional(column.type), FillColumn(v)
      PROVE  Built'
  <2>1. /\ phase = "columns" /\ column # None /\ Size(column) + 1 <= MaxRows
        /\ column' = PushBack(column, v) /\ UNCHANGED <<phase, frame, copy>>
    BY <1>7 DEF FillColumn, Fits
  <2>2. PICK type \in Types : ColumnOf(type, column)
    BY <1>2, <2>1 DEF ColumnBuilt
  <2>3. column.type = type
    BY <2>2 DEF ColumnOf
  <2>4. ColumnOf(type, column') /\ Size(column) \in Nat /\ Size(column') = Size(column) + 1
    BY <1>7, <2>1, <2>2, <2>3, PushTyped
  <2>5. ColumnBuilt(column')
    BY <1>3, <2>1, <2>4 DEF ColumnBuilt
  <2>6. CopyBuilt'
    BY <2>1 DEF Built, CopyBuilt, Begun
  <2> QED
    BY <1>2, <2>1, <2>5, <2>6 DEF Built
<1>8. ASSUME AddColumn
      PROVE  Built'
  <2>1. /\ phase = "columns" /\ column # None /\ (frame.columns = <<>> \/ Size(column) = NRows(frame))
        /\ frame' = WithColumn(frame, column) /\ column' = None /\ UNCHANGED <<phase, copy>>
    BY <1>8 DEF AddColumn
  <2>2. PICK type \in Types : ColumnOf(type, column) /\ Size(column) \in 0..MaxRows
    BY <1>2, <2>1 DEF ColumnBuilt
  <2>3. n = 0 \/ Size(column) = NRows(frame)
    BY <1>1, <1>2, <2>1, FrameIndices
  <2>4. WellFormed(frame') /\ Sized(frame') /\ NRows(frame') = Size(column)
    BY <1>1, <1>2, <2>1, <2>2, <2>3, ColumnAdded
  <2>5. NRows(frame') <= MaxRows
    BY <1>3, <2>2, <2>4
  <2>6. CopyBuilt'
    BY <2>1 DEF Built, CopyBuilt, Begun
  <2> QED
    BY <1>3, <2>1, <2>4, <2>5, <2>6 DEF Built
<1>9. ASSUME NEW c \in DOMAIN frame.columns, NEW r \in 1..NRows(frame),
             NEW v \in Optional(frame.types[c]), SetCell(c, r, v)
      PROVE  Built'
  <2>1. /\ phase \in {"rows", "columns"} /\ frame' = CellChanged(frame, c, r, v)
        /\ UNCHANGED <<phase, column, copy>>
    BY <1>9 DEF SetCell, CellChanged
  <2>2. c \in 1..n
    BY <1>2
  <2>4. WellFormed(frame') /\ Sized(frame') /\ NRows(frame') = NRows(frame)
    <3>1. PICK m : m = NRows(frame) /\ r \in 1..m
      BY <1>9
    <3>2. WellFormed(frame) /\ Sized(frame)
      BY <1>2
    <3>3. WellFormed(frame') /\ Sized(frame') /\ HasRows(frame', m)
      BY <1>1, <2>1, <2>2, <3>1, <3>2, CellSet
    <3> QED
      BY <3>1, <3>3 DEF HasRows
  <2>3. CopyBuilt'
    BY <2>1 DEF Built, CopyBuilt, Begun
  <2> QED
    BY <1>2, <2>1, <2>3, <2>4 DEF Built
<1>10. ASSUME Store
       PROVE  Built'
  <2>1. phase \in {"rows", "columns"} /\ phase' = "stored" /\ UNCHANGED <<column, frame, copy>>
    BY <1>10 DEF Store
  <2>2. CopyBuilt'
    BY <2>1 DEF Built, CopyBuilt, Begun
  <2> QED
    BY <1>2, <2>1, <2>2 DEF Built
<1>11. ASSUME ReadRemotely
       PROVE  Built'
  <2>1. /\ phase = "stored" /\ phase' = "read" /\ copy' = Read(Pack(frame), 1).val
        /\ UNCHANGED <<column, frame>>
    BY <1>11 DEF ReadRemotely
  <2>2. copy' = frame'
    BY <1>2, <2>1, SentIsRead
  <2>3. CopyBuilt'
    BY <2>1, <2>2 DEF CopyBuilt
  <2> QED
    BY <1>2, <2>1, <2>3 DEF Built
<1> QED
  BY <1>4, <1>5, <1>6, <1>7, <1>8, <1>9, <1>10, <1>11 DEF Build

(* No step of a map changes the frame or its copy. *)
LEMMA MapKeeps ==
  ASSUME Built, UNCHANGED <<column, frame, copy>>, phase' = phase \/ (phase \in Begun \cup {"read"} /\ phase' \in Begun)
  PROVE  Built'
<1>1. CopyBuilt'
  BY DEF Built, CopyBuilt, Begun
<1>2. phase' = "new" => phase = "new"
  BY DEF Begun
<1> QED
  BY <1>1, <1>2 DEF Built

(* Every step keeps the frame a frame. *)
LEMMA BuiltStep == Built /\ [Next]_vars => Built'
<1> SUFFICES ASSUME Built, [Next]_vars
             PROVE  Built'
  OBVIOUS
<1>1. ASSUME NEW r \in Rowers, NEW s \in Lookups, Start(r, s)
      PROVE  Built'
  <2>1. phase = "read" /\ phase' \in Begun /\ UNCHANGED <<column, frame, copy>>
    BY <1>1 DEF Start, Begun
  <2> QED
    BY <2>1, MapKeeps
<1>2. ASSUME NEW t \in Thread, Turn(t)
      PROVE  Built'
  <2>1. UNCHANGED <<phase, column, frame, copy>>
    BY <1>2 DEF Turn, Accept, Lock, Add, frameVars
  <2> QED
    BY <2>1, MapKeeps
<1>3. ASSUME Merge \/ Finish
      PROVE  Built'
  <2>1. phase \in Begun /\ phase' \in Begun /\ UNCHANGED <<column, frame, copy>>
    BY <1>3 DEF Merge, Finish, Begun
  <2> QED
    BY <2>1, MapKeeps
<1>4. ASSUME UNCHANGED vars
      PROVE  Built'
  <2>1. UNCHANGED <<phase, column, frame, copy>>
    BY <1>4 DEF vars, frameVars
  <2> QED
    BY <2>1, MapKeeps
<1> QED
  BY <1>1, <1>2, <1>3, <1>4, BuildKeeps DEF Next

(* The first frame is the empty one. *)
LEMMA BuiltInit == Init => Built
<1> SUFFICES ASSUME Init
             PROVE  Built
  OBVIOUS
<1>1. phase = "new" /\ column = None /\ frame = Frame(<<>>) /\ copy = None
  BY DEF Init, FrameInit
<1>2. WellFormed(frame) /\ Sized(frame) /\ NRows(frame) = 0
  <2>1. <<>> \in Seq(Types)
    BY EmptySeq
  <2> QED
    BY <1>1, <2>1, FreshFrame
<1>3. MaxRows \in Nat
  BY FrameAssumption
<1> QED
  BY <1>1, <1>2, <1>3 DEF Built, ColumnBuilt, CopyBuilt

(* The frame is always a frame. *)
LEMMA AlwaysBuilt == Spec => []Built
<1>1. Init => Built
  BY BuiltInit
<1>2. Built /\ [Next]_vars => Built'
  BY BuiltStep
<1> QED
  BY <1>1, <1>2, PTL DEF Spec

(* What Read returns is a pair. *)
LEMMA ReadGives ==
  ASSUME NEW data, NEW pos
  PROVE  Read(data, pos) = [val |-> Read(data, pos).val, pos |-> Read(data, pos).pos]
BY DEF Read

(* What is read is the frame, wherever it stands and whatever follows. *)
LEMMA FrameReadBack ==
  ASSUME NEW f, WellFormed(f), NEW before \in Seq(Int), NEW junk \in Seq(Int)
  PROVE  Read((before \o Pack(f)) \o junk, Len(before) + 1)
           = [val |-> f, pos |-> Len(before) + 1 + Len(Pack(f))]
<1>1. PICK enc : enc = Pack(f)
  OBVIOUS
<1>2. enc \in Seq(Int)
  BY <1>1, SentIsRead
<1>3. PICK m \in Nat, n \in Nat, k \in Nat : m = Len(before) /\ n = Len(enc) /\ k = Len(junk)
  BY <1>2, LenProperties
<1>4. PICK ab, data : ab = before \o enc /\ data = ab \o junk
  OBVIOUS
<1>5. ab \in Seq(Int) /\ Len(ab) = m + n /\ \A i \in 1..n : ab[m + i] = enc[i]
  BY <1>2, <1>3, <1>4
<1>6. data \in Seq(Int) /\ Len(data) = m + n + k /\ \A i \in 1..(m + n) : data[i] = ab[i]
  <2>1. PICK j \in Nat : j = m + n /\ j = Len(ab)
    BY <1>5
  <2>2. data \in Seq(Int) /\ Len(data) = j + k /\ \A i \in 1..j : data[i] = ab[i]
    BY <1>3, <1>4, <1>5, <2>1
  <2> QED
    BY <2>1, <2>2
<1>7. PICK p \in Nat : p = m + 1 /\ p \in 1..(Len(data) + 1)
  <2>1. m + 1 \in Nat /\ m + 1 \in 1..(m + n + k + 1)
    OBVIOUS
  <2>2. Len(data) = m + n + k
    BY <1>6
  <2> QED
    BY <2>1, <2>2
<1>8. Meets(data, p, enc)
  <2>1. ASSUME NEW i \in 1..n
        PROVE  data[p + i - 1] = enc[i]
    <3>1. p + i - 1 = m + i /\ m + i \in 1..(m + n)
      BY <1>7
    <3> QED
      BY <1>5, <1>6, <3>1
  <2> QED
    BY <1>3, <2>1 DEF Meets
<1>9. Got(Read(data, p), data, p, enc, f)
  BY <1>1, <1>6, <1>7, <1>8, FrameRead
<1>10. p + n <= Len(data) + 1
  BY <1>6, <1>7
<1>11. Read(data, p).val = f /\ Read(data, p).pos = p + n
  BY <1>3, <1>9, <1>10 DEF Got
<1>12. Read(data, p) = [val |-> f, pos |-> p + n]
  BY <1>11, ReadGives
<1> QED
  BY <1>1, <1>3, <1>4, <1>7, <1>12

(* What may follow the frame in what is received. *)
Junk == {<<>>, <<0>>, <<1, 1>>}

(* What is read is the frame. *)
THEOREM FramesRoundTrip == Spec => []RoundTrip
<1>1. Built => RoundTrip
  <2> SUFFICES ASSUME Built, NEW junk \in Junk
               PROVE  Read(<<1>> \o Pack(frame) \o junk, 2) = [val |-> frame, pos |-> Len(Pack(frame)) + 2]
    BY DEF RoundTrip, Junk
  <2>1. WellFormed(frame)
    BY DEF Built
  <2>2. PICK key, data : key = <<1>> /\ data = Pack(frame)
    OBVIOUS
  <2>3. key \in Seq(Int) /\ Len(key) = 1 /\ junk \in Seq(Int)
    <3>1. <<>> \in Seq(Int) /\ <<0>> \in Seq(Int) /\ <<1, 1>> \in Seq(Int)
      OBVIOUS
    <3>2. junk \in Seq(Int)
      BY <3>1, Zenon DEF Junk
    <3> QED
      BY <2>2, <3>2
  <2>4. Len(data) \in Nat
    BY <2>1, <2>2, SentIsRead, LenProperties
  <2>5. Read((key \o data) \o junk, Len(key) + 1) = [val |-> frame, pos |-> Len(key) + 1 + Len(data)]
    BY <2>1, <2>2, <2>3, FrameReadBack
  <2>6. Len(key) + 1 = 2 /\ Len(key) + 1 + Len(data) = Len(data) + 2
    BY <2>3, <2>4
  <2>7. Read((key \o data) \o junk, 2) = [val |-> frame, pos |-> Len(data) + 2]
    BY <2>5, <2>6
  <2> QED
    BY <2>2, <2>7
<1> QED
  BY <1>1, AlwaysBuilt, PTL

----------------------------------------------------------------------------
(* Sums and counts. *)

Plus(a, b) == a + b
Adds == INSTANCE InductionLemmas WITH Combine <- Plus

(* The sum of the first n of f. *)
Total(f, n) == Adds!Fold(0, UpTo(f, n))

Partial(h, f, n) == h[0] = 0 /\ \A k \in 1..n : h[k] = h[k - 1] + f[k]

(* Partial sums are determined by what is added.                            *)
LEMMA PartialSame ==
  ASSUME NEW n \in Nat, NEW f, NEW g, \A k \in 1..n : f[k] = g[k],
         NEW h, Partial(h, f, n), NEW m \in Nat, n <= m, NEW i, Partial(i, g, m)
  PROVE  h[n] = i[n]
<1> DEFINE T == {k \in Nat : k <= n => h[k] = i[k]}
<1>1. 0 \in T
  BY DEF Partial
<1>2. ASSUME NEW k \in Nat, k \in T
      PROVE  k + 1 \in T
  <2>1. CASE k + 1 <= n
    <3>1. k + 1 \in 1..n /\ k + 1 \in 1..m /\ (k + 1) - 1 = k /\ k <= n
      BY <2>1
    <3> QED
      BY <1>2, <3>1 DEF Partial
  <2> QED
    BY <2>1
<1>3. \A k \in Nat : k \in T
  <2> HIDE DEF T
  <2> QED
    BY <1>1, <1>2, Adds!NatInductive
<1> QED
  BY <1>3

(* A sum is the last of its partial sums. *)
LEMMA TotalUnfolds ==
  ASSUME NEW n \in Nat, NEW f
  PROVE  \E h : Partial(h, f, n) /\ Total(f, n) = h[n]
<1>1. PICK s : s = UpTo(f, n)
  OBVIOUS
<1>2. DOMAIN s = 1..n /\ \A k \in 1..n : s[k] = f[k]
  BY <1>1 DEF UpTo
<1>3. PICK h : /\ h[0] = 0
               /\ \A k \in 1..n : h[k] = Plus(h[k - 1], s[k])
               /\ Adds!Fold(0, s) = h[n]
  BY <1>2, Adds!FoldUnfolds
<1>4. Partial(h, f, n)
  BY <1>2, <1>3 DEF Partial, Plus
<1> QED
  BY <1>1, <1>3, <1>4 DEF Total

(* A sum begins with nothing and grows by one after the other. *)
LEMMA TotalNext ==
  ASSUME NEW f
  PROVE  Total(f, 0) = 0 /\ \A n \in Nat : Total(f, n + 1) = Total(f, n) + f[n + 1]
<1>1. Total(f, 0) = 0
  <2>1. 0 \in Nat
    OBVIOUS
  <2> QED
    BY <2>1, TotalUnfolds DEF Partial
<1>2. ASSUME NEW n \in Nat
      PROVE  Total(f, n + 1) = Total(f, n) + f[n + 1]
  <2>1. PICK m \in Nat : m = n + 1
    OBVIOUS
  <2>2. PICK h : Partial(h, f, n) /\ Total(f, n) = h[n]
    BY TotalUnfolds
  <2>3. PICK i : Partial(i, f, m) /\ Total(f, m) = i[m]
    BY TotalUnfolds
  <2>4. h[n] = i[n]
    BY <2>1, <2>2, <2>3, PartialSame
  <2>5. i[m] = i[n] + f[m]
    BY <2>1, <2>3 DEF Partial
  <2> QED
    BY <2>1, <2>2, <2>3, <2>4, <2>5
<1> QED
  BY <1>1, <1>2

(* Sums of numbers are numbers. *)
LEMMA TotalTyped ==
  ASSUME NEW f, NEW n \in Nat, \A k \in 1..n : f[k] \in Int
  PROVE  \A k \in 0..n : Total(f, k) \in Int
<1> DEFINE T == {k \in Nat : k <= n => Total(f, k) \in Int}
<1>1. 0 \in T
  BY TotalNext
<1>2. ASSUME NEW k \in Nat, k \in T
      PROVE  k + 1 \in T
  <2>1. CASE k + 1 <= n
    <3>1. k + 1 \in 1..n /\ k <= n
      BY <2>1
    <3> QED
      BY <1>2, <3>1, TotalNext
  <2> QED
    BY <2>1
<1>3. \A k \in Nat : k \in T
  <2> HIDE DEF T
  <2> QED
    BY <1>1, <1>2, Adds!NatInductive
<1> QED
  BY <1>3

(* What adds the same has the same sum; what adds d more at one place, d   *)
(* more.                                                                    *)
Moved(f, g, n, j, d) ==
  \A k \in 1..n : f[k] \in Int /\ g[k] = f[k] + (IF k = j THEN d ELSE 0)

(* What adds d more at one place has a sum that is d more ... *)
LEMMA TotalChanged ==
  ASSUME NEW n \in Nat, NEW f, NEW g, NEW d \in Int, NEW j \in 1..n, Moved(f, g, n, j, d)
  PROVE  Total(g, n) = Total(f, n) + d
<1> DEFINE more(k) == IF j \in 1..k THEN d ELSE 0
           T == {k \in Nat : k <= n => Total(g, k) = Total(f, k) + more(k)}
<1>3. \A k \in 1..n : f[k] \in Int /\ g[k] = f[k] + (IF k = j THEN d ELSE 0)
  BY DEF Moved
<1>0. \A k \in 0..n : Total(f, k) \in Int
  BY <1>3, TotalTyped
<1>1. 0 \in T
  BY TotalNext
<1>2. ASSUME NEW k \in Nat, k \in T
      PROVE  k + 1 \in T
  <2>1. CASE k + 1 <= n
    <3>1. k + 1 \in 1..n /\ k <= n /\ k \in 0..n
      BY <2>1
    <3>2. Total(g, k + 1) = Total(g, k) + g[k + 1] /\ Total(f, k + 1) = Total(f, k) + f[k + 1]
      BY TotalNext
    <3>3. Total(g, k) = Total(f, k) + more(k)
      BY <1>2, <3>1
    <3>4. g[k + 1] = f[k + 1] + (IF k + 1 = j THEN d ELSE 0) /\ f[k + 1] \in Int /\ Total(f, k) \in Int
      BY <1>0, <1>3, <3>1
    <3>5. more(k + 1) = more(k) + (IF k + 1 = j THEN d ELSE 0)
      OBVIOUS
    <3>6. more(k) \in Int /\ more(k + 1) \in Int
      OBVIOUS
    <3> HIDE DEF more
    <3>7. Total(g, k + 1) = Total(f, k + 1) + more(k + 1)
      BY <3>2, <3>3, <3>4, <3>5, <3>6
    <3> QED
      BY <3>7
  <2> QED
    BY <2>1
<1>4. \A k \in Nat : k \in T
  <2> HIDE DEF T
  <2> QED
    BY <1>1, <1>2, Adds!NatInductive
<1>5. Total(g, n) = Total(f, n) + more(n)
  BY <1>4
<1> QED
  BY <1>5

(* ... and what adds the same has the same sum. *)
LEMMA TotalSame ==
  ASSUME NEW n \in Nat, NEW f, NEW g, \A k \in 1..n : g[k] = f[k]
  PROVE  Total(g, n) = Total(f, n)
<1>1. UpTo(g, n) = UpTo(f, n)
  BY DEF UpTo
<1> QED
  BY <1>1 DEF Total

(* Zeros add nothing. *)
LEMMA TotalZeros ==
  ASSUME NEW f, NEW n \in Nat, NEW m \in Nat, n <= m, \A k \in (n + 1)..m : f[k] = 0,
         \A k \in 1..n : f[k] \in Int
  PROVE  Total(f, m) = Total(f, n)
<1> DEFINE T == {d \in Nat : n + d <= m => Total(f, n + d) = Total(f, n)}
<1>0. Total(f, n) \in Int
  BY TotalTyped
<1>1. 0 \in T
  OBVIOUS
<1>2. ASSUME NEW d \in Nat, d \in T
      PROVE  d + 1 \in T
  <2>1. CASE n + (d + 1) <= m
    <3>1. n + d \in Nat /\ n + (d + 1) = (n + d) + 1 /\ (n + d) + 1 \in (n + 1)..m /\ n + d <= m
      BY <2>1
    <3>2. Total(f, n + (d + 1)) = Total(f, n + d) + f[(n + d) + 1]
      BY <3>1, TotalNext
    <3>3. f[(n + d) + 1] = 0 /\ Total(f, n + d) = Total(f, n)
      BY <1>2, <3>1
    <3>4. Total(f, n + (d + 1)) = Total(f, n)
      BY <1>0, <3>2, <3>3
    <3> QED
      BY <3>4
  <2> QED
    BY <2>1
<1>3. \A d \in Nat : d \in T
  <2> HIDE DEF T
  <2> QED
    BY <1>1, <1>2, Adds!NatInductive
<1>4. m - n \in Nat /\ n + (m - n) = m
  OBVIOUS
<1> QED
  BY <1>3, <1>4

(* How many elements of a sequence are in V. *)
Count(V, s) == Cardinality({i \in DOMAIN s : s[i] \in V})

(* A count is a number, of a finite set. *)
LEMMA CountTyped ==
  ASSUME NEW S, NEW s \in Seq(S), NEW V
  PROVE  /\ Count(V, s) \in Nat
         /\ IsFiniteSet({i \in DOMAIN s : s[i] \in V})
<1>1. Len(s) \in Nat /\ DOMAIN s = 1..Len(s)
  BY LenProperties
<1>2. IsFiniteSet(1..Len(s))
  BY <1>1, FS_Interval
<1>3. {i \in DOMAIN s : s[i] \in V} \subseteq 1..Len(s)
  BY <1>1
<1>4. IsFiniteSet({i \in DOMAIN s : s[i] \in V})
  BY <1>2, <1>3, FS_Subset
<1> QED
  BY <1>4, FS_CardinalityType DEF Count

(* One more element counts for itself. *)
LEMMA CountAppended ==
  ASSUME NEW S, NEW s \in Seq(S), NEW e \in S, NEW V
  PROVE  Count(V, Append(s, e)) = Count(V, s) + (IF e \in V THEN 1 ELSE 0)
<1>0. PICK n \in Nat : n = Len(s)
  BY LenProperties
<1>1. PICK t : t = Append(s, e)
  OBVIOUS
<1>2. DOMAIN s = 1..n /\ DOMAIN t = 1..(n + 1) /\ t[n + 1] = e /\ \A i \in 1..n : t[i] = s[i]
  BY <1>0, <1>1, Appended
<1>3. PICK A, B : A = {i \in DOMAIN s : s[i] \in V} /\ B = {i \in DOMAIN t : t[i] \in V}
  OBVIOUS
<1>4. n + 1 \notin A
  BY <1>2, <1>3
<1>5. B = IF e \in V THEN A \cup {n + 1} ELSE A
  BY <1>2, <1>3
<1>6. IsFiniteSet(A) /\ Cardinality(A) \in Nat /\ Count(V, s) = Cardinality(A)
  BY <1>3, CountTyped DEF Count
<1>8. Count(V, t) = Cardinality(B)
  BY <1>3 DEF Count
<1>7. Cardinality(A \cup {n + 1}) = Cardinality(A) + 1
  BY <1>4, <1>6, FS_AddElement
<1> QED
  BY <1>1, <1>5, <1>6, <1>7, <1>8

(* There is nothing in the empty sequence. *)
LEMMA CountEmpty == \A V : Count(V, <<>>) = 0
<1>1. \A V : {i \in DOMAIN <<>> : <<>>[i] \in V} = {}
  OBVIOUS
<1> QED
  BY <1>1, FS_EmptySet DEF Count

----------------------------------------------------------------------------
(* Counts of sequences in parts, sums of cells. *)

Joins == INSTANCE InductionLemmas WITH Combine <- Joined
Tallies == INSTANCE InductionLemmas WITH Combine <- TallyField
AddedCells == INSTANCE InductionLemmas WITH Combine <- AddCell

(* Counts of sequences of numbers ... *)
LEMMA CountConcat ==
  ASSUME NEW S, NEW s \in Seq(S), NEW t \in Seq(S), NEW V
  PROVE  Count(V, s \o t) = Count(V, s) + Count(V, t)
<1>1. PICK n \in Nat : n = Len(t) /\ DOMAIN t = 1..n
  BY LenProperties
<1> DEFINE T == {k \in Nat : k <= n => Count(V, s \o UpTo(t, k)) = Count(V, s) + Count(V, UpTo(t, k))}
<1>2. 0 \in T
  <2>1. UpTo(t, 0) = <<>>
    BY DEF UpTo
  <2>2. s \o <<>> = s
    BY ConcatEmptySeq
  <2>3. Count(V, s) \in Nat
    BY CountTyped
  <2>4. Count(V, s) = Count(V, s) + 0
    BY <2>3
  <2>5. Count(V, s \o UpTo(t, 0)) = Count(V, s) + Count(V, UpTo(t, 0))
    BY <2>1, <2>2, <2>4, CountEmpty
  <2> QED
    BY <2>5
<1>3. ASSUME NEW k \in Nat, k \in T
      PROVE  k + 1 \in T
  <2>1. CASE k + 1 <= n
    <3>1. k + 1 \in 1..n /\ k <= n
      BY <2>1
    <3>2. PICK u, e : u = UpTo(t, k) /\ e = t[k + 1]
      OBVIOUS
    <3>3. u \in Seq(S) /\ e \in S
      BY <1>1, <3>1, <3>2, ElementOfSeq DEF UpTo
    <3>4. UpTo(t, k + 1) = Append(u, e)
      BY <3>2, UpToNext
    <3>5. PICK su : su = s \o u
      OBVIOUS
    <3>6. su \in Seq(S) /\ s \o Append(u, e) = Append(su, e)
      BY <3>3, <3>5
    <3>7. Count(V, su) = Count(V, s) + Count(V, u)
      BY <1>3, <3>1, <3>2, <3>5
    <3>8. /\ Count(V, Append(su, e)) = Count(V, su) + (IF e \in V THEN 1 ELSE 0)
          /\ Count(V, Append(u, e)) = Count(V, u) + (IF e \in V THEN 1 ELSE 0)
      BY <3>3, <3>6, CountAppended
    <3>9. Count(V, s) \in Nat /\ Count(V, u) \in Nat
      BY <3>3, CountTyped
    <3>10. Count(V, s \o UpTo(t, k + 1)) = Count(V, s) + Count(V, UpTo(t, k + 1))
      <4>1. PICK d : d = IF e \in V THEN 1 ELSE 0
        OBVIOUS
      <4>2. d \in Int
        BY <4>1
      <4>3. /\ Count(V, s \o UpTo(t, k + 1)) = (Count(V, s) + Count(V, u)) + d
            /\ Count(V, UpTo(t, k + 1)) = Count(V, u) + d
        BY <3>4, <3>6, <3>7, <3>8, <4>1
      <4> QED
        BY <3>9, <4>2, <4>3
    <3> QED
      BY <3>10
  <2> QED
    BY <2>1
<1>4. \A k \in Nat : k \in T
  <2> HIDE DEF T
  <2> QED
    BY <1>2, <1>3, Adds!NatInductive
<1>5. UpTo(t, n) = t
  BY <1>1 DEF UpTo
<1>6. Count(V, s \o UpTo(t, n)) = Count(V, s) + Count(V, UpTo(t, n))
  BY <1>4
<1> QED
  BY <1>5, <1>6

(* ... that lose their first element. *)
LEMMA CountTail ==
  ASSUME NEW S, NEW s \in Seq(S), s # <<>>, NEW V
  PROVE  /\ Tail(s) \in Seq(S) /\ Head(s) \in S
         /\ Count(V, s) = Count(V, Tail(s)) + (IF Head(s) \in V THEN 1 ELSE 0)
<1>1. PICK e, t, one : e = Head(s) /\ t = Tail(s) /\ one = Append(<<>>, e)
  OBVIOUS
<1>2. t \in Seq(S) /\ e \in S /\ <<>> \in Seq(S)
  BY <1>1, HeadTailProperties, EmptySeq
<1>3. one \in Seq(S) /\ s = one \o t
  BY <1>1, <1>2
<1>4. Count(V, one) = Count(V, <<>>) + (IF e \in V THEN 1 ELSE 0)
  BY <1>1, <1>2, CountAppended
<1>5. Count(V, t) \in Nat
  BY <1>2, CountTyped
<1>6. Count(V, s) = Count(V, one) + Count(V, t)
  BY <1>2, <1>3, CountConcat
<1> QED
  BY <1>1, <1>2, <1>4, <1>5, <1>6, CountEmpty

(* All elements are in a set that holds them all. *)
LEMMA CountAll ==
  ASSUME NEW S, NEW s \in Seq(S)
  PROVE  Count(S, s) = Len(s)
<1>1. Len(s) \in Nat /\ DOMAIN s = 1..Len(s)
  BY LenProperties
<1>2. {i \in DOMAIN s : s[i] \in S} = 1..Len(s)
  BY <1>1, ElementOfSeq
<1> QED
  <2>1. PICK n \in Nat : n = Len(s)
    BY <1>1
  <2>2. Cardinality(1..n) = IF 1 > n THEN 0 ELSE n - 1 + 1
    BY FS_Interval
  <2>3. Cardinality(1..n) = n
    BY <2>2
  <2> QED
    BY <1>2, <2>1, <2>3 DEF Count

(* How many elements of each part are in V. *)
Counts(c, V, parts, n) == \A i \in 1..n : c[i] = Count(V, parts[i])

(* The count of what parts add up to is the sum of theirs. *)
LEMMA CountFlatten ==
  ASSUME NEW S, NEW parts \in Seq(Seq(S)), NEW n, n = Len(parts), NEW V,
         NEW c, Counts(c, V, parts, n)
  PROVE  /\ Count(V, FlattenSeq(parts)) = Total(c, n)
         /\ FlattenSeq(parts) \in Seq(S)
<1>1. n \in Nat /\ \A k \in 1..n : parts[k] \in Seq(S)
  BY LenProperties, ElementOfSeq
<1>2. PICK h : Sums(h, parts, n) /\ FlattenSeq(parts) = h[n]
  BY FlattenSums
<1>3. \A k \in 0..n : h[k] \in Seq(S)
  BY <1>1, <1>2, SumsAreSequences
<1> DEFINE T == {k \in Nat : k <= n => Count(V, h[k]) = Total(c, k)}
<1>4. 0 \in T
  BY <1>2, CountEmpty, TotalNext DEF Sums, Nothing
<1>5. ASSUME NEW k \in Nat, k \in T
      PROVE  k + 1 \in T
  <2>1. CASE k + 1 <= n
    <3>1. k + 1 \in 1..n /\ (k + 1) - 1 = k /\ k <= n /\ k \in 0..n
      BY <1>1, <2>1
    <3>2. h[k + 1] = h[k] \o parts[k + 1]
      BY <1>2, <3>1 DEF Sums
    <3>3. Count(V, h[k + 1]) = Count(V, h[k]) + Count(V, parts[k + 1])
      BY <1>1, <1>3, <3>1, <3>2, CountConcat
    <3>4. Count(V, h[k]) = Total(c, k) /\ c[k + 1] = Count(V, parts[k + 1])
      BY <1>5, <3>1 DEF Counts
    <3>5. Total(c, k + 1) = Total(c, k) + c[k + 1]
      BY TotalNext
    <3>6. Count(V, h[k + 1]) = Total(c, k + 1)
      BY <3>3, <3>4, <3>5
    <3> QED
      BY <3>6
  <2> QED
    BY <2>1
<1>6. \A k \in Nat : k \in T
  <2> HIDE DEF T
  <2> QED
    BY <1>4, <1>5, Adds!NatInductive
<1>7. Count(V, h[n]) = Total(c, n) /\ h[n] \in Seq(S)
  BY <1>1, <1>3, <1>6
<1> QED
  BY <1>2, <1>7

(* Parts of one element each add up to the sequence of those elements. *)
LEMMA SinglesFlattened ==
  ASSUME NEW n \in Nat, NEW v, NEW parts, parts = [k \in 1..n |-> <<v[k]>>]
  PROVE  FlattenSeq(parts) = UpTo(v, n)
<1>1. PICK S : S = {v[i] : i \in 1..n}
  OBVIOUS
<1>2. parts \in Seq(Seq(S)) /\ Len(parts) = n
  <2>1. \A i \in 1..n : <<v[i]>> \in Seq(S)
    BY <1>1
  <2> QED
    BY <2>1
<1>3. PICK h : Sums(h, parts, n) /\ FlattenSeq(parts) = h[n]
  BY <1>2, FlattenSums
<1>4. PICK g : g = [k \in 0..n |-> UpTo(v, k)]
  OBVIOUS
<1>5. Sums(g, parts, n)
  BY <1>4, SinglesAddUp
<1> DEFINE T == {k \in Nat : k <= n => h[k] = g[k]}
<1>6. 0 \in T
  BY <1>3, <1>5 DEF Sums
<1>7. ASSUME NEW k \in Nat, k \in T
      PROVE  k + 1 \in T
  <2>1. CASE k + 1 <= n
    <3>1. k + 1 \in 1..n /\ (k + 1) - 1 = k /\ k <= n
      BY <2>1
    <3>2. h[k + 1] = h[k] \o parts[k + 1] /\ g[k + 1] = g[k] \o parts[k + 1]
      BY <1>3, <1>5, <3>1 DEF Sums
    <3>3. h[k] = g[k]
      BY <1>7, <3>1
    <3>4. h[k + 1] = g[k + 1]
      BY <3>2, <3>3
    <3> QED
      BY <3>4
  <2> QED
    BY <2>1
<1>8. \A k \in Nat : k \in T
  <2> HIDE DEF T
  <2> QED
    BY <1>6, <1>7, Adds!NatInductive
<1>9. h[n] = g[n] /\ g[n] = UpTo(v, n)
  <2>1. h[n] = g[n]
    BY <1>8
  <2>2. n \in 0..n
    OBVIOUS
  <2>3. g[n] = UpTo(v, n)
    BY <1>4, <2>2
  <2> QED
    BY <2>1, <2>3
<1> QED
  BY <1>3, <1>9

(* What a cell adds to a sum. *)
Worth(v) == IF v = Null THEN 0 ELSE v

AddSteps(h, base, cells, n) ==
  h[0] = base /\ \A k \in 1..n : h[k] = AddCell(h[k - 1], cells[k])

(* A sum of cells is the last of such steps. *)
LEMMA CellsUnfold ==
  ASSUME NEW base, NEW n \in Nat, NEW cells, DOMAIN cells = 1..n
  PROVE  \E h : AddSteps(h, base, cells, n) /\ AddedCells!Fold(base, cells) = h[n]
<1>1. PICK h : /\ h[0] = base
               /\ \A k \in 1..n : h[k] = AddCell(h[k - 1], cells[k])
               /\ AddedCells!Fold(base, cells) = h[n]
  BY AddedCells!FoldUnfolds
<1> QED
  BY <1>1 DEF AddSteps

(* The sum of the cells. *)
LEMMA CellsAddUp ==
  ASSUME NEW n \in Nat, NEW cells, DOMAIN cells = 1..n, \A k \in 1..n : Worth(cells[k]) \in Int,
         NEW w, \A k \in 1..n : w[k] = Worth(cells[k])
  PROVE  FoldLeft(AddCell, 0, cells) = Total(w, n)
<1>1. FoldLeft(AddCell, 0, cells) = AddedCells!Fold(0, cells)
  BY DEF AddedCells!Fold, FoldLeft, MapThenFoldSet, AddedCells!Top, Max
<1>2. PICK h : AddSteps(h, 0, cells, n) /\ AddedCells!Fold(0, cells) = h[n]
  BY CellsUnfold
<1>3. \A k \in 0..n : Total(w, k) \in Int
  BY TotalTyped
<1> DEFINE T == {k \in Nat : k <= n => h[k] = Total(w, k)}
<1>4. 0 \in T
  BY <1>2, TotalNext DEF AddSteps
<1>5. ASSUME NEW k \in Nat, k \in T
      PROVE  k + 1 \in T
  <2>1. CASE k + 1 <= n
    <3>1. k + 1 \in 1..n /\ (k + 1) - 1 = k /\ k <= n /\ k \in 0..n
      BY <2>1
    <3>2. h[k + 1] = AddCell(h[k], cells[k + 1])
      BY <1>2, <3>1 DEF AddSteps
    <3>3. h[k] = Total(w, k) /\ Total(w, k) \in Int
      BY <1>3, <1>5, <3>1
    <3>4. w[k + 1] = Worth(cells[k + 1]) /\ Worth(cells[k + 1]) \in Int
      BY <3>1
    <3>5. Total(w, k + 1) = Total(w, k) + w[k + 1]
      BY TotalNext
    <3>6. h[k + 1] = Total(w, k + 1)
      BY <3>2, <3>3, <3>4, <3>5 DEF AddCell, Worth
    <3> QED
      BY <3>6
  <2> QED
    BY <2>1
<1>6. \A k \in Nat : k \in T
  <2> HIDE DEF T
  <2> QED
    BY <1>4, <1>5, Adds!NatInductive
<1>7. h[n] = Total(w, n)
  BY <1>6
<1> QED
  BY <1>1, <1>2, <1>7

----------------------------------------------------------------------------
(* What the rowers compute. *)

(* The results of a rower. *)
Results == [sum : Int, words : [Values[CharS] -> Int]]

(* A rower begins with a result. *)
LEMMA BlankTyped == Blank \in Results
BY DEF Blank, Results

(* One field is tallied. *)
LEMMA FieldTallied ==
  ASSUME NEW res \in Results, NEW field, field.type \in Types, field.val \in Optional(field.type)
  PROVE  TallyField(res, field) \in Results
<1>1. CASE field.val = Null
  BY <1>1 DEF TallyField
<1>2. CASE field.val # Null /\ field.type = CharF
  <2>1. field.val \in Int
    BY <1>2, FrameAssumption DEF Optional
  <2>2. PICK new : new = res.sum + field.val
    OBVIOUS
  <2>3. res.sum \in Int
    BY DEF Results
  <2>4. new \in Int
    BY <2>1, <2>2, <2>3
  <2>5. TallyField(res, field) = [res EXCEPT !.sum = new]
    BY <1>2, <2>2 DEF TallyField
  <2> QED
    BY <2>4, <2>5 DEF Results
<1>3. CASE field.val # Null /\ field.type = CharS
  <2>1. field.val \in Values[CharS] /\ CharS # CharF
    BY <1>3 DEF Optional, CharS, CharF
  <2>2. PICK words, v : words = res.words /\ v = field.val
    OBVIOUS
  <2>3. words \in [Values[CharS] -> Int]
    BY <2>2 DEF Results
  <2>4. [words EXCEPT ![v] = @ + 1] \in [Values[CharS] -> Int]
    BY <2>1, <2>2, <2>3
  <2>5. TallyField(res, field) = [res EXCEPT !.words = [words EXCEPT ![v] = @ + 1]]
    BY <1>3, <2>1, <2>2, <2>3 DEF TallyField, Results
  <2> QED
    BY <2>4, <2>5 DEF Results
<1>4. CASE field.type # CharF /\ field.type # CharS
  BY <1>4 DEF TallyField
<1> QED
  BY <1>1, <1>2, <1>3, <1>4

TallySteps(h, res, fields, n) ==
  h[0] = res /\ \A k \in 1..n : h[k] = TallyField(h[k - 1], fields[k])

(* Tallying a list of fields is the last of such steps. *)
LEMMA TalliesUnfold ==
  ASSUME NEW res, NEW n \in Nat, NEW fields, DOMAIN fields = 1..n
  PROVE  \E h : TallySteps(h, res, fields, n) /\ Tallies!Fold(res, fields) = h[n]
<1>1. PICK h : /\ h[0] = res
               /\ \A k \in 1..n : h[k] = TallyField(h[k - 1], fields[k])
               /\ Tallies!Fold(res, fields) = h[n]
  BY Tallies!FoldUnfolds
<1> QED
  BY <1>1 DEF TallySteps

FieldsOf(row, types, n) == [c \in 1..n |-> [type |-> types[c], val |-> row[c]]]

(* What accept makes of a row is the last of such steps. *)
LEMMA TalliedSteps ==
  ASSUME NEW row, NEW types, NEW n \in Nat, DOMAIN types = 1..n, NEW res,
         NEW fields, fields = FieldsOf(row, types, n)
  PROVE  \E h : TallySteps(h, res, fields, n) /\ Tallied(row, types, res) = h[n]
<1>1. Tallied(row, types, res) = Tallies!Fold(res, fields)
  BY DEF Tallied, FieldsOf, Tallies!Fold, FoldLeft, MapThenFoldSet, Tallies!Top, Max
<1>2. DOMAIN fields = 1..n
  BY DEF FieldsOf
<1>3. PICK h : TallySteps(h, res, fields, n) /\ Tallies!Fold(res, fields) = h[n]
  BY <1>2, TalliesUnfold
<1> QED
  BY <1>1, <1>3

(* A row is tallied. *)
LEMMA RowTallied ==
  ASSUME NEW types \in Seq(Types), NEW n, n = Len(types), NEW row, RowOf(types, n, row),
         NEW res \in Results
  PROVE  Tallied(row, types, res) \in Results
<1>1. n \in Nat /\ DOMAIN types = 1..n
  BY LenProperties
<1>2. PICK fields : fields = FieldsOf(row, types, n)
  OBVIOUS
<1>3. PICK h : TallySteps(h, res, fields, n) /\ Tallied(row, types, res) = h[n]
  BY <1>1, <1>2, TalliedSteps
<1> DEFINE T == {k \in Nat : k <= n => h[k] \in Results}
<1>4. 0 \in T
  BY <1>3 DEF TallySteps
<1>5. ASSUME NEW k \in Nat, k \in T
      PROVE  k + 1 \in T
  <2>1. CASE k + 1 <= n
    <3>1. k + 1 \in 1..n /\ (k + 1) - 1 = k /\ k <= n
      BY <1>1, <2>1
    <3>2. h[k + 1] = TallyField(h[k], fields[k + 1]) /\ h[k] \in Results
      BY <1>3, <1>5, <3>1 DEF TallySteps
    <3>3. fields[k + 1].type \in Types /\ fields[k + 1].val \in Optional(fields[k + 1].type)
      BY <1>1, <1>2, <3>1, ElementOfSeq DEF RowOf, FieldsOf
    <3>4. h[k + 1] \in Results
      BY <3>2, <3>3, FieldTallied
    <3> QED
      BY <3>4
  <2> QED
    BY <2>1
<1>6. \A k \in Nat : k \in T
  <2> HIDE DEF T
  <2> QED
    BY <1>4, <1>5, Tallies!NatInductive
<1> QED
  BY <1>1, <1>3, <1>6

(* What a SumRower and a CounterRower are after: the sum, the count of w.   *)
Amount(r, w, res) == IF r = "sum" THEN res.sum ELSE res.words[w]
Due(r, w, v) == IF r = "sum" THEN Worth(v) ELSE IF v = w THEN 1 ELSE 0
Wanted(r, w) == r = "sum" \/ (r = "count" /\ w \in Values[CharS])
TypeFor(r) == IF r = "sum" THEN CharF ELSE CharS

(* What is due for a cell is a number. *)
LEMMA DueTyped ==
  ASSUME NEW r, NEW w, Wanted(r, w), NEW v \in Optional(TypeFor(r))
  PROVE  Due(r, w, v) \in Int
BY FrameAssumption DEF Wanted, TypeFor, Due, Worth, Optional

(* Each accept adds what is due for its row. *)
LEMMA AmountTallied ==
  ASSUME NEW r, NEW w, Wanted(r, w), NEW res \in Results, NEW row, NEW v \in Optional(TypeFor(r)),
         v = row[1]
  PROVE  Amount(r, w, Tallied(row, <<TypeFor(r)>>, res)) = Amount(r, w, res) + Due(r, w, v)
<1>1. PICK type, types, field : /\ type = TypeFor(r) /\ types = <<type>>
                                /\ field = [type |-> type, val |-> v]
  OBVIOUS
<1>2. PICK n \in Nat : n = 1
  OBVIOUS
<1>3. DOMAIN types = 1..n /\ types[1] = type
  BY <1>1, <1>2
<1>4. PICK fields : fields = FieldsOf(row, types, n)
  OBVIOUS
<1>5. PICK h : TallySteps(h, res, fields, n) /\ Tallied(row, types, res) = h[n]
  BY <1>3, <1>4, TalliedSteps
<1>6. fields[1] = field
  BY <1>1, <1>2, <1>3, <1>4 DEF FieldsOf
<1>7. Tallied(row, types, res) = TallyField(res, field)
  <2>1. 1 \in 1..n /\ 1 - 1 = 0
    BY <1>2
  <2>2. h[1] = TallyField(h[0], fields[1]) /\ h[0] = res
    BY <1>5, <2>1 DEF TallySteps
  <2> QED
    BY <1>2, <1>5, <1>6, <2>2
<1>8. CASE r = "sum"
  <2>1. field.type = CharF /\ field.val = v /\ res.sum \in Int
    BY <1>1, <1>8 DEF TypeFor, Results
  <2>2. TallyField(res, field).sum = res.sum + Worth(v)
    BY <2>1 DEF TallyField, Worth, Results
  <2> QED
    BY <1>1, <1>7, <1>8, <2>2 DEF Amount, Due
<1>9. CASE r # "sum"
  <2>1. field.type = CharS /\ CharS # CharF /\ field.val = v /\ w \in Values[CharS]
    BY <1>1, <1>9 DEF TypeFor, Wanted, CharS, CharF
  <2>2. PICK words : words = res.words /\ words \in [Values[CharS] -> Int]
    BY DEF Results
  <2>3. v \in Values[CharS] \/ v = Null
    BY <1>9 DEF Optional, TypeFor
  <2>4. w # Null
    BY <2>1, FrameAssumption DEF Types
  <2>5. TallyField(res, field).words = IF v = Null THEN words ELSE [words EXCEPT ![v] = @ + 1]
    BY <2>1, <2>2 DEF TallyField, Results
  <2>6. TallyField(res, field).words[w] = words[w] + (IF v = w THEN 1 ELSE 0)
    BY <2>1, <2>2, <2>3, <2>4, <2>5
  <2> QED
    BY <1>1, <1>7, <1>9, <2>2, <2>6 DEF Amount, Due
<1> QED
  BY <1>8, <1>9

(* What a rower has is a number. *)
LEMMA AmountTyped ==
  ASSUME NEW r, NEW w, Wanted(r, w), NEW res \in Results
  PROVE  Amount(r, w, res) \in Int
BY DEF Wanted, Amount, Results

(* Two results are joined. *)
LEMMA AmountJoined ==
  ASSUME NEW a \in Results, NEW b \in Results
  PROVE  /\ Joined(a, b) \in Results
         /\ \A r, w : Wanted(r, w) => Amount(r, w, Joined(a, b)) = Amount(r, w, a) + Amount(r, w, b)
<1>1. PICK aw, bw : aw = a.words /\ bw = b.words
  OBVIOUS
<1>2. /\ aw \in [Values[CharS] -> Int] /\ bw \in [Values[CharS] -> Int]
      /\ a.sum \in Int /\ b.sum \in Int
  BY <1>1 DEF Results
<1>3. Joined(a, b) = [sum |-> a.sum + b.sum, words |-> [w \in Values[CharS] |-> aw[w] + bw[w]]]
  BY <1>1, <1>2 DEF Joined
<1>4. [w \in Values[CharS] |-> aw[w] + bw[w]] \in [Values[CharS] -> Int]
  BY <1>2
<1>5. Joined(a, b) \in Results
  BY <1>2, <1>3, <1>4 DEF Results
<1>6. ASSUME NEW r, NEW w, Wanted(r, w)
      PROVE  Amount(r, w, Joined(a, b)) = Amount(r, w, a) + Amount(r, w, b)
  BY <1>1, <1>3, <1>6 DEF Amount, Wanted
<1> QED
  BY <1>5, <1>6

JoinSteps(h, res, others, n) ==
  h[0] = res /\ \A k \in 1..n : h[k] = Joined(h[k - 1], others[k])

(* Joining a list of results is the last of such steps. *)
LEMMA JoinsUnfold ==
  ASSUME NEW res, NEW n \in Nat, NEW others, DOMAIN others = 1..n
  PROVE  \E h : JoinSteps(h, res, others, n) /\ Joins!Fold(res, others) = h[n]
<1>1. PICK h : /\ h[0] = res
               /\ \A k \in 1..n : h[k] = Joined(h[k - 1], others[k])
               /\ Joins!Fold(res, others) = h[n]
  BY Joins!FoldUnfolds
<1> QED
  BY <1>1 DEF JoinSteps

(* The results of n clones are joined. *)
LEMMA AllJoined ==
  ASSUME NEW res \in Results, NEW n \in Nat, NEW others, DOMAIN others = 1..n,
         \A k \in 1..n : others[k] \in Results
  PROVE  /\ FoldLeft(Joined, res, others) \in Results
         /\ \A r, w, a : Wanted(r, w) /\ (\A k \in 1..n : a[k] = Amount(r, w, others[k]))
              => Amount(r, w, FoldLeft(Joined, res, others)) = Amount(r, w, res) + Total(a, n)
<1>1. FoldLeft(Joined, res, others) = Joins!Fold(res, others)
  BY DEF Joins!Fold, FoldLeft, MapThenFoldSet, Joins!Top, Max
<1>2. PICK h : JoinSteps(h, res, others, n) /\ Joins!Fold(res, others) = h[n]
  BY JoinsUnfold
<1> DEFINE T == {k \in Nat : k <= n => h[k] \in Results}
<1>3. 0 \in T
  BY <1>2 DEF JoinSteps
<1>4. ASSUME NEW k \in Nat, k \in T
      PROVE  k + 1 \in T
  <2>1. CASE k + 1 <= n
    <3>1. k + 1 \in 1..n /\ (k + 1) - 1 = k /\ k <= n
      BY <2>1
    <3>2. h[k + 1] = Joined(h[k], others[k + 1]) /\ h[k] \in Results /\ others[k + 1] \in Results
      BY <1>2, <1>4, <3>1 DEF JoinSteps
    <3>3. h[k + 1] \in Results
      BY <3>2, AmountJoined
    <3> QED
      BY <3>3
  <2> QED
    BY <2>1
<1>5. \A k \in Nat : k \in T
  <2> HIDE DEF T
  <2> QED
    BY <1>3, <1>4, Joins!NatInductive
<1>6. \A k \in 0..n : h[k] \in Results
  BY <1>5
<1>7. ASSUME NEW r, NEW w, NEW a, Wanted(r, w), \A k \in 1..n : a[k] = Amount(r, w, others[k])
      PROVE  Amount(r, w, h[n]) = Amount(r, w, res) + Total(a, n)
  <2> HIDE DEF T
  <2>1. \A k \in 0..n : Amount(r, w, h[k]) \in Int
    BY <1>6, <1>7, AmountTyped
  <2>2. \A k \in 1..n : a[k] \in Int
    BY <1>7, AmountTyped
  <2>3. \A k \in 0..n : Total(a, k) \in Int
    BY <2>2, TotalTyped
  <2>4. PICK base : base = Amount(r, w, res)
    OBVIOUS
  <2>5. base \in Int
    BY <1>7, <2>4, AmountTyped
  <2> DEFINE U == {k \in Nat : k <= n => Amount(r, w, h[k]) = base + Total(a, k)}
  <2>6. 0 \in U
    <3>1. h[0] = res /\ Total(a, 0) = 0
      BY <1>2, TotalNext DEF JoinSteps
    <3> QED
      BY <2>4, <2>5, <3>1
  <2>7. ASSUME NEW k \in Nat, k \in U
        PROVE  k + 1 \in U
    <3>1. CASE k + 1 <= n
      <4>1. k + 1 \in 1..n /\ (k + 1) - 1 = k /\ k <= n /\ k \in 0..n
        BY <3>1
      <4>2. h[k + 1] = Joined(h[k], others[k + 1])
        BY <1>2, <4>1 DEF JoinSteps
      <4>3. Amount(r, w, h[k + 1]) = Amount(r, w, h[k]) + Amount(r, w, others[k + 1])
        BY <1>6, <1>7, <4>1, <4>2, AmountJoined
      <4>4. Amount(r, w, h[k]) = base + Total(a, k) /\ a[k + 1] = Amount(r, w, others[k + 1])
        BY <1>7, <2>7, <4>1
      <4>5. Total(a, k + 1) = Total(a, k) + a[k + 1] /\ Total(a, k) \in Int /\ a[k + 1] \in Int
        BY <2>2, <2>3, <4>1, TotalNext
      <4>6. Amount(r, w, h[k + 1]) = base + Total(a, k + 1)
        BY <2>5, <4>3, <4>4, <4>5
      <4> QED
        BY <4>6
    <3> QED
      BY <3>1
  <2>8. \A k \in Nat : k \in U
    <3> HIDE DEF U
    <3> QED
      BY <2>6, <2>7, Joins!NatInductive
  <2> QED
    BY <2>4, <2>8
<1>8. h[n] \in Results
  BY <1>6
<1> QED
  BY <1>1, <1>2, <1>7, <1>8

----------------------------------------------------------------------------
(* The rows of a thread. *)

(* What pmap chooses: at least one thread, of one row at least, and rows   *)
(* for all of them, or a single thread for all rows.                       *)
Dealt(rows, n, step) ==
  /\ rows \in Nat /\ n \in 1..MaxThreads /\ step \in Nat \ {0}
  /\ n = 1 \/ n * step <= rows

First(n, step, t) == IF t < n THEN t * step + 1 ELSE 1

Final(rows, n, step, t) == CASE t < n - 1 -> (t + 1) * step
                             [] t = n - 1 -> rows
                             [] OTHER     -> 0

(* The first and the last row of a thread.                                  *)
LEMMA RangesSpelled ==
  ASSUME NEW rows, NEW n, NEW step, NEW t \in Thread
  PROVE  /\ Ranges(rows, n, step)[t].first = First(n, step, t)
         /\ Ranges(rows, n, step)[t].end = Final(rows, n, step, t)
  BY DEF Ranges, First, Final

(* Threads are numbers below MAX_THREADS.                                   *)
LEMMA ThreadsInNat == \A t \in Thread : t \in Nat /\ t < MaxThreads
  BY MapAssumption DEF Thread

(* A range begins behind 0 and ends within the rows; it may be empty.      *)
LEMMA RangeInRows ==
  ASSUME NEW rows, NEW n, NEW step, Dealt(rows, n, step), NEW t \in Thread
  PROVE  /\ First(n, step, t) \in Nat \ {0} /\ Final(rows, n, step, t) \in Nat
         /\ Final(rows, n, step, t) <= rows
         /\ First(n, step, t) <= Final(rows, n, step, t) + 1
<1>1. rows \in Nat /\ n \in Nat \ {0} /\ step \in Nat \ {0} /\ t \in Nat
  BY MapAssumption, ThreadsInNat DEF Dealt
<1>2. CASE t >= n
  BY <1>1, <1>2 DEF First, Final
<1>3. CASE t < n - 1
  <2>1. t * step \in Nat /\ (t + 1) * step \in Nat /\ (t + 1) * step = t * step + step
    BY <1>1
  <2>2. (t + 1) * step <= n * step /\ n * step <= rows /\ n * step \in Nat
    BY <1>1, <1>3, Products DEF Dealt
  <2>3. First(n, step, t) = t * step + 1 /\ Final(rows, n, step, t) = (t + 1) * step
    BY <1>1, <1>3 DEF First, Final
  <2> QED
    BY <1>1, <2>1, <2>2, <2>3
<1>4. CASE t = n - 1
  <2>1. t * step \in Nat /\ t * step <= rows
    <3>1. CASE n = 1
      BY <1>1, <1>4, <3>1
    <3>2. CASE n # 1
      <4>1. n * step <= rows /\ t <= n
        BY <1>1, <1>4, <3>2 DEF Dealt
      <4> QED
        BY <1>1, <4>1, Products
    <3> QED
      BY <3>1, <3>2
  <2>2. First(n, step, t) = t * step + 1 /\ Final(rows, n, step, t) = rows
    BY <1>1, <1>4 DEF First, Final
  <2> QED
    BY <1>1, <2>1, <2>2
<1> QED
  BY <1>1, <1>2, <1>3, <1>4

(* No row is in two ranges.                                                *)
LEMMA RangesDisjoint ==
  ASSUME NEW rows, NEW n, NEW step, Dealt(rows, n, step), NEW t \in Thread, NEW u \in Thread,
         NEW i \in Nat,
         First(n, step, t) <= i, i <= Final(rows, n, step, t),
         First(n, step, u) <= i, i <= Final(rows, n, step, u)
  PROVE  t = u
<1>1. rows \in Nat /\ n \in Nat \ {0} /\ step \in Nat \ {0} /\ t \in Nat /\ u \in Nat
  BY MapAssumption, ThreadsInNat DEF Dealt
<1>2. ASSUME NEW x \in Nat, NEW y \in Nat, x < y,
             First(n, step, x) <= i, i <= Final(rows, n, step, x),
             First(n, step, y) <= i, i <= Final(rows, n, step, y)
      PROVE  FALSE
  <2>1. y < n
    <3> SUFFICES ASSUME y >= n
                 PROVE  FALSE
      BY <1>1
    <3>1. Final(rows, n, step, y) = 0 /\ First(n, step, y) = 1
      BY <1>1 DEF Final, First
    <3> QED
      BY <1>2, <3>1
  <2>2. Final(rows, n, step, x) = (x + 1) * step /\ First(n, step, y) = y * step + 1
    BY <1>1, <1>2, <2>1 DEF First, Final
  <2>3. (x + 1) * step <= y * step /\ (x + 1) * step \in Nat /\ y * step \in Nat
    <3>1. x + 1 \in Nat /\ x + 1 <= y
      BY <1>2
    <3> QED
      BY <1>1, <3>1, Products
  <2> QED
    BY <1>2, <2>2, <2>3
<1> QED
  BY <1>1, <1>2

(* Every row is in a range.                                                *)
LEMMA RangesCover ==
  ASSUME NEW rows, NEW n, NEW step, Dealt(rows, n, step), NEW i \in 1..rows
  PROVE  \E t \in Thread : First(n, step, t) <= i /\ i <= Final(rows, n, step, t)
<1>1. rows \in Nat /\ n \in Nat \ {0} /\ n <= MaxThreads /\ step \in Nat \ {0} /\ i \in Nat /\ i >= 1
  BY MapAssumption DEF Dealt
<1>2. PICK q : q = (i - 1) \div step
  OBVIOUS
<1>3. q \in Nat /\ q * step <= i - 1 /\ i - 1 < (q + 1) * step
  BY <1>1, <1>2, Division
<1>4. q * step \in Nat /\ (q + 1) * step \in Nat
  BY <1>1, <1>3
<1>5. CASE q < n - 1
  <2>1. q \in Thread
    BY <1>1, <1>3, <1>5, MapAssumption DEF Thread
  <2>2. First(n, step, q) = q * step + 1 /\ Final(rows, n, step, q) = (q + 1) * step
    BY <1>1, <1>3, <1>5 DEF First, Final
  <2> QED
    BY <1>1, <1>3, <1>4, <2>1, <2>2
<1>6. CASE ~(q < n - 1)
  <2>1. n - 1 \in Nat /\ n - 1 <= q /\ n - 1 \in Thread
    BY <1>1, <1>3, <1>6, MapAssumption DEF Thread
  <2>2. PICK m \in Nat : m = n - 1
    BY <2>1
  <2>3. m * step <= q * step /\ m * step \in Nat
    BY <1>1, <1>3, <2>1, <2>2, Products
  <2>4. First(n, step, m) = m * step + 1 /\ Final(rows, n, step, m) = rows
    BY <1>1, <2>2 DEF First, Final
  <2> QED
    BY <1>1, <1>3, <1>4, <2>1, <2>2, <2>3, <2>4
<1> QED
  BY <1>5, <1>6

(* The threads and rows per thread of pmap.                                *)
LEMMA PmapDeals ==
  ASSUME NEW rows \in Nat, NEW wanted, NEW n, NEW step,
         wanted = rows \div ThreadRows,
         n = IF wanted <= 1 THEN 1 ELSE IF wanted > MaxThreads THEN MaxThreads ELSE wanted,
         step = IF wanted > MaxThreads THEN rows \div n ELSE ThreadRows
  PROVE  Dealt(rows, n, step)
<1>1. MaxThreads \in Nat \ {0, 1} /\ ThreadRows \in Nat \ {0}
  BY MapAssumption
<1>2. wanted \in Nat /\ wanted * ThreadRows <= rows
  BY <1>1, Division
<1>3. CASE wanted <= 1
  BY <1>1, <1>2, <1>3 DEF Dealt
<1>4. CASE wanted > 1 /\ wanted <= MaxThreads
  BY <1>1, <1>2, <1>4 DEF Dealt
<1>5. CASE wanted > MaxThreads
  <2>1. n = MaxThreads /\ step = rows \div n /\ n \in Nat \ {0}
    BY <1>1, <1>2, <1>5
  <2>2. step \in Nat /\ step * n <= rows /\ rows < (step + 1) * n
    BY <2>1, Division
  <2>3. rows >= wanted
    <3>1. wanted * 1 <= wanted * ThreadRows
      BY <1>1, <1>2
    <3> QED
      BY <1>1, <1>2, <3>1
  <2>4. step # 0
    BY <1>2, <1>5, <2>1, <2>2, <2>3
  <2>5. step * n = n * step
    BY <2>1, <2>2
  <2> QED
    BY <1>1, <2>1, <2>2, <2>4, <2>5 DEF Dealt
<1> QED
  BY <1>1, <1>2, <1>3, <1>4, <1>5

(* Row i is behind the thread that has it in its range.                    *)
Passed(n, step, x, i) == \E t \in Thread : First(n, step, t) <= i /\ i < x[t]

(* The threads are in their ranges, and what they have passed has been     *)
(* visited once.                                                           *)
Mapping(rows, n, step) ==
  /\ Dealt(rows, n, step)
  /\ end = [t \in Thread |-> Final(rows, n, step, t)]
  /\ next \in [Thread -> Nat]
  /\ \A t \in Thread : First(n, step, t) <= next[t] /\ next[t] <= Final(rows, n, step, t) + 1
  /\ visits = [i \in 1..rows |-> IF Passed(n, step, next, i) THEN 1 ELSE 0]
  /\ phase \in {"merged", "done"} => \A t \in Thread : next[t] > end[t]

(* Row k is visited for the first time. *)
Marked(rows, k) ==
  visits \in [1..rows -> {0, 1}] /\ visits[k] = 0 /\ visits' = [visits EXCEPT ![k] = 1]

(* A thread takes its next row, which nobody has visited.                  *)
LEMMA AcceptVisits ==
  ASSUME NEW rows, NEW n, NEW step, Mapping(rows, n, step), NEW u \in Thread, Accept(u)
  PROVE  /\ Mapping(rows, n, step)'
         /\ u < n /\ next[u] \in 1..rows /\ Marked(rows, next[u])
<1>1. /\ phase = "mapping" /\ phase' = phase /\ next[u] <= end[u] /\ end' = end
      /\ next' = [next EXCEPT ![u] = @ + 1]
      /\ visits' = [visits EXCEPT ![next[u]] = @ + 1]
  BY DEF Accept, frameVars
<1>2. /\ Dealt(rows, n, step) /\ next \in [Thread -> Nat]
      /\ end = [t \in Thread |-> Final(rows, n, step, t)]
      /\ visits = [i \in 1..rows |-> IF Passed(n, step, next, i) THEN 1 ELSE 0]
  BY DEF Mapping
<1>3. \A t \in Thread : First(n, step, t) <= next[t] /\ next[t] <= Final(rows, n, step, t) + 1
  BY DEF Mapping
<1>4. \A t \in Thread : /\ First(n, step, t) \in Nat \ {0} /\ Final(rows, n, step, t) \in Nat
                        /\ Final(rows, n, step, t) <= rows
  BY <1>2, RangeInRows
<1>5. rows \in Nat
  BY <1>2 DEF Dealt
<1>6. PICK k \in Nat : k = next[u]
  BY <1>2
<1>7. /\ k <= Final(rows, n, step, u) /\ First(n, step, u) <= k /\ k \in 1..rows
  <2>1. k <= Final(rows, n, step, u) /\ First(n, step, u) <= k
    BY <1>1, <1>2, <1>3, <1>6
  <2> QED
    BY <1>4, <1>5, <2>1
<1>8. /\ next' \in [Thread -> Nat] /\ next'[u] = k + 1
      /\ \A t \in Thread : t # u => next'[t] = next[t]
  BY <1>1, <1>2, <1>6
<1>9. ~Passed(n, step, next, k)
  <2> SUFFICES ASSUME NEW t \in Thread, First(n, step, t) <= k, k < next[t]
               PROVE  FALSE
    BY DEF Passed
  <2>1. next[t] \in Nat /\ Final(rows, n, step, t) \in Nat
    BY <1>2, <1>4
  <2>2. k <= Final(rows, n, step, t)
    BY <1>3, <2>1
  <2>3. t = u
    BY <1>2, <1>7, <2>2, RangesDisjoint
  <2> QED
    BY <1>6, <2>3
<1>10. ASSUME NEW i \in 1..rows
       PROVE  Passed(n, step, next', i) <=> Passed(n, step, next, i) \/ i = k
  <2>0. i \in Nat
    BY <1>5
  <2>1. ASSUME NEW t \in Thread, First(n, step, t) <= i, i < next'[t]
        PROVE  Passed(n, step, next, i) \/ i = k
    <3>1. CASE t = u
      BY <1>6, <1>8, <2>0, <2>1, <3>1 DEF Passed
    <3>2. CASE t # u
      BY <1>8, <2>1, <3>2 DEF Passed
    <3> QED
      BY <3>1, <3>2
  <2>2. ASSUME NEW t \in Thread, First(n, step, t) <= i, i < next[t]
        PROVE  i < next'[t]
    <3>1. next[t] \in Nat /\ (next'[t] = next[t] \/ next'[t] = next[t] + 1)
      BY <1>2, <1>6, <1>8
    <3> QED
      BY <2>0, <2>2, <3>1
  <2>3. i = k => First(n, step, u) <= i /\ i < next'[u]
    BY <1>7, <1>8
  <2> QED
    BY <2>1, <2>2, <2>3 DEF Passed
<1>11. visits' = [i \in 1..rows |-> IF Passed(n, step, next', i) THEN 1 ELSE 0]
  <2>1. visits[k] = 0
    BY <1>2, <1>7, <1>9
  <2>2. visits' = [visits EXCEPT ![k] = 1]
    BY <1>1, <1>6, <2>1
  <2> HIDE DEF Passed
  <2>3. visits' = [i \in 1..rows |-> IF i = k THEN 1 ELSE visits[i]]
    BY <1>2, <2>2
  <2>4. \A i \in 1..rows : (IF i = k THEN 1 ELSE visits[i]) = IF Passed(n, step, next', i) THEN 1 ELSE 0
    BY <1>2, <1>10
  <2> QED
    BY <2>3, <2>4
<1>12. \A t \in Thread : First(n, step, t) <= next'[t] /\ next'[t] <= Final(rows, n, step, t) + 1
  <2>1. ASSUME NEW t \in Thread
        PROVE  First(n, step, t) <= next'[t] /\ next'[t] <= Final(rows, n, step, t) + 1
    <3>1. CASE t = u
      BY <1>4, <1>7, <1>8, <3>1
    <3>2. CASE t # u
      BY <1>3, <1>8, <3>2
    <3> QED
      BY <3>1, <3>2
  <2> QED
    BY <2>1
<1>13. u < n
  <2>1. n \in Nat /\ u \in Nat /\ (u >= n => Final(rows, n, step, u) = 0)
    BY <1>2, ThreadsInNat, MapAssumption DEF Dealt, Final
  <2>2. Final(rows, n, step, u) # 0
    BY <1>4, <1>5, <1>7
  <2> QED
    BY <2>1, <2>2
<1>14. Marked(rows, k)
  <2>1. visits \in [1..rows -> {0, 1}] /\ visits[k] = 0
    BY <1>2, <1>7, <1>9
  <2>2. visits' = [visits EXCEPT ![k] = 1]
    BY <1>1, <1>6, <2>1
  <2> QED
    BY <2>1, <2>2 DEF Marked
<1>15. Mapping(rows, n, step)'
  BY <1>1, <1>2, <1>8, <1>11, <1>12 DEF Mapping
<1> QED
  BY <1>6, <1>7, <1>13, <1>14, <1>15

----------------------------------------------------------------------------
(* The invariant of a map. *)

(* The type of what the sharing rowers generate. *)
GenType(r) == IF r = "names" THEN CharS ELSE CharI

(* No map has begun. *)
Idle ==
  /\ phase \in Before
  /\ rower = "none" /\ clones = {} /\ visits = <<>> /\ holder = {}
  /\ next = [t \in Thread |-> 1] /\ end = [t \in Thread |-> 0]
  /\ todo = [t \in Thread |-> <<>>] /\ result = [t \in Thread |-> Blank]
  /\ seen = [t \in Thread |-> NoGen]

(* The rower, its clones, and the results and values of the n threads. *)
Team(n) ==
  /\ rower \in Rowers /\ Suits(rower, copy)
  /\ rower = "print" => n = 1 \/ phase = "aborted"
  /\ phase = "aborted" => rower = "print"
  /\ clones = IF phase = "mapping" /\ rower # "print" THEN 1..(n - 1) ELSE {}
  /\ \A t \in Thread : t >= n => result[t] = Blank
  /\ phase # "mapping" => \A t \in Thread : todo[t] = <<>>

Typed ==
  /\ result \in [Thread -> Results]
  /\ todo \in [Thread -> Seq(Optional(GenType(rower)))]
  /\ DOMAIN seen = Thread /\ seen = [t \in Thread |-> seen[t]]
  /\ gen = [set |-> gen.set, df |-> gen.df]
  /\ WellFormed(gen.df) /\ Sized(gen.df) /\ gen.df.types = <<GenType(rower)>>

(* Who holds the mutex has found what is there, and has a value to add. *)
Mutex ==
  holder # {} => \E u \in Thread : holder = {u} /\ todo[u] # <<>> /\ seen[u] = gen

Earned(r, w, res) == [t \in 1..MaxThreads |-> Amount(r, w, res[t - 1])]
Owed(r, w, f, vis) == [i \in 1..NRows(f) |-> IF vis[i] = 1 THEN Due(r, w, Row(f, i)[1]) ELSE 0]

Waiting(V, x) == [t \in 1..MaxThreads |-> Count(V, x[t - 1])]
Granted(V, r, s, f, vis) ==
  [i \in 1..NRows(f) |-> IF vis[i] = 1 THEN Count(V, Additions(r, s, Row(f, i))) ELSE 0]

Accounted ==
  \A w : Wanted(rower, w) =>
    IF phase = "mapping"
    THEN Total(Earned(rower, w, result), MaxThreads) = Total(Owed(rower, w, copy, visits), NRows(copy))
    ELSE phase \in {"merged", "done"} =>
           Amount(rower, w, result[0]) = Total(Owed(rower, w, copy, visits), NRows(copy))

Filtered ==
  rower \in {"projects", "uuids", "names"} =>
    \A V : Count(V, Cells(gen.df.columns[1])) + Total(Waiting(V, todo), MaxThreads)
             = Total(Granted(V, rower, lookup, copy, visits), NRows(copy))

InHand(x) == \E t \in Thread : \E i \in DOMAIN todo[t] : todo[t][i] = x

Collected ==
  rower = "set" =>
    \A x : x \in gen.set \/ InHand(x)
           <=> \E i \in 1..NRows(copy) : visits[i] = 1 /\ x = Row(copy, i)[1]

Dealing == \E n, step : Mapping(NRows(copy), n, step) /\ Team(n)

Mapped ==
  /\ phase \in Begun
  /\ Dealing /\ Typed /\ Mutex /\ Accounted /\ Filtered /\ Collected

(* The cells of a row are of the types of the schema. *)
LEMMA RowTyped ==
  ASSUME NEW f, WellFormed(f), Sized(f), NEW n, n = Len(f.types), NEW i \in 1..NRows(f),
         NEW row, row = Row(f, i)
  PROVE  RowOf(f.types, n, row)
<1>1. n \in Nat /\ DOMAIN f.types = 1..n /\ DOMAIN f.columns = 1..n
  BY FrameIndices
<1>2. row = [c \in 1..n |-> Get(f.columns[c], i)]
  BY <1>1 DEF Row
<1>3. row = UpTo(row, n)
  BY <1>2 DEF UpTo
<1>4. ASSUME NEW c \in 1..n
      PROVE  row[c] \in Optional(f.types[c])
  <2>1. PICK type, col : type = f.types[c] /\ col = f.columns[c]
    OBVIOUS
  <2>2. type \in Types /\ ColumnOf(type, col) /\ i \in 1..Size(col)
    BY <1>1, <2>1, ElementOfSeq DEF WellFormed, Sized
  <2>3. Get(col, i) \in Optional(type)
    BY <2>2, CellsTyped
  <2> QED
    BY <1>2, <2>1, <2>3
<1> QED
  BY <1>3, <1>4 DEF RowOf

(* The schemas that the rowers are applied to. *)
LEMMA SuitTypes ==
  ASSUME NEW r \in Rowers, NEW f, Suits(r, f)
  PROVE  /\ r = "sum" => f.types = <<CharF>>
         /\ r = "count" => f.types = <<CharS>>
         /\ r = "set" => f.types = <<CharI>>
         /\ r = "names" => f.types = <<CharI, CharS>>
         /\ r \in {"projects", "uuids"} => f.types = <<CharI, CharI, CharI>>
BY MapAssumption DEF Suits

(* The first cell of a row that a SumRower or a CounterRower gets. *)
LEMMA FirstCell ==
  ASSUME NEW r \in Rowers, NEW f, Suits(r, f), WellFormed(f), Sized(f), NEW i \in 1..NRows(f),
         r \in {"sum", "count", "set"}
  PROVE  LET type == IF r = "set" THEN CharI ELSE TypeFor(r)
         IN  /\ f.types = <<type>> /\ Row(f, i) = <<Row(f, i)[1]>>
             /\ Row(f, i)[1] \in Optional(type)
<1>1. PICK type, n, row : /\ type = (IF r = "set" THEN CharI ELSE TypeFor(r)) /\ n = Len(f.types)
                          /\ row = Row(f, i)
  OBVIOUS
<1>2. f.types = <<type>>
  BY <1>1, SuitTypes DEF TypeFor
<1>3. n = 1 /\ f.types[1] = type
  BY <1>1, <1>2
<1>4. RowOf(f.types, n, row)
  BY <1>1, RowTyped
<1>5. row = <<row[1]>> /\ row[1] \in Optional(type)
  <2>1. row = UpTo(row, 1) /\ \A c \in 1..1 : row[c] \in Optional(f.types[c])
    BY <1>3, <1>4 DEF RowOf
  <2>2. UpTo(row, 1) = <<row[1]>>
    BY DEF UpTo
  <2> QED
    BY <1>3, <2>1, <2>2
<1> QED
  BY <1>1, <1>2, <1>5

(* What the sharing rowers add has the type of what they generate. *)
LEMMA AdditionsTyped ==
  ASSUME NEW r \in Rowers, NEW f, Suits(r, f), WellFormed(f), Sized(f), NEW i \in 1..NRows(f), NEW s
  PROVE  Additions(r, s, Row(f, i)) \in Seq(Optional(GenType(r)))
<1>1. PICK n, row, S : n = Len(f.types) /\ row = Row(f, i) /\ S = Optional(GenType(r))
  OBVIOUS
<1>2. RowOf(f.types, n, row)
  BY <1>1, RowTyped
<1>3. \A c \in 1..n : row[c] \in Optional(f.types[c])
  BY <1>2 DEF RowOf
<1>4. <<>> \in Seq(S) /\ (\A a \in S : <<a>> \in Seq(S)) /\ \A a \in S, b \in S : <<a, b>> \in Seq(S)
  OBVIOUS
<1>5. CASE r = "set"
  <2>2. row = <<row[1]>> /\ row[1] \in Optional(CharI)
    BY <1>1, <1>5, FirstCell
  <2>3. row[1] \in S
    BY <1>1, <1>5, <2>2 DEF GenType
  <2>4. <<row[1]>> \in Seq(S)
    BY <1>4, <2>3
  <2>5. Additions(r, s, row) = row
    BY <1>5 DEF Additions
  <2> QED
    BY <1>1, <2>2, <2>4, <2>5
<1>6. CASE r \in {"projects", "uuids"}
  <2>1. n = 3 /\ f.types[1] = CharI /\ f.types[2] = CharI /\ f.types[3] = CharI
    <3>1. f.types = <<CharI, CharI, CharI>>
      BY <1>6, SuitTypes
    <3> QED
      BY <1>1, <3>1
  <2>2. row[1] \in S /\ row[2] \in S /\ row[3] \in S
    BY <1>1, <1>3, <1>6, <2>1 DEF GenType
  <2>3. Additions(r, s, row) \in {<<>>, <<row[1]>>, <<row[2], row[3]>>}
    BY <1>6 DEF Additions
  <2>4. <<row[1]>> \in Seq(S) /\ <<row[2], row[3]>> \in Seq(S)
    BY <1>4, <2>2
  <2> QED
    BY <1>1, <1>4, <2>3, <2>4
<1>7. CASE r = "names"
  <2>1. n = 2 /\ f.types[2] = CharS
    <3>1. f.types = <<CharI, CharS>>
      BY <1>7, SuitTypes
    <3> QED
      BY <1>1, <3>1
  <2>2. row[2] \in S
    BY <1>1, <1>3, <1>7, <2>1 DEF GenType
  <2>3. Additions(r, s, row) \in {<<>>, <<row[2]>>}
    BY <1>7 DEF Additions
  <2>4. <<row[2]>> \in Seq(S)
    BY <1>4, <2>2
  <2> QED
    BY <1>1, <1>4, <2>3, <2>4
<1>8. CASE r \notin {"set", "projects", "uuids", "names"}
  BY <1>1, <1>4, <1>8 DEF Additions
<1> QED
  BY <1>5, <1>6, <1>7, <1>8

(* Only zeros are added up. *)
LEMMA NothingAdded ==
  ASSUME NEW f, NEW m \in Nat, \A k \in 1..m : f[k] = 0
  PROVE  Total(f, m) = 0
<1>1. PICK z \in Nat : z = 0
  OBVIOUS
<1>2. Total(f, m) = Total(f, z)
  BY <1>1, TotalZeros
<1> QED
  BY <1>1, <1>2, TotalNext

----------------------------------------------------------------------------
(* The start of a map. *)

(* What is known of the frame that is mapped. *)
LEMMA CopyKnown ==
  ASSUME Built, phase \in {"read"} \cup Begun
  PROVE  copy = frame /\ WellFormed(copy) /\ Sized(copy) /\ NRows(copy) \in 0..MaxRows
<1>1. copy = frame
  BY DEF Built, CopyBuilt, Begun
<1> QED
  BY <1>1, FrameAssumption DEF Built, Sized

(* What is generated is empty at first. *)
LEMMA GenFresh ==
  ASSUME NEW r, NEW g, g = NewGen(r)
  PROVE  /\ g = [set |-> {}, df |-> g.df] /\ g.df.types = <<GenType(r)>>
         /\ WellFormed(g.df) /\ Sized(g.df) /\ Cells(g.df.columns[1]) = <<>>
<1>1. PICK type, types : type = GenType(r) /\ types = <<type>>
  OBVIOUS
<1>2. type \in Types /\ types \in Seq(Types) /\ types[1] = type /\ 1 \in DOMAIN types
  BY <1>1 DEF GenType, Types
<1>3. g = [set |-> {}, df |-> Frame(types)]
  BY <1>1 DEF NewGen, NoGen, GenType
<1>4. WellFormed(Frame(types)) /\ Sized(Frame(types))
  BY <1>2, FreshFrame
<1>5. Frame(types).types = types /\ Frame(types).columns[1] = EmptyColumn(type)
  BY <1>2 DEF Frame
<1>6. Cells(EmptyColumn(type)) = <<>>
  BY <1>2, EmptyTyped
<1> QED
  BY <1>1, <1>3, <1>4, <1>5, <1>6

(* Each thread begins with the first row of its range. *)
LEMMA StartDeals ==
  ASSUME Built, Idle, NEW r \in Rowers, NEW s, Start(r, s)
  PROVE  Dealing'
<1>1. phase = "read" /\ phase' \in {"mapping", "aborted"} /\ copy' = copy /\ Suits(r, copy) /\ rower' = r
      /\ result' = result /\ todo' = todo
  BY DEF Start
<1>2. PICK rows, wanted, n, step, ranges :
        /\ rows = NRows(copy)
        /\ wanted = rows \div ThreadRows
        /\ n = IF wanted <= 1 THEN 1 ELSE IF wanted > MaxThreads THEN MaxThreads ELSE wanted
        /\ step = IF wanted > MaxThreads THEN rows \div n ELSE ThreadRows
        /\ ranges = Ranges(rows, n, step)
  OBVIOUS
<1>3. rows \in Nat
  BY <1>1, <1>2, CopyKnown
<1>4. /\ next' = [t \in Thread |-> ranges[t].first]
      /\ end' = [t \in Thread |-> ranges[t].end]
      /\ visits' = [i \in 1..rows |-> 0]
      /\ clones' = IF r = "print" THEN {} ELSE 1..(n - 1)
      /\ phase' = IF r = "print" /\ n > 1 THEN "aborted" ELSE "mapping"
  BY <1>2, Zenon DEF Start
<1>5. Dealt(rows, n, step)
  BY <1>2, <1>3, PmapDeals
<1>6. \A t \in Thread : ranges[t].first = First(n, step, t) /\ ranges[t].end = Final(rows, n, step, t)
  BY <1>2, RangesSpelled
<1>7. \A t \in Thread : /\ First(n, step, t) \in Nat \ {0} /\ Final(rows, n, step, t) \in Nat
                        /\ First(n, step, t) <= Final(rows, n, step, t) + 1
  BY <1>5, RangeInRows
<1>8. \A t \in Thread : next'[t] = First(n, step, t)
  BY <1>4, <1>6
<1>9. end' = [t \in Thread |-> Final(rows, n, step, t)]
  BY <1>4, <1>6
<1>10. next' \in [Thread -> Nat]
  BY <1>4, <1>6, <1>7
<1>11. visits' = [i \in 1..rows |-> IF Passed(n, step, next', i) THEN 1 ELSE 0]
  <2>1. ASSUME NEW i \in 1..rows
        PROVE  ~Passed(n, step, next', i)
    <3> SUFFICES ASSUME NEW t \in Thread, First(n, step, t) <= i, i < next'[t]
                 PROVE  FALSE
      BY DEF Passed
    <3>1. First(n, step, t) \in Nat /\ i \in Int
      BY <1>3, <1>7
    <3> QED
      BY <1>8, <3>1
  <2> QED
    BY <1>4, <2>1
<1>12. \A t \in Thread : First(n, step, t) <= next'[t] /\ next'[t] <= Final(rows, n, step, t) + 1
  BY <1>7, <1>8
<1>13. Mapping(rows, n, step)'
  BY <1>1, <1>5, <1>9, <1>10, <1>11, <1>12 DEF Mapping
<1>14. n \in Nat \ {0}
  BY <1>5, MapAssumption DEF Dealt
<1>15. Team(n)'
  <2>1. r = "print" => n = 1 \/ phase' = "aborted"
    BY <1>4, <1>14
  <2>2. (phase' = "aborted" => r = "print") /\ clones' = IF phase' = "mapping" /\ r # "print" THEN 1..(n - 1) ELSE {}
    BY <1>4
  <2>3. \A t \in Thread : result'[t] = Blank /\ todo'[t] = <<>>
    BY <1>1 DEF Idle
  <2> QED
    BY <1>1, <2>1, <2>2, <2>3 DEF Team
<1> QED
  BY <1>1, <1>2, <1>13, <1>15 DEF Dealing

(* pmap begins with nothing done. *)
LEMMA StartMaps ==
  ASSUME Built, Idle, NEW r \in Rowers, NEW s, Start(r, s)
  PROVE  Mapped'
<1>1. /\ phase = "read" /\ phase' \in {"mapping", "aborted"} /\ copy' = copy /\ Suits(r, copy) /\ rower' = r
      /\ result' = result /\ todo' = todo /\ holder' = holder /\ seen' = seen /\ gen' = NewGen(r)
  BY DEF Start
<1>2. PICK rows : rows = NRows(copy) /\ rows \in Nat
  BY <1>1, CopyKnown
<1>3. visits' = [i \in 1..rows |-> 0]
  BY <1>2 DEF Start
<1>4. /\ result' = [t \in Thread |-> Blank] /\ todo' = [t \in Thread |-> <<>>] /\ holder' = {}
      /\ seen' = [t \in Thread |-> NoGen]
  BY <1>1 DEF Idle
<1>5. PICK g : g = gen'
  OBVIOUS
<1>6. /\ g = [set |-> {}, df |-> g.df] /\ g.df.types = <<GenType(r)>>
      /\ WellFormed(g.df) /\ Sized(g.df) /\ Cells(g.df.columns[1]) = <<>>
  BY <1>1, <1>5, GenFresh
<1>7. Typed'
  <2>1. result' \in [Thread -> Results]
    BY <1>4, BlankTyped
  <2>2. todo' \in [Thread -> Seq(Optional(GenType(r)))]
    <3>1. <<>> \in Seq(Optional(GenType(r)))
      BY EmptySeq
    <3> QED
      BY <1>4, <3>1
  <2>3. gen' = [set |-> gen'.set, df |-> gen'.df]
    BY <1>5, <1>6
  <2> QED
    BY <1>1, <1>4, <1>5, <1>6, <2>1, <2>2, <2>3 DEF Typed
<1>8. \A t \in 1..MaxThreads : t - 1 \in Thread
  BY MapAssumption DEF Thread
<1>9. MaxThreads \in Nat
  BY MapAssumption
<1>10. Accounted'
  <2> SUFFICES ASSUME NEW w, Wanted(r, w)
               PROVE  phase' = "mapping" => Total(Earned(r, w, result'), MaxThreads) = Total(Owed(r, w, copy, visits'), rows)
    BY <1>1, <1>2 DEF Accounted
  <2>1. \A t \in 1..MaxThreads : Earned(r, w, result')[t] = 0
    BY <1>4, <1>8 DEF Earned, Amount, Blank, Wanted
  <2>2. \A i \in 1..rows : Owed(r, w, copy, visits')[i] = 0
    BY <1>2, <1>3 DEF Owed
  <2>3. Total(Earned(r, w, result'), MaxThreads) = 0
    BY <1>9, <2>1, NothingAdded
  <2>4. Total(Owed(r, w, copy, visits'), rows) = 0
    BY <1>2, <2>2, NothingAdded
  <2> QED
    BY <2>3, <2>4
<1>11. Filtered'
  <2> SUFFICES ASSUME NEW V
               PROVE  Count(V, Cells(g.df.columns[1])) + Total(Waiting(V, todo'), MaxThreads)
                        = Total(Granted(V, r, lookup', copy, visits'), rows)
    BY <1>1, <1>2, <1>5 DEF Filtered
  <2>1. \A t \in 1..MaxThreads : Waiting(V, todo')[t] = 0
    BY <1>4, <1>8, CountEmpty DEF Waiting
  <2>2. \A i \in 1..rows : Granted(V, r, lookup', copy, visits')[i] = 0
    BY <1>2, <1>3 DEF Granted
  <2>3. Total(Waiting(V, todo'), MaxThreads) = 0
    BY <1>9, <2>1, NothingAdded
  <2>4. Total(Granted(V, r, lookup', copy, visits'), rows) = 0
    BY <1>2, <2>2, NothingAdded
  <2>5. Count(V, Cells(g.df.columns[1])) = 0
    BY <1>6, CountEmpty
  <2> QED
    BY <2>3, <2>4, <2>5
<1>12. Collected'
  <2>1. gen'.set = {}
    BY <1>5, <1>6
  <2>2. ~(\E t \in Thread : \E i \in DOMAIN todo'[t] : TRUE)
    BY <1>4
  <2>3. ~\E i \in 1..NRows(copy') : visits'[i] = 1
    BY <1>1, <1>2, <1>3
  <2> QED
    BY <2>1, <2>2, <2>3 DEF Collected, InHand
<1> QED
  BY <1>1, <1>4, <1>7, <1>10, <1>11, <1>12, StartDeals DEF Mapped, Begun, Mutex

----------------------------------------------------------------------------
(* A row is accepted. *)

(* The column of what is generated. *)
LEMMA GenCounted ==
  ASSUME Typed
  PROVE  /\ GenType(rower) \in Types /\ ColumnOf(GenType(rower), gen.df.columns[1])
         /\ Cells(gen.df.columns[1]) \in Seq(Optional(GenType(rower)))
         /\ Len(Cells(gen.df.columns[1])) = Size(gen.df.columns[1])
         /\ \A V : Count(V, Cells(gen.df.columns[1])) \in Int
<1>1. PICK f, type, col : f = gen.df /\ type = GenType(rower) /\ col = gen.df.columns[1]
  OBVIOUS
<1>2. type \in Types
  BY <1>1 DEF GenType, Types
<1>3. ColumnOf(type, col)
  <2>1. WellFormed(f) /\ f.types = <<type>>
    BY <1>1 DEF Typed
  <2>2. Len(f.types) = 1 /\ f.types[1] = type
    BY <2>1
  <2> QED
    BY <1>1, <2>1, <2>2 DEF WellFormed
<1>4. Size(col) \in Nat
  BY <1>3, LenProperties DEF ColumnOf, NullableArray, Size
<1>5. Cells(col) \in Seq(Optional(type)) /\ Len(Cells(col)) = Size(col)
  BY <1>2, <1>3, <1>4, CellsTyped DEF Cells
<1>6. \A V : Count(V, Cells(col)) \in Nat
  BY <1>5, CountTyped
<1> QED
  BY <1>1, <1>2, <1>3, <1>5, <1>6

(* A row that is visited for the first time. *)
LEMMA RowTaken ==
  ASSUME Built, Mapped, NEW u \in Thread, Accept(u),
         NEW rows, rows = NRows(copy), NEW k, k = next[u], NEW row, row = Row(copy, k)
  PROVE  /\ rows \in Nat /\ k \in 1..rows /\ Marked(rows, k)
         /\ Dealing'
         /\ phase = "mapping" /\ phase' = "mapping" /\ copy' = copy /\ rower' = rower /\ lookup' = lookup
         /\ gen' = gen /\ holder' = holder /\ seen' = seen /\ todo[u] = <<>>
         /\ result' = [result EXCEPT ![u] = Tallied(row, copy.types, @)]
         /\ todo' = [todo EXCEPT ![u] = Additions(rower, lookup, row)]
         /\ rower \in Rowers /\ Suits(rower, copy) /\ WellFormed(copy) /\ Sized(copy)
<1>1. /\ phase = "mapping" /\ phase' = "mapping" /\ copy' = copy /\ rower' = rower /\ lookup' = lookup
      /\ gen' = gen /\ holder' = holder /\ seen' = seen /\ todo[u] = <<>> /\ clones' = clones
  BY DEF Accept, frameVars
<1>2. /\ result' = [result EXCEPT ![u] = Tallied(row, copy.types, @)]
      /\ todo' = [todo EXCEPT ![u] = Additions(rower, lookup, row)]
  BY DEF Accept
<1>3. WellFormed(copy) /\ Sized(copy) /\ rows \in Nat
  BY <1>1, CopyKnown DEF Begun
<1>4. PICK n, step : Mapping(rows, n, step) /\ Team(n)
  BY DEF Mapped, Dealing
<1>5. Mapping(rows, n, step)' /\ u < n /\ k \in 1..rows /\ Marked(rows, k)
  BY <1>4, AcceptVisits
<1>6. Team(n)'
  <2>1. ASSUME NEW t \in Thread, t >= n
        PROVE  result'[t] = Blank
    <3>1. t # u /\ result[t] = Blank
      <4>1. n \in Nat /\ u \in Nat
        BY <1>4, ThreadsInNat, MapAssumption DEF Mapping, Dealt
      <4> QED
        BY <1>4, <1>5, <2>1, <4>1 DEF Team
    <3>2. result'[t] = result[t]
      BY <1>2, <3>1 DEF Mapped, Typed
    <3> QED
      BY <3>1, <3>2
  <2> QED
    BY <1>1, <1>4, <2>1 DEF Team
<1>7. Dealing'
  <2>1. NRows(copy') = rows
    BY <1>1
  <2> QED
    BY <1>5, <1>6, <2>1 DEF Dealing
<1> QED
  BY <1>1, <1>2, <1>3, <1>4, <1>5, <1>7 DEF Team

(* The types and the mutex. *)
LEMMA AcceptTyped ==
  ASSUME Built, Mapped, NEW u \in Thread, Accept(u)
  PROVE  Typed' /\ Mutex'
<1>1. PICK rows, k, row : rows = NRows(copy) /\ k = next[u] /\ row = Row(copy, k)
  OBVIOUS
<1>2. /\ k \in 1..rows /\ copy' = copy /\ rower' = rower
      /\ gen' = gen /\ holder' = holder /\ seen' = seen /\ todo[u] = <<>>
      /\ result' = [result EXCEPT ![u] = Tallied(row, copy.types, @)]
      /\ todo' = [todo EXCEPT ![u] = Additions(rower, lookup, row)]
      /\ rower \in Rowers /\ Suits(rower, copy) /\ WellFormed(copy) /\ Sized(copy)
  BY <1>1, RowTaken
<1>3. PICK types, n, res, more : /\ types = copy.types /\ n = Len(types) /\ res = result[u]
                                 /\ more = Additions(rower, lookup, row)
  OBVIOUS
<1>4. Typed
  BY DEF Mapped
<1>5. res \in Results /\ types \in Seq(Types)
  BY <1>2, <1>3, <1>4 DEF Typed, WellFormed
<1>6. RowOf(types, n, row)
  BY <1>1, <1>2, <1>3, RowTyped
<1>7. Tallied(row, types, res) \in Results
  BY <1>3, <1>5, <1>6, RowTallied
<1>8. more \in Seq(Optional(GenType(rower)))
  BY <1>1, <1>2, <1>3, AdditionsTyped
<1>9. result' \in [Thread -> Results]
  BY <1>2, <1>3, <1>4, <1>7 DEF Typed
<1>10. todo' \in [Thread -> Seq(Optional(GenType(rower)))]
  BY <1>2, <1>3, <1>4, <1>8 DEF Typed
<1>11. Typed'
  BY <1>2, <1>4, <1>9, <1>10 DEF Typed
<1>12. Mutex'
  <2> SUFFICES ASSUME holder' # {}
               PROVE  \E h \in Thread : holder' = {h} /\ todo'[h] # <<>> /\ seen'[h] = gen'
    BY DEF Mutex
  <2>1. PICK h \in Thread : holder = {h} /\ todo[h] # <<>> /\ seen[h] = gen
    BY <1>2 DEF Mapped, Mutex
  <2>2. h # u
    BY <1>2, <2>1
  <2>3. todo'[h] = todo[h]
    BY <1>2, <1>4, <2>2 DEF Typed
  <2> QED
    BY <1>2, <2>1, <2>3
<1> QED
  BY <1>11, <1>12

(* What a thread has earned goes up by what is due for its row. *)
LEMMA AcceptAccounts ==
  ASSUME Built, Mapped, NEW u \in Thread, Accept(u)
  PROVE  Accounted'
<1>1. PICK rows, k, row : rows = NRows(copy) /\ k = next[u] /\ row = Row(copy, k)
  OBVIOUS
<1>2. /\ rows \in Nat /\ k \in 1..rows /\ Marked(rows, k)
      /\ phase = "mapping" /\ phase' = "mapping" /\ copy' = copy /\ rower' = rower
      /\ result' = [result EXCEPT ![u] = Tallied(row, copy.types, @)]
      /\ rower \in Rowers /\ Suits(rower, copy) /\ WellFormed(copy) /\ Sized(copy)
  BY <1>1, RowTaken
<1> SUFFICES ASSUME NEW w, Wanted(rower, w)
             PROVE  Total(Earned(rower, w, result'), MaxThreads) = Total(Owed(rower, w, copy, visits'), rows)
  BY <1>1, <1>2 DEF Accounted
<1>3. Total(Earned(rower, w, result), MaxThreads) = Total(Owed(rower, w, copy, visits), rows)
  BY <1>1, <1>2 DEF Mapped, Accounted
<1>4. PICK v, d, type : v = row[1] /\ d = Due(rower, w, v) /\ type = TypeFor(rower)
  OBVIOUS
<1>5. \A i \in 1..rows : /\ copy.types = <<type>>
                         /\ Row(copy, i)[1] \in Optional(type)
  <2>1. rower \in {"sum", "count"}
    BY DEF Wanted
  <2> QED
    BY <1>1, <1>2, <1>4, <2>1, FirstCell
<1>6. copy.types = <<type>> /\ v \in Optional(type)
  BY <1>1, <1>2, <1>4, <1>5
<1>7. d \in Int /\ \A i \in 1..rows : Due(rower, w, Row(copy, i)[1]) \in Int
  BY <1>4, <1>5, <1>6, DueTyped
<1>8. result \in [Thread -> Results]
  BY DEF Mapped, Typed
<1>9. Amount(rower, w, Tallied(row, copy.types, result[u])) = Amount(rower, w, result[u]) + d
  <2>1. PICK res : res = result[u] /\ res \in Results
    BY <1>8
  <2>2. Amount(rower, w, Tallied(row, <<TypeFor(rower)>>, res)) = Amount(rower, w, res) + Due(rower, w, v)
    BY <1>4, <1>6, <2>1, AmountTallied
  <2> QED
    BY <1>4, <1>6, <2>1, <2>2
<1>10. PICK f, g, p, q : /\ f = Earned(rower, w, result) /\ g = Earned(rower, w, result')
                         /\ p = Owed(rower, w, copy, visits) /\ q = Owed(rower, w, copy, visits')
  OBVIOUS
<1>11. MaxThreads \in Nat /\ u + 1 \in 1..MaxThreads /\ u \in Nat /\ \A t \in 1..MaxThreads : t - 1 \in Thread
  BY MapAssumption DEF Thread
<1>12. \A t \in 1..MaxThreads : f[t] \in Int /\ g[t] = f[t] + (IF t = u + 1 THEN d ELSE 0)
  <2> SUFFICES ASSUME NEW t \in 1..MaxThreads
               PROVE  f[t] \in Int /\ g[t] = f[t] + (IF t = u + 1 THEN d ELSE 0)
    OBVIOUS
  <2>1. PICK x : x = t - 1 /\ x \in Thread
    BY <1>11
  <2>2. f[t] = Amount(rower, w, result[x]) /\ g[t] = Amount(rower, w, result'[x])
    BY <1>10, <2>1 DEF Earned
  <2>3. f[t] \in Int
    BY <1>8, <2>1, <2>2, AmountTyped
  <2>4. CASE x = u
    <3>1. g[t] = f[t] + d /\ t = u + 1
      BY <1>2, <1>8, <1>9, <1>11, <2>1, <2>2, <2>4
    <3> QED
      BY <2>3, <3>1
  <2>5. CASE x # u
    <3>1. result'[x] = result[x] /\ t # u + 1
      BY <1>2, <1>8, <1>11, <2>1, <2>5
    <3> QED
      BY <2>2, <2>3, <3>1
  <2> QED
    BY <2>4, <2>5
<1>13. \A i \in 1..rows : p[i] \in Int /\ q[i] = p[i] + (IF i = k THEN d ELSE 0)
  <2> SUFFICES ASSUME NEW i \in 1..rows
               PROVE  p[i] \in Int /\ q[i] = p[i] + (IF i = k THEN d ELSE 0)
    OBVIOUS
  <2>1. PICK e : e = Due(rower, w, Row(copy, i)[1]) /\ e \in Int
    BY <1>7
  <2>2. p[i] = (IF visits[i] = 1 THEN e ELSE 0) /\ q[i] = (IF visits'[i] = 1 THEN e ELSE 0)
    BY <1>1, <1>10, <2>1 DEF Owed
  <2>3. i = k => e = d
    BY <1>1, <1>4, <2>1
  <2>4. visits'[i] = (IF i = k THEN 1 ELSE visits[i]) /\ (i = k => visits[i] = 0)
    BY <1>2 DEF Marked
  <2> QED
    BY <1>7, <2>1, <2>2, <2>3, <2>4
<1>14. Total(g, MaxThreads) = Total(f, MaxThreads) + d
  <2>1. PICK j \in 1..MaxThreads : j = u + 1
    BY <1>11
  <2>2. Moved(f, g, MaxThreads, j, d)
    BY <1>12, <2>1 DEF Moved
  <2> QED
    BY <1>7, <1>11, <2>2, TotalChanged
<1>15. Total(q, rows) = Total(p, rows) + d
  <2>1. Moved(p, q, rows, k, d)
    BY <1>13 DEF Moved
  <2> QED
    BY <1>2, <1>7, <2>1, TotalChanged
<1> QED
  BY <1>3, <1>10, <1>14, <1>15

(* The values in hand are those of the rows that were taken. *)
LEMMA AcceptFilters ==
  ASSUME Built, Mapped, NEW u \in Thread, Accept(u)
  PROVE  Filtered'
<1>1. PICK rows, k, row : rows = NRows(copy) /\ k = next[u] /\ row = Row(copy, k)
  OBVIOUS
<1>2. /\ rows \in Nat /\ k \in 1..rows /\ Marked(rows, k)
      /\ copy' = copy /\ rower' = rower /\ lookup' = lookup /\ gen' = gen /\ todo[u] = <<>>
      /\ todo' = [todo EXCEPT ![u] = Additions(rower, lookup, row)]
      /\ rower \in Rowers /\ Suits(rower, copy) /\ WellFormed(copy) /\ Sized(copy)
  BY <1>1, RowTaken
<1> SUFFICES ASSUME rower \in {"projects", "uuids", "names"}, NEW V
             PROVE  Count(V, Cells(gen.df.columns[1])) + Total(Waiting(V, todo'), MaxThreads)
                      = Total(Granted(V, rower, lookup, copy, visits'), rows)
  BY <1>1, <1>2 DEF Filtered
<1>3. Count(V, Cells(gen.df.columns[1])) + Total(Waiting(V, todo), MaxThreads)
        = Total(Granted(V, rower, lookup, copy, visits), rows)
  BY <1>1 DEF Mapped, Filtered
<1>4. PICK S : S = Optional(GenType(rower))
  OBVIOUS
<1>5. todo \in [Thread -> Seq(S)]
  BY <1>4 DEF Mapped, Typed
<1>6. \A i \in 1..rows : Additions(rower, lookup, Row(copy, i)) \in Seq(S)
  BY <1>1, <1>2, <1>4, AdditionsTyped
<1>7. \A i \in 1..rows : Count(V, Additions(rower, lookup, Row(copy, i))) \in Nat
  BY <1>6, CountTyped
<1>8. PICK d : d = Count(V, Additions(rower, lookup, row))
  OBVIOUS
<1>9. d \in Int
  BY <1>1, <1>2, <1>7, <1>8
<1>10. PICK f, g, p, q : /\ f = Waiting(V, todo) /\ g = Waiting(V, todo')
                         /\ p = Granted(V, rower, lookup, copy, visits)
                         /\ q = Granted(V, rower, lookup, copy, visits')
  OBVIOUS
<1>11. MaxThreads \in Nat /\ u + 1 \in 1..MaxThreads /\ u \in Nat /\ \A t \in 1..MaxThreads : t - 1 \in Thread
  BY MapAssumption DEF Thread
<1>12. \A t \in 1..MaxThreads : f[t] \in Int /\ g[t] = f[t] + (IF t = u + 1 THEN d ELSE 0)
  <2> SUFFICES ASSUME NEW t \in 1..MaxThreads
               PROVE  f[t] \in Int /\ g[t] = f[t] + (IF t = u + 1 THEN d ELSE 0)
    OBVIOUS
  <2>1. PICK x : x = t - 1 /\ x \in Thread
    BY <1>11
  <2>2. f[t] = Count(V, todo[x]) /\ g[t] = Count(V, todo'[x])
    BY <1>10, <2>1 DEF Waiting
  <2>3. f[t] \in Int
    <3>1. Count(V, todo[x]) \in Nat
      BY <1>5, <2>1, CountTyped
    <3> QED
      BY <2>2, <3>1
  <2>4. CASE x = u
    <3>1. f[t] = 0 /\ g[t] = d /\ t = u + 1
      BY <1>2, <1>5, <1>8, <1>11, <2>1, <2>2, <2>4, CountEmpty
    <3> QED
      BY <1>9, <3>1
  <2>5. CASE x # u
    <3>1. todo'[x] = todo[x] /\ t # u + 1
      BY <1>2, <1>5, <1>11, <2>1, <2>5
    <3> QED
      BY <2>2, <2>3, <3>1
  <2> QED
    BY <2>4, <2>5
<1>13. \A i \in 1..rows : p[i] \in Int /\ q[i] = p[i] + (IF i = k THEN d ELSE 0)
  <2> SUFFICES ASSUME NEW i \in 1..rows
               PROVE  p[i] \in Int /\ q[i] = p[i] + (IF i = k THEN d ELSE 0)
    OBVIOUS
  <2>1. PICK e : e = Count(V, Additions(rower, lookup, Row(copy, i))) /\ e \in Nat
    BY <1>7
  <2>2. p[i] = (IF visits[i] = 1 THEN e ELSE 0) /\ q[i] = (IF visits'[i] = 1 THEN e ELSE 0)
    BY <1>1, <1>10, <2>1 DEF Granted
  <2>3. i = k => e = d
    BY <1>1, <1>8, <2>1
  <2>4. visits'[i] = (IF i = k THEN 1 ELSE visits[i]) /\ (i = k => visits[i] = 0)
    BY <1>2 DEF Marked
  <2> QED
    BY <1>9, <2>1, <2>2, <2>3, <2>4
<1>14. Total(g, MaxThreads) = Total(f, MaxThreads) + d
  <2>1. PICK j \in 1..MaxThreads : j = u + 1
    BY <1>11
  <2>2. Moved(f, g, MaxThreads, j, d)
    BY <1>12, <2>1 DEF Moved
  <2> QED
    BY <1>9, <1>11, <2>2, TotalChanged
<1>15. Total(q, rows) = Total(p, rows) + d
  <2>1. Moved(p, q, rows, k, d)
    BY <1>13 DEF Moved
  <2> QED
    BY <1>2, <1>9, <2>1, TotalChanged
<1>16. Total(f, MaxThreads) \in Int
  BY <1>11, <1>12, TotalTyped
<1>17. Count(V, Cells(gen.df.columns[1])) \in Int
  BY GenCounted DEF Mapped
<1> QED
  BY <1>3, <1>9, <1>10, <1>14, <1>15, <1>16, <1>17

(* Of an IntSetGenerator an accept keeps the ints in hand. *)
LEMMA AcceptCollects ==
  ASSUME Built, Mapped, NEW u \in Thread, Accept(u)
  PROVE  Collected'
<1>1. PICK rows, k, row : rows = NRows(copy) /\ k = next[u] /\ row = Row(copy, k)
  OBVIOUS
<1>2. /\ rows \in Nat /\ k \in 1..rows /\ Marked(rows, k)
      /\ copy' = copy /\ rower' = rower /\ lookup' = lookup /\ gen' = gen /\ todo[u] = <<>>
      /\ todo' = [todo EXCEPT ![u] = Additions(rower, lookup, row)]
      /\ rower \in Rowers /\ Suits(rower, copy) /\ WellFormed(copy) /\ Sized(copy)
  BY <1>1, RowTaken
<1> SUFFICES ASSUME rower = "set", NEW x
             PROVE  x \in gen.set \/ InHand(x)'
                    <=> \E i \in 1..rows : visits'[i] = 1 /\ x = Row(copy, i)[1]
  BY <1>1, <1>2 DEF Collected, InHand
<1>3. x \in gen.set \/ InHand(x) <=> \E i \in 1..rows : visits[i] = 1 /\ x = Row(copy, i)[1]
  BY <1>1 DEF Mapped, Collected
<1>4. Additions(rower, lookup, row) = <<row[1]>>
  <2>2. row = <<row[1]>>
    BY <1>1, <1>2, FirstCell
  <2> QED
    BY <2>2 DEF Additions
<1>5. todo \in [Thread -> Seq(Optional(GenType(rower)))]
  BY DEF Mapped, Typed
<1>6. todo'[u] = <<row[1]>> /\ \A t \in Thread : t # u => todo'[t] = todo[t]
  BY <1>2, <1>4, <1>5
<1>7. InHand(x)' <=> InHand(x) \/ x = row[1]
  <2>1. DOMAIN <<row[1]>> = {1} /\ <<row[1]>>[1] = row[1] /\ DOMAIN <<>> = {}
    OBVIOUS
  <2>2. DOMAIN todo[u] = {}
    BY <1>2, <2>1
  <2>3. \A i \in DOMAIN todo'[u] : todo'[u][i] = row[1]
    BY <1>6, <2>1
  <2>4. ASSUME NEW t \in Thread, NEW i \in DOMAIN todo'[t], todo'[t][i] = x
        PROVE  InHand(x) \/ x = row[1]
    <3>1. CASE t = u
      BY <2>3, <2>4, <3>1
    <3>2. CASE t # u
      BY <1>6, <2>4, <3>2 DEF InHand
    <3> QED
      BY <3>1, <3>2
  <2>5. ASSUME NEW t \in Thread, NEW i \in DOMAIN todo[t], todo[t][i] = x
        PROVE  InHand(x)'
    <3>1. t # u
      BY <2>2
    <3> QED
      BY <1>6, <2>5, <3>1 DEF InHand
  <2>6. x = row[1] => InHand(x)'
    <3>1. 1 \in DOMAIN todo'[u] /\ todo'[u][1] = row[1]
      BY <1>6, <2>1
    <3> QED
      BY <3>1 DEF InHand
  <2> QED
    BY <2>4, <2>5, <2>6 DEF InHand
<1>8. \A i \in 1..rows : visits'[i] = 1 <=> visits[i] = 1 \/ i = k
  BY <1>2 DEF Marked
<1> QED
  BY <1>1, <1>2, <1>3, <1>7, <1>8

----------------------------------------------------------------------------
(* A value is added under the mutex. *)

(* Taking the mutex shows what is generated so far. *)
LEMMA LockMaps ==
  ASSUME Mapped, NEW t \in Thread, Lock(t)
  PROVE  Mapped'
<1>1. /\ holder' = {t} /\ seen' = [seen EXCEPT ![t] = gen] /\ todo[t] # <<>>
      /\ UNCHANGED <<phase, column, frame, copy, rower, lookup, clones, next, end, todo, result, gen, visits>>
  BY DEF Lock, frameVars
<1>2. DOMAIN seen = Thread
  BY DEF Mapped, Typed
<1>3. Typed'
  BY <1>1 DEF Mapped, Typed
<1>4. Mutex'
  BY <1>1, <1>2 DEF Mutex
<1>5. Dealing'
  <2>1. PICK n, step : Mapping(NRows(copy), n, step) /\ Team(n)
    BY DEF Mapped, Dealing
  <2>2. Mapping(NRows(copy), n, step)' /\ Team(n)'
    BY <1>1, <2>1 DEF Mapping, Team
  <2> QED
    BY <2>2 DEF Dealing
<1>6. Accounted' /\ Filtered' /\ Collected'
  BY <1>1 DEF Mapped, Accounted, Filtered, Collected, InHand
<1> QED
  BY <1>1, <1>3, <1>4, <1>5, <1>6 DEF Mapped

(* What is pushed back is behind the cells. *)
LEMMA CellsPushed ==
  ASSUME NEW type \in Types, NEW col, ColumnOf(type, col), NEW v \in Optional(type),
         NEW new, new = PushBack(col, v)
  PROVE  Cells(new) = Append(Cells(col), v) /\ Cells(col) \in Seq(Optional(type))
<1>1. PICK m : m = Size(col)
  OBVIOUS
<1>2. /\ m \in Nat /\ Size(new) = m + 1 /\ Get(new, m + 1) = v
      /\ \A i \in 1..m : Get(new, i) = Get(col, i)
  BY <1>1, PushTyped
<1>3. PICK old, added : old = Cells(col) /\ added = Cells(new)
  OBVIOUS
<1>4. old = [i \in 1..m |-> Get(col, i)] /\ added = [i \in 1..(m + 1) |-> Get(new, i)]
  BY <1>1, <1>2, <1>3 DEF Cells
<1>5. \A i \in 1..m : Get(col, i) \in Optional(type)
  BY <1>1, CellsTyped
<1>6. old \in Seq(Optional(type)) /\ Len(old) = m
  BY <1>2, <1>4, <1>5
<1>7. /\ DOMAIN Append(old, v) = 1..(m + 1) /\ Append(old, v)[m + 1] = v
      /\ \A i \in 1..m : Append(old, v)[i] = old[i]
      /\ Append(old, v) \in Seq(Optional(type)) /\ Len(Append(old, v)) = m + 1
  BY <1>6, Appended
<1>8. added \in Seq(Optional(type)) /\ Len(added) = m + 1
  <2>1. \A i \in 1..(m + 1) : Get(new, i) \in Optional(type)
    <3>1. \A i \in 1..(m + 1) : i = m + 1 \/ i \in 1..m
      BY <1>2
    <3> QED
      BY <1>2, <1>5, <3>1
  <2> QED
    BY <1>2, <1>4, <2>1
<1>9. \A i \in 1..(m + 1) : added[i] = Append(old, v)[i]
  <2>1. \A i \in 1..(m + 1) : i = m + 1 \/ i \in 1..m
    BY <1>2
  <2> QED
    BY <1>2, <1>4, <1>7, <2>1
<1>10. added = Append(old, v)
  BY <1>7, <1>8, <1>9, SeqEqual
<1> QED
  BY <1>3, <1>6, <1>10

(* A value is added by the thread that holds the mutex. *)
LEMMA ValueAdded ==
  ASSUME Mapped, NEW t \in Thread, Add(t), NEW v, v = Head(todo[t])
  PROVE  /\ phase = "mapping" /\ holder' = {} /\ seen' = [seen EXCEPT ![t] = NoGen]
         /\ UNCHANGED <<phase, column, frame, copy, rower, lookup, clones, next, end, result, visits>>
         /\ todo' = [todo EXCEPT ![t] = Tail(@)] /\ todo[t] # <<>>
         /\ gen' = Inserted(rower, gen, v) /\ v \in Optional(GenType(rower))
<1>1. /\ t \in holder /\ gen' = Inserted(rower, seen[t], v) /\ holder' = holder \ {t}
      /\ seen' = [seen EXCEPT ![t] = NoGen] /\ todo' = [todo EXCEPT ![t] = Tail(@)]
      /\ UNCHANGED <<phase, column, frame, copy, rower, lookup, clones, next, end, result, visits>>
  BY DEF Add, frameVars
<1>2. holder = {t} /\ todo[t] # <<>> /\ seen[t] = gen
  BY <1>1 DEF Mapped, Mutex
<1>3. phase = "mapping"
  <2>1. PICK n : Team(n)
    BY DEF Mapped, Dealing
  <2> QED
    BY <1>2, <2>1 DEF Team
<1>4. v \in Optional(GenType(rower))
  <2>1. todo[t] \in Seq(Optional(GenType(rower)))
    BY DEF Mapped, Typed
  <2> QED
    BY <1>2, <2>1, HeadTailProperties
<1> QED
  BY <1>1, <1>2, <1>3, <1>4

(* The generated frame with one more row. *)
LEMMA GenGrown ==
  ASSUME Typed, rower # "set", NEW v \in Optional(GenType(rower)), NEW g, g = Inserted(rower, gen, v)
  PROVE  /\ g = [set |-> gen.set, df |-> g.df] /\ WellFormed(g.df) /\ Sized(g.df)
         /\ g.df.types = gen.df.types
         /\ Cells(g.df.columns[1]) = Append(Cells(gen.df.columns[1]), v)
<1>1. PICK f, h, type, types, row, n : /\ f = gen.df /\ h = AddRow(f, row) /\ type = GenType(rower)
                                       /\ types = f.types /\ row = <<v>> /\ n = Len(types)
  OBVIOUS
<1>2. gen = [set |-> gen.set, df |-> f] /\ WellFormed(f) /\ Sized(f) /\ types = <<type>>
  BY <1>1 DEF Typed
<1>3. g = [set |-> gen.set, df |-> h]
  BY <1>1, <1>2 DEF Inserted
<1>4. n = 1 /\ types[1] = type
  BY <1>1, <1>2
<1>5. RowOf(types, n, row)
  <2>1. UpTo(row, 1) = row /\ \A c \in 1..1 : row[c] \in Optional(types[c])
    BY <1>1, <1>4 DEF UpTo
  <2> QED
    BY <1>4, <2>1 DEF RowOf
<1>6. /\ WellFormed(h) /\ Sized(h) /\ h.types = types
      /\ \A c \in 1..n : h.columns[c] = PushBack(f.columns[c], row[c])
  <2>1. WellFormed(f) /\ Sized(f) /\ n = Len(f.types) /\ RowOf(f.types, n, row) /\ h = AddRow(f, row)
    BY <1>1, <1>2, <1>5
  <2>2. WellFormed(h) /\ Sized(h) /\ h.types = f.types
    BY <2>1, RowAdded
  <2>3. \A c \in 1..n : h.columns[c] = PushBack(f.columns[c], row[c])
    BY <2>1, RowAdded
  <2> QED
    BY <1>1, <2>2, <2>3
<1>7. h.columns[1] = PushBack(f.columns[1], v)
  BY <1>1, <1>4, <1>6
<1>8. type \in Types /\ ColumnOf(type, f.columns[1])
  BY <1>1, GenCounted
<1>9. Cells(h.columns[1]) = Append(Cells(f.columns[1]), v)
  BY <1>1, <1>7, <1>8, CellsPushed
<1> QED
  BY <1>1, <1>3, <1>6, <1>9

(* What is added under the mutex has its type, and the mutex is released. *)
LEMMA AddTyped ==
  ASSUME Mapped, NEW t \in Thread, Add(t)
  PROVE  Typed' /\ Mutex' /\ Dealing' /\ Accounted'
<1>1. PICK v : v = Head(todo[t])
  OBVIOUS
<1>2. /\ phase = "mapping" /\ holder' = {} /\ seen' = [seen EXCEPT ![t] = NoGen]
      /\ UNCHANGED <<phase, column, frame, copy, rower, lookup, clones, next, end, result, visits>>
      /\ todo' = [todo EXCEPT ![t] = Tail(@)] /\ todo[t] # <<>>
      /\ gen' = Inserted(rower, gen, v) /\ v \in Optional(GenType(rower))
  BY <1>1, ValueAdded
<1>3. Typed
  BY DEF Mapped
<1>4. todo' \in [Thread -> Seq(Optional(GenType(rower)))]
  <2>1. Tail(todo[t]) \in Seq(Optional(GenType(rower)))
    <3>1. todo[t] \in Seq(Optional(GenType(rower)))
      BY <1>3 DEF Typed
    <3> QED
      BY <1>2, <3>1, HeadTailProperties
  <2> QED
    BY <1>2, <1>3, <2>1 DEF Typed
<1>5. PICK g : g = gen'
  OBVIOUS
<1>6. g = [set |-> g.set, df |-> g.df] /\ WellFormed(g.df) /\ Sized(g.df) /\ g.df.types = <<GenType(rower)>>
  <2>1. CASE rower = "set"
    <3>1. g = [set |-> gen.set \cup {v}, df |-> gen.df]
      BY <1>2, <1>3, <1>5, <2>1 DEF Inserted, Typed
    <3> QED
      BY <1>3, <3>1 DEF Typed
  <2>2. CASE rower # "set"
    <3>1. /\ g = [set |-> gen.set, df |-> g.df] /\ WellFormed(g.df) /\ Sized(g.df)
          /\ g.df.types = gen.df.types
      BY <1>2, <1>3, <1>5, <2>2, GenGrown
    <3>2. g.set = gen.set
      BY <3>1
    <3> QED
      BY <1>3, <3>1, <3>2 DEF Typed
  <2> QED
    BY <2>1, <2>2
<1>7. Typed'
  BY <1>2, <1>3, <1>4, <1>5, <1>6 DEF Typed
<1>8. Mutex'
  BY <1>2 DEF Mutex
<1>9. Dealing'
  <2>1. PICK n, step : Mapping(NRows(copy), n, step) /\ Team(n)
    BY DEF Mapped, Dealing
  <2>2. Mapping(NRows(copy), n, step)' /\ Team(n)'
    BY <1>2, <2>1 DEF Mapping, Team
  <2> QED
    BY <1>2, <2>2 DEF Dealing
<1>10. Accounted'
  BY <1>2 DEF Mapped, Accounted
<1> QED
  BY <1>7, <1>8, <1>9, <1>10

(* What is added to the generated frame is no longer in hand. *)
LEMMA AddFilters ==
  ASSUME Mapped, NEW u \in Thread, Add(u)
  PROVE  Filtered'
<1>1. PICK v, S : v = Head(todo[u]) /\ S = Optional(GenType(rower))
  OBVIOUS
<1>2. /\ UNCHANGED <<copy, rower, lookup, visits>>
      /\ todo' = [todo EXCEPT ![u] = Tail(@)] /\ todo[u] # <<>>
      /\ gen' = Inserted(rower, gen, v) /\ v \in S
  BY <1>1, ValueAdded
<1> SUFFICES ASSUME rower \in {"projects", "uuids", "names"}, NEW V
             PROVE  Count(V, Cells(gen'.df.columns[1])) + Total(Waiting(V, todo'), MaxThreads)
                      = Total(Granted(V, rower, lookup, copy, visits), NRows(copy))
  BY <1>2 DEF Filtered
<1>3. Count(V, Cells(gen.df.columns[1])) + Total(Waiting(V, todo), MaxThreads)
        = Total(Granted(V, rower, lookup, copy, visits), NRows(copy))
  BY DEF Mapped, Filtered
<1>4. todo \in [Thread -> Seq(S)] /\ Typed
  BY <1>1 DEF Mapped, Typed
<1>5. PICK old, new : old = Cells(gen.df.columns[1]) /\ new = Cells(gen'.df.columns[1])
  OBVIOUS
<1>6. new = Append(old, v)
  BY <1>1, <1>2, <1>4, <1>5, GenGrown
<1>7. old \in Seq(S) /\ Count(V, old) \in Int
  BY <1>1, <1>4, <1>5, GenCounted
<1>8. PICK d : d = IF v \in V THEN 1 ELSE 0
  OBVIOUS
<1>9. Count(V, new) = Count(V, old) + d
  BY <1>2, <1>6, <1>7, <1>8, CountAppended
<1>10. PICK f, g : f = Waiting(V, todo) /\ g = Waiting(V, todo')
  OBVIOUS
<1>11. MaxThreads \in Nat /\ u + 1 \in 1..MaxThreads /\ u \in Nat /\ \A t \in 1..MaxThreads : t - 1 \in Thread
  BY MapAssumption DEF Thread
<1>12. d \in Int /\ 0 - d \in Int
  BY <1>8
<1>13. \A t \in 1..MaxThreads : f[t] \in Int /\ g[t] = f[t] + (IF t = u + 1 THEN 0 - d ELSE 0)
  <2> SUFFICES ASSUME NEW t \in 1..MaxThreads
               PROVE  f[t] \in Int /\ g[t] = f[t] + (IF t = u + 1 THEN 0 - d ELSE 0)
    OBVIOUS
  <2>1. PICK x : x = t - 1 /\ x \in Thread
    BY <1>11
  <2>2. f[t] = Count(V, todo[x]) /\ g[t] = Count(V, todo'[x])
    BY <1>10, <2>1 DEF Waiting
  <2>3. f[t] \in Int
    <3>1. Count(V, todo[x]) \in Nat
      BY <1>4, <2>1, CountTyped
    <3> QED
      BY <2>2, <3>1
  <2>4. CASE x = u
    <3>1. PICK s : s = todo[u] /\ s \in Seq(S) /\ s # <<>>
      BY <1>2, <1>4
    <3>2. todo'[x] = Tail(s) /\ t = u + 1
      BY <1>2, <1>4, <1>11, <2>1, <2>4, <3>1
    <3>3. Tail(s) \in Seq(S) /\ Count(V, s) = Count(V, Tail(s)) + d
      BY <1>1, <1>8, <3>1, CountTail
    <3>4. Count(V, Tail(s)) \in Nat
      BY <3>3, CountTyped
    <3>5. f[t] = g[t] + d /\ g[t] \in Nat
      BY <2>2, <2>4, <3>1, <3>2, <3>3, <3>4
    <3> QED
      BY <1>12, <2>3, <3>2, <3>5
  <2>5. CASE x # u
    <3>1. todo'[x] = todo[x] /\ t # u + 1
      BY <1>2, <1>4, <1>11, <2>1, <2>5
    <3> QED
      BY <2>2, <2>3, <3>1
  <2> QED
    BY <2>4, <2>5
<1>14. Total(g, MaxThreads) = Total(f, MaxThreads) + (0 - d)
  <2>1. PICK j \in 1..MaxThreads : j = u + 1
    BY <1>11
  <2>2. PICK e : e = 0 - d
    OBVIOUS
  <2>3. Moved(f, g, MaxThreads, j, e) /\ e \in Int
    BY <1>12, <1>13, <2>1, <2>2 DEF Moved
  <2>4. Total(g, MaxThreads) = Total(f, MaxThreads) + e
    BY <1>11, <2>3, TotalChanged
  <2> QED
    BY <2>2, <2>4
<1>15. Total(f, MaxThreads) \in Int
  BY <1>11, <1>13, TotalTyped
<1> QED
  BY <1>3, <1>5, <1>7, <1>9, <1>10, <1>12, <1>14, <1>15

(* The int that was in hand is in the set. *)
LEMMA AddCollects ==
  ASSUME Mapped, NEW u \in Thread, Add(u)
  PROVE  Collected'
<1>1. PICK v, S : v = Head(todo[u]) /\ S = Optional(GenType(rower))
  OBVIOUS
<1>2. /\ UNCHANGED <<copy, rower, lookup, visits>>
      /\ todo' = [todo EXCEPT ![u] = Tail(@)] /\ todo[u] # <<>>
      /\ gen' = Inserted(rower, gen, v) /\ v \in S
  BY <1>1, ValueAdded
<1> SUFFICES ASSUME rower = "set", NEW x
             PROVE  x \in gen'.set \/ InHand(x)' <=> x \in gen.set \/ InHand(x)
  BY <1>2 DEF Mapped, Collected
<1>3. todo \in [Thread -> Seq(S)] /\ gen = [set |-> gen.set, df |-> gen.df]
  BY <1>1 DEF Mapped, Typed
<1>4. gen'.set = gen.set \cup {v}
  BY <1>2, <1>3 DEF Inserted
<1>5. PICK s, r, n : s = todo[u] /\ r = Tail(s) /\ n = Len(s)
  OBVIOUS
<1>6. s \in Seq(S) /\ s # <<>> /\ n \in Nat /\ n > 0
  <2>1. s \in Seq(S) /\ s # <<>>
    BY <1>2, <1>3, <1>5
  <2> QED
    BY <1>5, <2>1
<1>7. DOMAIN s = 1..n /\ DOMAIN r = 1..(n - 1) /\ s[1] = v /\ \A i \in 1..(n - 1) : r[i] = s[i + 1]
  BY <1>1, <1>5, <1>6
<1>8. todo'[u] = r /\ \A t \in Thread : t # u => todo'[t] = todo[t]
  BY <1>2, <1>3, <1>5
<1>9. InHand(x) <=> InHand(x)' \/ x = v
  <2>1. ASSUME NEW t \in Thread, NEW i \in DOMAIN todo[t], todo[t][i] = x
        PROVE  InHand(x)' \/ x = v
    <3>1. CASE t # u
      BY <1>8, <2>1, <3>1 DEF InHand
    <3>2. CASE t = u
      <4>1. CASE i = 1
        BY <1>5, <1>7, <2>1, <3>2, <4>1
      <4>2. CASE i # 1
        <5>1. i \in 1..n
          BY <1>5, <1>7, <3>2
        <5>2. i - 1 \in 1..(n - 1) /\ (i - 1) + 1 = i
          BY <1>6, <4>2, <5>1
        <5>3. r[i - 1] = x /\ i - 1 \in DOMAIN r
          BY <1>5, <1>7, <2>1, <3>2, <5>2
        <5> QED
          BY <1>8, <5>3 DEF InHand
      <4> QED
        BY <4>1, <4>2
    <3> QED
      BY <3>1, <3>2
  <2>2. ASSUME NEW t \in Thread, NEW i \in DOMAIN todo'[t], todo'[t][i] = x
        PROVE  InHand(x)
    <3>1. CASE t # u
      BY <1>8, <2>2, <3>1 DEF InHand
    <3>2. CASE t = u
      <4>1. i \in 1..(n - 1)
        BY <1>7, <1>8, <2>2, <3>2
      <4>2. i + 1 \in 1..n
        BY <1>6, <4>1
      <4>3. i + 1 \in DOMAIN s /\ s[i + 1] = x
        BY <1>7, <1>8, <2>2, <3>2, <4>1, <4>2
      <4> QED
        BY <1>5, <4>3 DEF InHand
    <3> QED
      BY <3>1, <3>2
  <2>3. x = v => InHand(x)
    <3>1. 1 \in DOMAIN s
      BY <1>6, <1>7
    <3> QED
      BY <1>5, <1>7, <3>1 DEF InHand
  <2> QED
    BY <2>1, <2>2, <2>3 DEF InHand
<1> QED
  BY <1>4, <1>9

----------------------------------------------------------------------------
(* The clones are joined; the invariant. *)

(* A sum begins with its first number. *)
LEMMA TotalShifted ==
  ASSUME NEW n \in Nat, NEW f, \A k \in 1..(n + 1) : f[k] \in Int, NEW a, \A k \in 1..n : a[k] = f[k + 1]
  PROVE  Total(f, n + 1) = f[1] + Total(a, n) /\ Total(a, n) \in Int
<1>1. \A k \in 1..n : a[k] \in Int
  OBVIOUS
<1>2. \A k \in 0..n : Total(a, k) \in Int
  BY <1>1, TotalTyped
<1>3. PICK first : first = f[1] /\ first \in Int
  OBVIOUS
<1> DEFINE T == {k \in Nat : k <= n => Total(f, k + 1) = first + Total(a, k)}
<1>4. 0 \in T
  <2>1. 0 \in Nat /\ 0 + 1 = 1
    OBVIOUS
  <2>2. Total(f, 0 + 1) = Total(f, 0) + f[0 + 1]
    BY <2>1, TotalNext
  <2>3. Total(f, 0) = 0 /\ Total(a, 0) = 0
    BY TotalNext
  <2>4. Total(f, 0 + 1) = first + Total(a, 0)
    BY <1>3, <2>1, <2>2, <2>3
  <2> QED
    BY <2>4
<1>5. ASSUME NEW k \in Nat, k \in T
      PROVE  k + 1 \in T
  <2>1. CASE k + 1 <= n
    <3>1. PICK j \in Nat : j = k + 1
      OBVIOUS
    <3>2. j \in 1..n /\ k <= n /\ k \in 0..n
      BY <2>1, <3>1
    <3>3. Total(f, j + 1) = Total(f, j) + f[j + 1] /\ Total(a, k + 1) = Total(a, k) + a[k + 1]
      BY TotalNext
    <3>4. Total(f, j) = first + Total(a, k)
      BY <1>5, <3>1, <3>2
    <3>5. a[j] = f[j + 1] /\ a[j] \in Int /\ Total(a, k) \in Int
      BY <1>1, <1>2, <3>2
    <3>6. Total(f, j + 1) = first + Total(a, j)
      BY <1>3, <3>1, <3>3, <3>4, <3>5
    <3> QED
      BY <3>1, <3>6
  <2> QED
    BY <2>1
<1>6. \A k \in Nat : k \in T
  <2> HIDE DEF T
  <2> QED
    BY <1>4, <1>5, Adds!NatInductive
<1>7. Total(f, n + 1) = first + Total(a, n)
  BY <1>6
<1>8. Total(a, n) \in Int
  BY <1>2
<1> QED
  BY <1>3, <1>7, <1>8

(* What the rower has in the end. *)
LEMMA MergeJoins ==
  ASSUME Mapped, Merge
  PROVE  /\ result' \in [Thread -> Results]
         /\ \A t \in Thread : t # 0 => result'[t] = result[t]
         /\ \A w : Wanted(rower, w) => Amount(rower, w, result'[0]) = Total(Earned(rower, w, result), MaxThreads)
<1>1. PICK n, step : Mapping(NRows(copy), n, step) /\ Team(n)
  BY DEF Mapped, Dealing
<1>2. n \in 1..MaxThreads /\ MaxThreads \in Nat /\ n \in Nat /\ 0 \in Thread /\ \A t \in Thread : t \in Nat
  BY <1>1, MapAssumption DEF Mapping, Dealt, Thread
<1>3. result \in [Thread -> Results]
  BY DEF Mapped, Typed
<1>4. PICK res, m, others : res = result[0] /\ m = Cardinality(clones) /\ others = [i \in 1..m |-> result[i]]
  OBVIOUS
<1>5. phase = "mapping" /\ result' = [result EXCEPT ![0] = FoldLeft(Joined, res, others)]
  BY <1>4 DEF Merge
<1>6. m = (IF rower # "print" THEN n - 1 ELSE 0) /\ m \in Nat
  <2>1. clones = (IF rower # "print" THEN 1..(n - 1) ELSE {})
    BY <1>1, <1>5 DEF Team
  <2>2. PICK k \in Nat : k = n - 1
    BY <1>2
  <2>3. Cardinality(1..k) = IF 1 > k THEN 0 ELSE k - 1 + 1
    BY FS_Interval
  <2>4. Cardinality(1..k) = k
    BY <2>3
  <2> QED
    BY <1>4, <2>1, <2>2, <2>4, FS_EmptySet
<1>7. \A k \in 1..m : k \in Thread
  BY <1>2, <1>6, MapAssumption DEF Thread
<1>8. /\ DOMAIN others = 1..m /\ res \in Results
      /\ \A k \in 1..m : others[k] = result[k] /\ others[k] \in Results
  BY <1>2, <1>3, <1>4, <1>7
<1>9. PICK joined : joined = FoldLeft(Joined, res, others)
  OBVIOUS
<1>10. /\ joined \in Results
       /\ \A r, w, a : Wanted(r, w) /\ (\A k \in 1..m : a[k] = Amount(r, w, others[k]))
                         => Amount(r, w, joined) = Amount(r, w, res) + Total(a, m)
  BY <1>6, <1>8, <1>9, AllJoined
<1>11. result' \in [Thread -> Results] /\ result'[0] = joined /\ \A t \in Thread : t # 0 => result'[t] = result[t]
  BY <1>2, <1>3, <1>5, <1>9, <1>10
<1>12. ASSUME NEW w, Wanted(rower, w)
       PROVE  Amount(rower, w, joined) = Total(Earned(rower, w, result), MaxThreads)
  <2>1. rower # "print" /\ m = n - 1
    BY <1>6, <1>12 DEF Wanted
  <2>2. PICK f, a : f = Earned(rower, w, result) /\ a = [k \in 1..m |-> f[k + 1]]
    OBVIOUS
  <2>3. \A t \in 1..MaxThreads : t - 1 \in Thread /\ f[t] = Amount(rower, w, result[t - 1])
    BY <2>2, MapAssumption DEF Earned, Thread
  <2>4. \A t \in 1..MaxThreads : f[t] \in Int
    BY <1>3, <1>12, <2>3, AmountTyped
  <2>5. \A k \in 1..m : a[k] = Amount(rower, w, others[k])
    <3>1. \A k \in 1..m : k + 1 \in 1..MaxThreads /\ (k + 1) - 1 = k
      BY <1>2, <2>1
    <3>2. \A k \in 1..m : f[k + 1] = Amount(rower, w, result[k])
      BY <2>3, <3>1
    <3> QED
      BY <1>8, <2>2, <3>2
  <2>6. Amount(rower, w, joined) = Amount(rower, w, res) + Total(a, m)
    BY <1>10, <1>12, <2>5
  <2>7. Total(f, m + 1) = f[1] + Total(a, m)
    <3>1. \A k \in 1..(m + 1) : f[k] \in Int
      BY <1>2, <2>1, <2>4
    <3>2. \A k \in 1..m : a[k] = f[k + 1]
      BY <2>2
    <3> QED
      BY <1>6, <3>1, <3>2, TotalShifted
  <2>8. f[1] = Amount(rower, w, res)
    <3>1. 1 \in 1..MaxThreads /\ 1 - 1 = 0
      BY <1>2
    <3> QED
      BY <1>4, <2>3, <3>1
  <2>9. Total(f, MaxThreads) = Total(f, n)
    <3>1. ASSUME NEW k \in (n + 1)..MaxThreads
          PROVE  f[k] = 0
      <4>1. k \in 1..MaxThreads /\ k - 1 \in Thread /\ k - 1 >= n
        BY <1>2, MapAssumption DEF Thread
      <4>2. result[k - 1] = Blank
        BY <1>1, <4>1 DEF Team
      <4>3. Amount(rower, w, Blank) = 0
        BY <1>12 DEF Amount, Blank, Wanted
      <4> QED
        BY <2>3, <4>1, <4>2, <4>3
    <3>2. n <= MaxThreads /\ \A k \in 1..n : f[k] \in Int
      BY <1>2, <2>4
    <3> QED
      BY <1>2, <3>1, <3>2, TotalZeros
  <2>10. m + 1 = n
    BY <1>2, <2>1
  <2> QED
    BY <2>2, <2>6, <2>7, <2>8, <2>9, <2>10
<1> QED
  BY <1>11, <1>12

(* Joining the threads. *)
LEMMA MergeMaps ==
  ASSUME Mapped, Merge
  PROVE  Mapped'
<1>1. /\ phase = "mapping" /\ phase' = "merged" /\ clones' = {}
      /\ \A t \in Thread : next[t] > end[t] /\ todo[t] = <<>>
      /\ UNCHANGED <<column, frame, copy, rower, lookup, next, end, todo, gen, holder, seen, visits>>
  BY DEF Merge
<1>2. /\ result' \in [Thread -> Results]
      /\ \A t \in Thread : t # 0 => result'[t] = result[t]
      /\ \A w : Wanted(rower, w) => Amount(rower, w, result'[0]) = Total(Earned(rower, w, result), MaxThreads)
  BY MergeJoins
<1>3. Dealing'
  <2>1. PICK n, step : Mapping(NRows(copy), n, step) /\ Team(n)
    BY DEF Mapped, Dealing
  <2>2. Mapping(NRows(copy), n, step)'
    BY <1>1, <2>1 DEF Mapping
  <2>3. n \in Nat \ {0} /\ \A t \in Thread : t \in Nat
    BY <2>1, ThreadsInNat, MapAssumption DEF Mapping, Dealt
  <2>4. \A t \in Thread : t >= n => result'[t] = Blank
    BY <1>2, <2>1, <2>3 DEF Team
  <2>5. Team(n)'
    BY <1>1, <2>1, <2>4 DEF Team
  <2> QED
    BY <2>2, <2>5 DEF Dealing
<1>4. Typed'
  BY <1>1, <1>2 DEF Mapped, Typed
<1>5. Mutex'
  BY <1>1 DEF Mapped, Mutex
<1>6. Accounted'
  BY <1>1, <1>2 DEF Mapped, Accounted
<1>7. Filtered' /\ Collected'
  BY <1>1 DEF Mapped, Filtered, Collected, InHand
<1> QED
  BY <1>1, <1>3, <1>4, <1>5, <1>6, <1>7 DEF Mapped, Begun

(* The end of a map. *)
LEMMA FinishMaps ==
  ASSUME Mapped, Finish
  PROVE  Mapped'
<1>1. PICK n, step : Mapping(NRows(copy), n, step) /\ Team(n)
  BY DEF Mapped, Dealing
<1>2. phase = "merged" /\ UNCHANGED <<column, frame, copy, mapVars>>
  BY DEF Finish
<1>3. clones = {}
  BY <1>1, <1>2 DEF Team
<1>4. phase' = "done"
  BY <1>3 DEF Finish
<1>5. UNCHANGED <<rower, lookup, clones, next, end, todo, result, gen, holder, seen, visits>>
  BY <1>2 DEF mapVars
<1>6. Dealing'
  <2>1. Mapping(NRows(copy), n, step)' /\ Team(n)'
    BY <1>1, <1>2, <1>4, <1>5 DEF Mapping, Team
  <2> QED
    BY <2>1 DEF Dealing
<1>7. Typed' /\ Mutex'
  BY <1>5 DEF Mapped, Typed, Mutex
<1>8. Accounted' /\ Filtered' /\ Collected'
  BY <1>2, <1>4, <1>5 DEF Mapped, Accounted, Filtered, Collected, InHand
<1> QED
  BY <1>4, <1>6, <1>7, <1>8 DEF Mapped, Begun

(* The inductive invariant of pmap. *)
IInv == Built /\ (Idle \/ Mapped)

(* The invariant holds at first ... *)
LEMMA IInvInit == Init => IInv
BY BuiltInit DEF IInv, Idle, Init, FrameInit, MapInit, Before

(* ... every step keeps it ... *)
LEMMA IInvStep == IInv /\ [Next]_vars => IInv'
<1> SUFFICES ASSUME IInv, [Next]_vars
             PROVE  IInv'
  OBVIOUS
<1>1. Built /\ Built' /\ (Idle \/ Mapped)
  BY BuiltStep DEF IInv
<1>2. Idle => phase \in Before /\ holder = {} /\ \A t \in Thread : todo[t] = <<>>
  BY DEF Idle
<1>3. Mapped => phase \in Begun
  BY DEF Mapped
<1>4. ASSUME Build, UNCHANGED mapVars
      PROVE  IInv'
  <2>1. phase \in Before /\ phase' \in Before
    BY <1>4 DEF Build, InitializeSchema, ParseRow, NewColumn, FillColumn, AddColumn, SetCell, Store,
         ReadRemotely, Before
  <2>2. Idle
    BY <1>1, <1>3, <2>1 DEF Before, Begun
  <2>3. Idle'
    BY <1>4, <2>1, <2>2 DEF Idle, mapVars
  <2> QED
    BY <1>1, <2>3 DEF IInv
<1>5. ASSUME NEW r \in Rowers, NEW s \in Lookups, Start(r, s)
      PROVE  IInv'
  <2>1. phase = "read"
    BY <1>5 DEF Start
  <2>2. Idle
    BY <1>1, <1>3, <2>1 DEF Begun
  <2>3. Mapped'
    BY <1>1, <1>5, <2>2, StartMaps
  <2> QED
    BY <1>1, <2>3 DEF IInv
<1>6. ASSUME NEW t \in Thread, Accept(t)
      PROVE  IInv'
  <2>1. phase = "mapping" /\ phase' = "mapping"
    BY <1>6 DEF Accept, frameVars
  <2>2. Mapped
    BY <1>1, <1>2, <2>1 DEF Before
  <2>3. Dealing'
    <3>1. PICK rows, k, row : rows = NRows(copy) /\ k = next[t] /\ row = Row(copy, k)
      OBVIOUS
    <3> QED
      BY <1>1, <1>6, <2>2, <3>1, RowTaken
  <2>4. Mapped'
    BY <1>1, <1>6, <2>1, <2>2, <2>3, AcceptTyped, AcceptAccounts, AcceptFilters, AcceptCollects DEF Mapped, Begun
  <2> QED
    BY <1>1, <2>4 DEF IInv
<1>7. ASSUME NEW t \in Thread, Lock(t)
      PROVE  IInv'
  <2>1. Mapped
    BY <1>1, <1>2, <1>7 DEF Lock
  <2> QED
    BY <1>1, <1>7, <2>1, LockMaps DEF IInv
<1>8. ASSUME NEW t \in Thread, Add(t)
      PROVE  IInv'
  <2>1. Mapped
    BY <1>1, <1>2, <1>8 DEF Add
  <2>2. phase' = phase
    BY <1>8 DEF Add, frameVars
  <2>3. Mapped'
    BY <1>3, <1>8, <2>1, <2>2, AddTyped, AddFilters, AddCollects DEF Mapped
  <2> QED
    BY <1>1, <2>3 DEF IInv
<1>9. ASSUME Merge \/ Finish
      PROVE  IInv'
  <2>1. phase \in {"mapping", "merged"}
    BY <1>9 DEF Merge, Finish
  <2>2. Mapped
    BY <1>1, <1>2, <2>1 DEF Before
  <2> QED
    BY <1>1, <1>9, <2>2, MergeMaps, FinishMaps DEF IInv
<1>10. ASSUME UNCHANGED vars
       PROVE  IInv'
  <2>1. UNCHANGED <<phase, column, frame, copy, rower, lookup, clones, next, end, todo, result, gen, holder, seen, visits>>
    BY <1>10 DEF vars, frameVars, mapVars
  <2>2. Idle => Idle'
    BY <2>1 DEF Idle
  <2>3. Mapped => Mapped'
    <3> SUFFICES ASSUME Mapped
                 PROVE  Mapped'
      OBVIOUS
    <3>1. PICK n, step : Mapping(NRows(copy), n, step) /\ Team(n)
      BY DEF Mapped, Dealing
    <3>2. Mapping(NRows(copy), n, step)' /\ Team(n)'
      BY <2>1, <3>1 DEF Mapping, Team
    <3>3. Dealing'
      BY <3>2 DEF Dealing
    <3>4. Typed' /\ Mutex' /\ Accounted' /\ Filtered' /\ Collected'
      BY <2>1 DEF Mapped, Typed, Mutex, Accounted, Filtered, Collected, InHand
    <3> QED
      BY <2>1, <3>3, <3>4 DEF Mapped
  <2> QED
    BY <1>1, <2>2, <2>3 DEF IInv
<1> QED
  BY <1>4, <1>5, <1>6, <1>7, <1>8, <1>9, <1>10 DEF Next, Turn

(* ... and so it holds always. *)
LEMMA AlwaysIInv == Spec => []IInv
<1>1. Init => IInv
  BY IInvInit
<1>2. IInv /\ [Next]_vars => IInv'
  BY IInvStep
<1> QED
  BY <1>1, <1>2, PTL DEF Spec

----------------------------------------------------------------------------
(* Every row is visited, and types. *)

(* When the threads are joined, every row has been visited. *)
LEMMA AllVisited ==
  ASSUME Built, Mapped, phase \in {"merged", "done"}, NEW i \in 1..NRows(copy)
  PROVE  visits[i] = 1
<1>1. PICK rows, n, step : rows = NRows(copy) /\ Mapping(rows, n, step)
  BY DEF Mapped, Dealing
<1>2. Dealt(rows, n, step) /\ next \in [Thread -> Nat]
      /\ visits = [j \in 1..rows |-> IF Passed(n, step, next, j) THEN 1 ELSE 0]
      /\ \A t \in Thread : next[t] > Final(rows, n, step, t)
  BY <1>1 DEF Mapping
<1>3. PICK t \in Thread : First(n, step, t) <= i /\ i <= Final(rows, n, step, t)
  BY <1>1, <1>2, RangesCover
<1>4. i \in Int /\ next[t] \in Nat /\ Final(rows, n, step, t) \in Nat
  BY <1>2, RangeInRows
<1>5. i < next[t]
  BY <1>2, <1>3, <1>4
<1>6. Passed(n, step, next, i)
  BY <1>3, <1>5 DEF Passed
<1> QED
  BY <1>1, <1>2, <1>6

(* Whatever the number of rows, of threads and of rows per thread, every   *)
(* row is accepted at most once, and once when the threads are joined      *)
(* (dataframe.cpp:294-304).                                                *)
THEOREM EachRowVisitedOnce == Spec => []EachRowOnce
<1>1. IInv => EachRowOnce
  <2> SUFFICES ASSUME IInv, NEW i \in DOMAIN visits
               PROVE  IF phase = "merged" THEN visits[i] = 1 ELSE visits[i] <= 1
    BY DEF EachRowOnce
  <2>1. DOMAIN <<>> = {}
    OBVIOUS
  <2>2. Built /\ Mapped
    BY <2>1 DEF IInv, Idle
  <2>3. PICK rows, n, step : rows = NRows(copy) /\ Mapping(rows, n, step)
    BY <2>2 DEF Mapped, Dealing
  <2>4. i \in 1..rows /\ visits[i] = IF Passed(n, step, next, i) THEN 1 ELSE 0
    BY <2>3 DEF Mapping
  <2>5. phase = "merged" => visits[i] = 1
    BY <2>2, <2>3, <2>4, AllVisited
  <2> QED
    BY <2>4, <2>5
<1> QED
  BY <1>1, AlwaysIInv, PTL

(* Every state is one that the program can be in. *)
THEOREM MapTypes == Spec => []TypeOK
<1>1. IInv => TypeOK
  <2> SUFFICES ASSUME IInv
               PROVE  TypeOK
    OBVIOUS
  <2>1. Built /\ (Idle \/ Mapped)
    BY DEF IInv
  <2>2. phase \in {"new", "rows", "columns", "stored", "read", "mapping", "merged", "done", "aborted"}
    BY <2>1 DEF Idle, Mapped, Before, Begun
  <2>3. WellFormed(frame) /\ frame.types \in Seq(Types)
    BY <2>1 DEF Built, WellFormed
  <2>4. ASSUME NEW c \in DOMAIN frame.columns, NEW col, col = frame.columns[c]
        PROVE  /\ col.type = frame.types[c]
               /\ Len(col.array.bitmap) = Len(col.array.data)
               /\ \A i \in 1..Size(col) : Get(col, i) \in Optional(col.type)
    <3>1. PICK n, type : n = Len(frame.types) /\ type = frame.types[c]
      OBVIOUS
    <3>2. c \in 1..n /\ DOMAIN frame.types = 1..n
      BY <2>3, <3>1, FrameIndices
    <3>3. ColumnOf(type, col) /\ type \in Types
      BY <2>3, <2>4, <3>1, <3>2, ElementOfSeq DEF WellFormed
    <3>4. col.type = type /\ Len(col.array.bitmap) = Len(col.array.data)
      BY <3>3 DEF ColumnOf, NullableArray
    <3> QED
      BY <3>1, <3>3, <3>4, CellsTyped
  <2>5. phase = "read" => NRows(copy) \in 0..MaxRows
    BY <2>1, CopyKnown
  <2>6. MaxRows \in Nat /\ MaxThreads \in Nat \ {0, 1}
    BY FrameAssumption, MapAssumption
  <2>7. /\ rower \in Rowers \cup {"none"}
        /\ clones \subseteq Thread \ {0}
        /\ next \in [Thread -> 1..(MaxRows + 1)] /\ end \in [Thread -> 0..MaxRows]
        /\ holder \subseteq Thread
        /\ \A t \in Thread : result[t].sum \in Int
    <3>1. CASE Idle
      BY <2>6, <3>1 DEF Idle, Blank
    <3>2. CASE Mapped
      <4>1. PICK rows, n, step : rows = NRows(copy) /\ Mapping(rows, n, step) /\ Team(n)
        BY <3>2 DEF Mapped, Dealing
      <4>2. /\ Dealt(rows, n, step) /\ end = [t \in Thread |-> Final(rows, n, step, t)]
            /\ next \in [Thread -> Nat]
            /\ \A t \in Thread : First(n, step, t) <= next[t] /\ next[t] <= Final(rows, n, step, t) + 1
        BY <4>1 DEF Mapping
      <4>3. rows \in 0..MaxRows
        BY <2>1, <3>2, <4>1, CopyKnown DEF Mapped
      <4>4. ASSUME NEW t \in Thread
            PROVE  next[t] \in 1..(MaxRows + 1) /\ Final(rows, n, step, t) \in 0..MaxRows
        <5>1. /\ First(n, step, t) \in Nat \ {0} /\ Final(rows, n, step, t) \in Nat
              /\ Final(rows, n, step, t) <= rows
          BY <4>2, RangeInRows
        <5>2. /\ next[t] \in Nat /\ First(n, step, t) <= next[t]
              /\ next[t] <= Final(rows, n, step, t) + 1
          BY <4>2
        <5> QED
          BY <2>6, <4>3, <5>1, <5>2
      <4>5. next \in [Thread -> 1..(MaxRows + 1)] /\ end \in [Thread -> 0..MaxRows]
        BY <4>2, <4>4
      <4>6. rower \in Rowers /\ clones \subseteq Thread \ {0}
        <5>1. n \in 1..MaxThreads /\ (clones = {} \/ clones = 1..(n - 1))
          BY <4>1, <4>2 DEF Team, Dealt
        <5>2. 1..(n - 1) \subseteq Thread \ {0}
          BY <2>6, <5>1 DEF Thread
        <5> QED
          BY <4>1, <5>1, <5>2 DEF Team
      <4>7. holder \subseteq Thread
        BY <3>2 DEF Mapped, Mutex
      <4>8. \A t \in Thread : result[t].sum \in Int
        BY <3>2 DEF Mapped, Typed, Results
      <4> QED
        BY <4>5, <4>6, <4>7, <4>8
    <3> QED
      BY <2>1, <3>1, <3>2
  <2> QED
    BY <2>2, <2>3, <2>4, <2>5, <2>7 DEF TypeOK
<1> QED
  BY <1>1, AlwaysIInv, PTL

----------------------------------------------------------------------------
(* The result of a map is that of a loop. *)

(* The first n rows have one cell each. *)
Single(f, n) == \A i \in 1..n : Row(f, i) = <<Row(f, i)[1]>>

(* Those cells, in order. *)
InOrder(cells, f, n) ==
  /\ DOMAIN cells = 1..n /\ cells = UpTo(cells, n)
  /\ \A i \in 1..n : cells[i] = Row(f, i)[1]

(* The cells of such rows are the rows one after the other. *)
LEMMA CellsInOrder ==
  ASSUME NEW f, NEW n \in Nat, Single(f, n),
         NEW rows, rows = [i \in 1..n |-> Row(f, i)],
         NEW cells, cells = FlattenSeq(rows)
  PROVE  InOrder(cells, f, n)
<1>1. PICK v, parts : v = [i \in 1..n |-> Row(f, i)[1]] /\ parts = [i \in 1..n |-> <<v[i]>>]
  OBVIOUS
<1>2. rows = parts
  BY <1>1 DEF Single
<1>3. FlattenSeq(parts) = UpTo(v, n)
  BY <1>1, SinglesFlattened
<1>4. cells = UpTo(v, n)
  BY <1>2, <1>3
<1>5. cells = UpTo(cells, n)
  <2>1. UpTo(UpTo(v, n), n) = UpTo(v, n)
    BY DEF UpTo
  <2> QED
    BY <1>4, <2>1
<1> QED
  BY <1>1, <1>4, <1>5 DEF InOrder, UpTo

(* What each cell adds to the count of a word. *)
Hits(c, w, cells, n) == \A i \in 1..n : c[i] = IF cells[i] = w THEN 1 ELSE 0

(* How often a cell occurs. *)
LEMMA CellsCounted ==
  ASSUME NEW n \in Nat, NEW cells, cells = UpTo(cells, n), NEW w, NEW c, Hits(c, w, cells, n)
  PROVE  Occurrences(w, cells) = Total(c, n)
<1>0. PICK S : S = {cells[i] : i \in 1..n}
  OBVIOUS
<1> DEFINE T == {k \in Nat : k <= n => Count({w}, UpTo(cells, k)) = Total(c, k)}
<1>1. 0 \in T
  <2>1. UpTo(cells, 0) = <<>>
    BY DEF UpTo
  <2> QED
    BY <2>1, CountEmpty, TotalNext
<1>2. ASSUME NEW k \in Nat, k \in T
      PROVE  k + 1 \in T
  <2>1. CASE k + 1 <= n
    <3>1. k + 1 \in 1..n /\ k <= n
      BY <2>1
    <3>2. PICK s, e : s = UpTo(cells, k) /\ e = cells[k + 1]
      OBVIOUS
    <3>3. s \in Seq(S) /\ e \in S
      <4>1. \A i \in 1..k : cells[i] \in S
        BY <1>0, <3>1
      <4>2. s = [i \in 1..k |-> cells[i]]
        BY <3>2 DEF UpTo
      <4> QED
        BY <1>0, <3>1, <3>2, <4>1, <4>2
    <3>4. UpTo(cells, k + 1) = Append(s, e)
      BY <3>2, UpToNext
    <3>5. Count({w}, Append(s, e)) = Count({w}, s) + (IF e \in {w} THEN 1 ELSE 0)
      BY <3>3, CountAppended
    <3>6. Count({w}, s) = Total(c, k)
      BY <1>2, <3>1, <3>2
    <3>7. c[k + 1] = (IF e \in {w} THEN 1 ELSE 0)
      BY <3>1, <3>2 DEF Hits
    <3>8. Total(c, k + 1) = Total(c, k) + c[k + 1]
      BY TotalNext
    <3>9. Count({w}, UpTo(cells, k + 1)) = Total(c, k + 1)
      BY <3>4, <3>5, <3>6, <3>7, <3>8
    <3> QED
      BY <3>9
  <2> QED
    BY <2>1
<1>3. \A k \in Nat : k \in T
  <2> HIDE DEF T
  <2> QED
    BY <1>1, <1>2, Adds!NatInductive
<1>4. Count({w}, cells) = Total(c, n)
  BY <1>3
<1>5. {i \in DOMAIN cells : cells[i] \in {w}} = {i \in DOMAIN cells : cells[i] = w}
  OBVIOUS
<1> QED
  BY <1>4, <1>5 DEF Count, Occurrences

(* What the rower has is what is due for all rows. *)
LEMMA AllEarned ==
  ASSUME Built, Mapped, phase = "done", NEW w, Wanted(rower, w), NEW n, n = NRows(copy),
         NEW c, \A i \in 1..n : c[i] = Due(rower, w, Row(copy, i)[1])
  PROVE  Amount(rower, w, result[0]) = Total(c, n)
<1>1. n \in Nat
  BY CopyKnown DEF Mapped
<1>2. Amount(rower, w, result[0]) = Total(Owed(rower, w, copy, visits), n)
  BY DEF Mapped, Accounted
<1>3. PICK p : p = Owed(rower, w, copy, visits)
  OBVIOUS
<1>4. \A i \in 1..n : p[i] = c[i]
  BY <1>3, AllVisited DEF Owed
<1>5. Total(p, n) = Total(c, n)
  BY <1>1, <1>4, TotalSame
<1> QED
  BY <1>2, <1>3, <1>5

(* SumRower: the sum of all cells. *)
LEMMA SumsMapped ==
  ASSUME Built, Mapped, phase = "done", rower = "sum", NEW n, n = NRows(copy),
         NEW cells, InOrder(cells, copy, n)
  PROVE  result[0].sum = FoldLeft(AddCell, 0, cells)
<1>1. n \in Nat /\ WellFormed(copy) /\ Sized(copy) /\ rower \in Rowers /\ Suits(rower, copy)
  BY CopyKnown DEF Mapped, Dealing, Team
<1>2. PICK w : Wanted(rower, w)
  BY DEF Wanted
<1>3. PICK c : c = [i \in 1..n |-> Due(rower, w, Row(copy, i)[1])]
  OBVIOUS
<1>4. Amount(rower, w, result[0]) = Total(c, n)
  BY <1>2, <1>3, AllEarned
<1>5. \A i \in 1..n : Row(copy, i)[1] \in Optional(TypeFor(rower))
  <2>1. rower \in {"sum", "count"}
    OBVIOUS
  <2> QED
    BY <1>1, <2>1, FirstCell
<1>6. \A i \in 1..n : c[i] \in Int
  BY <1>2, <1>3, <1>5, DueTyped
<1>7. \A i \in 1..n : c[i] = Worth(cells[i])
  BY <1>3 DEF Due, InOrder
<1>8. \A i \in 1..n : Worth(cells[i]) \in Int
  BY <1>6, <1>7
<1>9. FoldLeft(AddCell, 0, cells) = Total(c, n)
  <2>1. DOMAIN cells = 1..n
    BY DEF InOrder
  <2> QED
    BY <1>1, <1>7, <1>8, <2>1, CellsAddUp
<1> QED
  BY <1>4, <1>9 DEF Amount

(* CounterRower: the number of each word. *)
LEMMA WordsMapped ==
  ASSUME Built, Mapped, phase = "done", rower = "count", NEW w \in Values[CharS], NEW n, n = NRows(copy),
         NEW cells, InOrder(cells, copy, n)
  PROVE  result[0].words[w] = Occurrences(w, cells)
<1>1. n \in Nat /\ WellFormed(copy) /\ Sized(copy) /\ rower \in Rowers /\ Suits(rower, copy)
  BY CopyKnown DEF Mapped, Dealing, Team
<1>2. Wanted(rower, w)
  BY DEF Wanted
<1>3. PICK c : c = [i \in 1..n |-> Due(rower, w, Row(copy, i)[1])]
  OBVIOUS
<1>4. Amount(rower, w, result[0]) = Total(c, n)
  BY <1>2, <1>3, AllEarned
<1>5. Hits(c, w, cells, n)
  BY <1>3 DEF Due, Hits, InOrder
<1>8. Occurrences(w, cells) = Total(c, n)
  <2>1. cells = UpTo(cells, n)
    BY DEF InOrder
  <2> QED
    BY <1>1, <1>5, <2>1, CellsCounted
<1> QED
  BY <1>4, <1>8 DEF Amount

(* IntSetGenerator: the ints of all rows. *)
LEMMA SetMapped ==
  ASSUME Built, Mapped, phase = "done", rower = "set", NEW n, n = NRows(copy),
         NEW cells, InOrder(cells, copy, n)
  PROVE  gen.set = ToSet(cells)
<1>1. \A t \in Thread : todo[t] = <<>>
  BY DEF Mapped, Dealing, Team
<1>2. \A x : ~InHand(x)
  BY <1>1 DEF InHand
<1>3. \A x : x \in gen.set <=> \E i \in 1..n : x = cells[i]
  <2>1. \A x : x \in gen.set \/ InHand(x) <=> \E i \in 1..n : visits[i] = 1 /\ x = Row(copy, i)[1]
    BY DEF Mapped, Collected
  <2>2. \A i \in 1..n : visits[i] = 1 /\ cells[i] = Row(copy, i)[1]
    BY AllVisited DEF InOrder
  <2> QED
    BY <1>2, <2>1, <2>2
<1> QED
  BY <1>3 DEF ToSet, InOrder

(* What a filter selects from each row. *)
Selected(f, n) == [i \in 1..n |-> Additions(rower, lookup, Row(f, i))]

(* The filters: what they select from the rows. *)
LEMMA FiltersMapped ==
  ASSUME Built, Mapped, phase = "done", rower \in {"projects", "uuids", "names"}, NEW n, n = NRows(copy),
         NEW parts, parts = Selected(copy, n),
         NEW added, added = FlattenSeq(parts), NEW found, found = Contents(gen.df)[1]
  PROVE  /\ Len(found) = Len(added)
         /\ \A v : Occurrences(v, found) = Occurrences(v, added)
<1>1. n \in Nat /\ WellFormed(copy) /\ Sized(copy) /\ rower \in Rowers /\ Suits(rower, copy)
  BY CopyKnown DEF Mapped, Dealing, Team
<1>2. \A t \in Thread : todo[t] = <<>>
  BY DEF Mapped, Dealing, Team
<1>3. Typed
  BY DEF Mapped
<1>4. PICK S : S = Optional(GenType(rower))
  OBVIOUS
<1>5. found = Cells(gen.df.columns[1])
  <2>1. WellFormed(gen.df) /\ Len(gen.df.types) = 1
    BY <1>3 DEF Typed
  <2>2. DOMAIN gen.df.columns = 1..1
    BY <2>1, FrameIndices
  <2> QED
    BY <2>2 DEF Contents
<1>6. found \in Seq(S) /\ \A V : Count(V, found) \in Int
  BY <1>3, <1>4, <1>5, GenCounted
<1>7. parts \in Seq(Seq(S)) /\ Len(parts) = n
  <2>1. \A i \in 1..n : Additions(rower, lookup, Row(copy, i)) \in Seq(S)
    BY <1>1, <1>4, AdditionsTyped
  <2> QED
    BY <1>1, <2>1 DEF Selected
<1>8. added \in Seq(S) /\ \A V : Count(V, found) = Count(V, added)
  <2>1. ASSUME NEW V
        PROVE  added \in Seq(S) /\ Count(V, found) = Count(V, added)
    <3>1. PICK c : c = [i \in 1..n |-> Count(V, parts[i])]
      OBVIOUS
    <3>2. Count(V, added) = Total(c, n) /\ added \in Seq(S)
      <4>1. n = Len(parts) /\ Counts(c, V, parts, n)
        BY <1>7, <3>1 DEF Counts
      <4>2. Count(V, FlattenSeq(parts)) = Total(c, n) /\ FlattenSeq(parts) \in Seq(S)
        BY <1>7, <4>1, CountFlatten
      <4> QED
        BY <4>2
    <3>3. PICK f, p : f = Waiting(V, todo) /\ p = Granted(V, rower, lookup, copy, visits)
      OBVIOUS
    <3>4. Count(V, found) + Total(f, MaxThreads) = Total(p, n)
      BY <1>5, <3>3 DEF Mapped, Filtered
    <3>5. Total(f, MaxThreads) = 0
      <4>1. MaxThreads \in Nat /\ \A t \in 1..MaxThreads : t - 1 \in Thread
        BY MapAssumption DEF Thread
      <4>2. \A t \in 1..MaxThreads : f[t] = 0
        BY <1>2, <3>3, <4>1, CountEmpty DEF Waiting
      <4> QED
        BY <4>1, <4>2, NothingAdded
    <3>6. Total(p, n) = Total(c, n)
      <4>1. \A i \in 1..n : p[i] = c[i]
        BY <3>1, <3>3, AllVisited DEF Granted, Selected
      <4> QED
        BY <1>1, <4>1, TotalSame
    <3>7. Count(V, found) \in Int
      BY <1>6
    <3> QED
      BY <3>2, <3>4, <3>5, <3>6, <3>7
  <2> QED
    BY <2>1
<1>9. Len(found) = Len(added)
  <2>1. Count(S, found) = Len(found) /\ Count(S, added) = Len(added)
    BY <1>6, <1>8, CountAll
  <2> QED
    BY <1>8, <2>1
<1>10. ASSUME NEW v
       PROVE  Occurrences(v, found) = Occurrences(v, added)
  <2>1. \A s : {i \in DOMAIN s : s[i] \in {v}} = {i \in DOMAIN s : s[i] = v}
    OBVIOUS
  <2>2. \A s : Occurrences(v, s) = Count({v}, s)
    BY <2>1 DEF Count, Occurrences
  <2> QED
    BY <1>8, <2>2
<1> QED
  BY <1>9, <1>10

(* The rows of the rowers that look at one cell of each row. *)
LEMMA SingleCells ==
  ASSUME NEW r \in Rowers, NEW f, Suits(r, f), WellFormed(f), Sized(f), r \in {"sum", "count", "set"},
         NEW n, n = NRows(f), NEW rows, rows = [i \in 1..n |-> Row(f, i)],
         NEW cells, cells = FlattenSeq(rows)
  PROVE  InOrder(cells, f, n)
<1>1. Single(f, n)
  BY FirstCell DEF Single
<1>2. n \in Nat
  BY DEF Sized
<1> QED
  BY <1>1, <1>2, CellsInOrder

(* What pmap gives is what map gives. *)
DoneAs(cells, added, found) ==
  CASE rower = "sum"   -> result[0].sum = FoldLeft(AddCell, 0, cells)
    [] rower = "count" -> \A w \in Values[CharS] : result[0].words[w] = Occurrences(w, cells)
    [] rower = "set"   -> gen.set = ToSet(cells)
    [] rower = "print" -> TRUE
    [] OTHER -> /\ Len(found) = Len(added)
                /\ \A v \in ToSet(added) : Occurrences(v, found) = Occurrences(v, added)

(* The names that MergedAsMapped gives to what it is about. *)
Named(n, cells, added, found) ==
  LET rows == [i \in 1..n |-> Row(copy, i)]
  IN  /\ n = NRows(copy)
      /\ cells = FlattenSeq(rows)
      /\ added = FlattenSeq([i \in DOMAIN rows |-> Additions(rower, lookup, rows[i])])
      /\ found = Contents(gen.df)[1]

(* When pmap is done, the result is that of map. *)
LEMMA DoneMapped ==
  ASSUME Built, Mapped, phase = "done",
         NEW n, NEW cells, NEW added, NEW found, Named(n, cells, added, found)
  PROVE  DoneAs(cells, added, found)
<1>1. WellFormed(copy) /\ Sized(copy) /\ rower \in Rowers /\ Suits(rower, copy)
  BY CopyKnown DEF Mapped, Dealing, Team
<1>2. n = NRows(copy) /\ found = Contents(gen.df)[1]
  BY DEF Named
<1>3. rower \in {"sum", "count", "set"} => InOrder(cells, copy, n)
  <2>1. PICK rows : rows = [i \in 1..n |-> Row(copy, i)] /\ cells = FlattenSeq(rows)
    BY DEF Named
  <2> QED
    BY <1>1, <1>2, <2>1, SingleCells
<1>4. CASE rower = "sum"
  <2>1. result[0].sum = FoldLeft(AddCell, 0, cells)
    BY <1>2, <1>3, <1>4, SumsMapped
  <2> QED
    BY <1>4, <2>1 DEF DoneAs
<1>5. CASE rower = "count"
  <2>1. \A w \in Values[CharS] : result[0].words[w] = Occurrences(w, cells)
    BY <1>2, <1>3, <1>5, WordsMapped
  <2> QED
    BY <1>5, <2>1 DEF DoneAs
<1>6. CASE rower = "set"
  <2>1. gen.set = ToSet(cells)
    BY <1>2, <1>3, <1>6, SetMapped
  <2> QED
    BY <1>6, <2>1 DEF DoneAs
<1>7. CASE rower \in {"projects", "uuids", "names"}
  <2>1. PICK parts : parts = Selected(copy, n)
    OBVIOUS
  <2>2. added = FlattenSeq(parts)
    BY <2>1 DEF Named, Selected
  <2>3. Len(found) = Len(added) /\ \A v : Occurrences(v, found) = Occurrences(v, added)
    BY <1>2, <1>7, <2>1, <2>2, FiltersMapped
  <2> QED
    BY <1>7, <2>3 DEF DoneAs
<1>8. CASE rower = "print"
  BY <1>8 DEF DoneAs
<1> QED
  BY <1>1, <1>4, <1>5, <1>6, <1>7, <1>8, MapAssumption

(* The result of pmap is that of map, whatever the threads, and nothing    *)
(* but a rower that does not clone aborts (dataframe.cpp:271-316).         *)
THEOREM PmapIsMap == Spec => []MergedAsMapped
<1>1. IInv => MergedAsMapped
  <2> SUFFICES ASSUME IInv
               PROVE  MergedAsMapped
    OBVIOUS
  <2>1. phase \in {"done", "aborted"} => Built /\ Mapped
    BY DEF IInv, Idle, Before
  <2>2. phase = "aborted" => rower = "print"
    BY <2>1 DEF Mapped, Dealing, Team
  <2>3. ASSUME phase = "done",
               NEW n, NEW cells, NEW added, NEW found, Named(n, cells, added, found)
        PROVE  DoneAs(cells, added, found)
    BY <2>1, <2>3, DoneMapped
  <2> QED
    BY <2>2, <2>3 DEF MergedAsMapped, Named, DoneAs
<1> QED
  BY <1>1, AlwaysIInv, PTL

----------------------------------------------------------------------------
(* The table that a frame is to its users. *)

(* t is s with one element more. *)
Grown(s, t) == Len(t) = Len(s) + 1 /\ ATable!IsPrefix(s, t)

(* A sequence that agrees with s and is longer by one has grown. *)
LEMMA OneMore ==
  ASSUME NEW S, NEW s \in Seq(S), NEW t \in Seq(S), NEW n \in Nat, n = Len(s), Len(t) = n + 1,
         \A i \in 1..n : t[i] = s[i]
  PROVE  Grown(s, t)
<1>1. PICK a, b : a = SubSeq(s, 1, n) /\ b = SubSeq(t, 1, n)
  OBVIOUS
<1>2. a \in Seq(S) /\ b \in Seq(S) /\ Len(a) = n /\ Len(b) = n /\ \A i \in 1..n : a[i] = s[i] /\ b[i] = t[i]
  BY <1>1
<1>3. \A i \in 1..n : a[i] = b[i]
  BY <1>2
<1>4. a = b
  BY <1>2, <1>3, SeqEqual
<1> QED
  BY <1>1, <1>4 DEF Grown, ATable!IsPrefix

(* The table of a frame has a column of cells for each column. *)
LEMMA TableOfFrame ==
  ASSUME NEW f, WellFormed(f), NEW n, n = Len(f.types), NEW tab, tab = Contents(f)
  PROVE  DOMAIN tab = 1..n /\ \A c \in 1..n : tab[c] = Cells(f.columns[c])
<1>1. n \in Nat /\ DOMAIN f.columns = 1..n
  BY FrameIndices
<1>2. tab = [c \in 1..n |-> Cells(f.columns[c])]
  BY <1>1 DEF Contents
<1> QED
  BY <1>1, <1>2

(* What add_column adds to the table. *)
LEMMA TableWidens ==
  ASSUME NEW f, WellFormed(f), Sized(f), NEW n, n = Len(f.types),
         NEW type \in Types, NEW col, ColumnOf(type, col),
         n = 0 \/ Size(col) = NRows(f), NEW new, new = WithColumn(f, col)
  PROVE  Grown(Contents(f), Contents(new))
<1>1. PICK a, b : a = Contents(f) /\ b = Contents(new)
  OBVIOUS
<1>2. /\ WellFormed(new) /\ DOMAIN new.columns = 1..(n + 1)
      /\ \A c \in 1..n : new.columns[c] = f.columns[c]
  BY ColumnAdded
<1>3. /\ n \in Nat /\ DOMAIN a = 1..n /\ a = [c \in 1..n |-> a[c]]
      /\ \A c \in 1..n : a[c] = Cells(f.columns[c])
  <2>1. n \in Nat /\ DOMAIN f.columns = 1..n
    BY FrameIndices
  <2>2. a = [c \in 1..n |-> Cells(f.columns[c])]
    BY <1>1, <2>1 DEF Contents
  <2> QED
    BY <2>1, <2>2
<1>4. DOMAIN b = 1..(n + 1) /\ b = [c \in 1..(n + 1) |-> b[c]] /\ \A c \in 1..n : b[c] = a[c]
  <2>1. b = [c \in 1..(n + 1) |-> Cells(new.columns[c])]
    BY <1>1, <1>2 DEF Contents
  <2>2. \A c \in 1..n : c \in 1..(n + 1)
    BY <1>3
  <2> QED
    BY <1>2, <1>3, <2>1, <2>2
<1>5. PICK S : S = {a[c] : c \in 1..n} \cup {b[c] : c \in 1..(n + 1)}
  OBVIOUS
<1>6. a \in Seq(S) /\ Len(a) = n
  <2>1. \A c \in 1..n : a[c] \in S
    BY <1>5
  <2> QED
    BY <1>3, <2>1
<1>7. b \in Seq(S) /\ Len(b) = n + 1
  <2>1. PICK k \in Nat : k = n + 1
    BY <1>3
  <2>2. b = [c \in 1..k |-> b[c]] /\ \A c \in 1..k : b[c] \in S
    BY <1>4, <1>5, <2>1
  <2>3. b \in Seq(S) /\ Len(b) = k
    BY <2>2
  <2> QED
    BY <2>1, <2>3
<1>8. Grown(a, b)
  BY <1>3, <1>4, <1>6, <1>7, OneMore
<1> QED
  BY <1>1, <1>8

(* Each column has the cell of the row at its end. *)
AllGrown(a, b) == DOMAIN b = DOMAIN a /\ \A c \in DOMAIN a : Grown(a[c], b[c])

(* push_back adds one cell to a column. *)
LEMMA CellsGrown ==
  ASSUME NEW type \in Types, NEW col, ColumnOf(type, col), NEW v \in Optional(type),
         NEW new, new = PushBack(col, v)
  PROVE  Grown(Cells(col), Cells(new))
<1>1. PICK s, t, S : s = Cells(col) /\ t = Append(s, v) /\ S = Optional(type)
  OBVIOUS
<1>2. Cells(new) = t /\ s \in Seq(S)
  BY <1>1, CellsPushed
<1>3. PICK n \in Nat : n = Len(s)
  BY <1>2, LenProperties
<1>4. t \in Seq(S) /\ Len(t) = n + 1 /\ \A i \in 1..n : t[i] = s[i]
  BY <1>1, <1>2, <1>3, Appended
<1>5. Grown(s, t)
  BY <1>2, <1>3, <1>4, OneMore
<1> QED
  BY <1>1, <1>2, <1>5

(* What add_row adds to the table. *)
LEMMA TableLengthens ==
  ASSUME NEW f, WellFormed(f), Sized(f), NEW n, n = Len(f.types),
         NEW row, RowOf(f.types, n, row), NEW new, new = AddRow(f, row)
  PROVE  AllGrown(Contents(f), Contents(new))
<1>1. PICK a, b : a = Contents(f) /\ b = Contents(new)
  OBVIOUS
<1>2. WellFormed(new) /\ new.types = f.types /\ \A c \in 1..n : new.columns[c] = PushBack(f.columns[c], row[c])
  BY RowAdded
<1>3. DOMAIN a = 1..n /\ \A c \in 1..n : a[c] = Cells(f.columns[c])
  BY <1>1, TableOfFrame
<1>4. DOMAIN b = 1..n /\ \A c \in 1..n : b[c] = Cells(new.columns[c])
  <2>1. WellFormed(new) /\ n = Len(new.types)
    BY <1>2
  <2> QED
    BY <1>1, <2>1, TableOfFrame
<1>5. ASSUME NEW c \in 1..n
      PROVE  Grown(a[c], b[c])
  <2>1. PICK type, col, v, col1 : type = f.types[c] /\ col = f.columns[c] /\ v = row[c] /\ col1 = new.columns[c]
    OBVIOUS
  <2>2. type \in Types /\ ColumnOf(type, col)
    BY <2>1, ElementOfSeq DEF WellFormed
  <2>3. v \in Optional(type) /\ col1 = PushBack(col, v)
    BY <1>2, <2>1 DEF RowOf
  <2>4. Grown(Cells(col), Cells(col1))
    BY <2>2, <2>3, CellsGrown
  <2> QED
    BY <1>3, <1>4, <2>1, <2>4
<1>6. AllGrown(a, b)
  BY <1>3, <1>4, <1>5 DEF AllGrown
<1> QED
  BY <1>1, <1>6

(* One cell of b may differ from that of a. *)
OneCell(a, b) ==
  \E c \in DOMAIN a : \E r \in DOMAIN a[c] : b = [a EXCEPT ![c][r] = b[c][r]]

(* What set changes in the table. *)
LEMMA TableChanges ==
  ASSUME NEW f, WellFormed(f), Sized(f), NEW n, n = Len(f.types),
         NEW m, m = NRows(f), NEW c \in 1..n, NEW r \in 1..m, NEW v \in Optional(f.types[c]),
         NEW new, new = CellChanged(f, c, r, v)
  PROVE  OneCell(Contents(f), Contents(new))
<1>1. PICK a, b : a = Contents(f) /\ b = Contents(new)
  OBVIOUS
<1>2. PICK type, col, col1 : type = f.types[c] /\ col = f.columns[c] /\ col1 = Set(col, r, v)
  OBVIOUS
<1>3. /\ n \in Nat /\ type \in Types /\ ColumnOf(type, col) /\ Size(col) = m
      /\ DOMAIN f.columns = 1..n
  BY <1>2, FrameIndices, ElementOfSeq DEF WellFormed, Sized
<1>4. /\ WellFormed(new) /\ new.types = f.types
      /\ new.columns = [d \in 1..n |-> IF d = c THEN col1 ELSE f.columns[d]]
  BY <1>2, CellSet
<1>5. /\ m \in Nat /\ Size(col1) = m /\ Get(col1, r) = v
      /\ \A i \in 1..m : i # r => Get(col1, i) = Get(col, i)
  BY <1>2, <1>3, SetTyped
<1>6. a = [d \in 1..n |-> Cells(f.columns[d])]
  BY <1>1, <1>3 DEF Contents
<1>7. b = [d \in 1..n |-> IF d = c THEN Cells(col1) ELSE Cells(f.columns[d])]
  BY <1>1, <1>4 DEF Contents
<1>8. Cells(col) = [i \in 1..m |-> Get(col, i)] /\ Cells(col1) = [i \in 1..m |-> Get(col1, i)]
  BY <1>3, <1>5 DEF Cells
<1>9. Cells(col1) = [Cells(col) EXCEPT ![r] = v]
  BY <1>5, <1>8
<1>10. a[c] = Cells(col) /\ b[c] = Cells(col1) /\ DOMAIN a = 1..n /\ DOMAIN a[c] = 1..m /\ b[c][r] = v
  BY <1>2, <1>5, <1>6, <1>7, <1>8
<1>11. b = [a EXCEPT ![c] = Cells(col1)]
  BY <1>6, <1>7
<1>12. b = [a EXCEPT ![c] = [@ EXCEPT ![r] = b[c][r]]]
  BY <1>9, <1>10, <1>11
<1>13. OneCell(a, b)
  BY <1>10, <1>12 DEF OneCell
<1> QED
  BY <1>1, <1>13

(* A frame without rows is a table of empty columns. *)
LEMMA TableBegins ==
  ASSUME NEW types \in Seq(Types), NEW tab, tab = Contents(Frame(types))
  PROVE  (\A c \in DOMAIN tab : tab[c] = <<>>) /\ (types = <<>> => tab = <<>>)
<1>1. PICK f, n : f = Frame(types) /\ n = Len(types)
  OBVIOUS
<1>2. WellFormed(f) /\ Sized(f) /\ NRows(f) = 0
  BY <1>1, FreshFrame
<1>3. f.types = types
  BY <1>1 DEF Frame
<1>4. n \in Nat /\ DOMAIN f.columns = 1..n
  BY <1>1, <1>2, <1>3, FrameIndices
<1>5. tab = [c \in 1..n |-> Cells(f.columns[c])]
  BY <1>1, <1>4 DEF Contents
<1>6. \A c \in 1..n : Cells(f.columns[c]) = <<>>
  <2>1. \A c \in 1..n : Size(f.columns[c]) = 0
    BY <1>1, <1>2, <1>3 DEF Sized
  <2>2. \A col : Size(col) = 0 => Cells(col) = <<>>
    BY DEF Cells
  <2> QED
    BY <2>1, <2>2
<1>7. types = <<>> => tab = <<>>
  <2>1. types = <<>> => n = 0
    BY <1>1
  <2>2. n = 0 => [c \in 1..n |-> Cells(f.columns[c])] = <<>>
    OBVIOUS
  <2> QED
    BY <1>5, <2>1, <2>2
<1> QED
  BY <1>4, <1>5, <1>6, <1>7

----------------------------------------------------------------------------
(* Every step is one of Table. *)

(* What a step of a table is, of its columns alone. *)
Begins(a, b) == a = <<>> /\ \A c \in DOMAIN b : b[c] = <<>>
Changes(a, b) == Begins(a, b) \/ Grown(a, b) \/ AllGrown(a, b) \/ OneCell(a, b)

(* A copy is on another node once it is read. *)
Unread == phase \in {"new", "rows", "columns", "stored"}

(* A step of the construction changes the table as one of its operations   *)
(* does, or leaves it alone, as long as nothing is read.                   *)
LEMMA BuildChanges ==
  ASSUME Built, Build, phase # "stored"
  PROVE  Unread /\ copy' = copy /\ (Changes(Contents(frame), Contents(frame')) \/ frame' = frame)
<1>1. PICK n : n = Len(frame.types)
  OBVIOUS
<1>2. /\ WellFormed(frame) /\ Sized(frame) /\ ColumnBuilt(column)
      /\ frame.types \in Seq(Types) /\ n \in Nat /\ DOMAIN frame.columns = 1..n
      /\ (n = 0 <=> frame.columns = <<>>)
  BY <1>1, FrameIndices DEF Built, WellFormed
<1>3. ASSUME NEW types \in Schemas, InitializeSchema(types)
      PROVE  Unread /\ copy' = copy /\ Begins(Contents(frame), Contents(frame'))
  <2>1. phase = "new" /\ frame' = Frame(types) /\ copy' = copy
    BY <1>3 DEF InitializeSchema
  <2>2. frame = Frame(<<>>)
    BY <2>1 DEF Built
  <2>3. PICK a, b : a = Contents(frame) /\ b = Contents(frame')
    OBVIOUS
  <2>4. types \in Seq(Types) /\ <<>> \in Seq(Types)
    BY FrameAssumption, EmptySeq
  <2>5. a = <<>>
    BY <2>2, <2>3, <2>4, TableBegins
  <2>6. \A c \in DOMAIN b : b[c] = <<>>
    BY <2>1, <2>3, <2>4, TableBegins
  <2> QED
    BY <2>1, <2>3, <2>5, <2>6 DEF Begins, Unread
<1>4. ASSUME NEW row \in Rows(frame.types), ParseRow(row)
      PROVE  Unread /\ copy' = copy /\ AllGrown(Contents(frame), Contents(frame'))
  <2>1. phase = "rows" /\ frame' = AddRow(frame, row) /\ copy' = copy
    BY <1>4 DEF ParseRow
  <2>2. RowOf(frame.types, n, row)
    BY <1>1, <1>2, RowsTyped
  <2>3. AllGrown(Contents(frame), Contents(frame'))
    BY <1>1, <1>2, <2>1, <2>2, TableLengthens
  <2> QED
    BY <2>1, <2>3 DEF Unread
<1>5. ASSUME AddColumn
      PROVE  Unread /\ copy' = copy /\ Grown(Contents(frame), Contents(frame'))
  <2>1. /\ phase = "columns" /\ column # None /\ (frame.columns = <<>> \/ Size(column) = NRows(frame))
        /\ frame' = WithColumn(frame, column) /\ copy' = copy
    BY <1>5 DEF AddColumn
  <2>2. PICK type \in Types : ColumnOf(type, column)
    BY <1>2, <2>1 DEF ColumnBuilt
  <2>3. n = 0 \/ Size(column) = NRows(frame)
    BY <1>2, <2>1
  <2>4. Grown(Contents(frame), Contents(frame'))
    BY <1>1, <1>2, <2>1, <2>2, <2>3, TableWidens
  <2> QED
    BY <2>1, <2>4 DEF Unread
<1>6. ASSUME NEW c \in DOMAIN frame.columns, NEW r \in 1..NRows(frame),
             NEW v \in Optional(frame.types[c]), SetCell(c, r, v)
      PROVE  Unread /\ copy' = copy /\ OneCell(Contents(frame), Contents(frame'))
  <2>1. phase \in {"rows", "columns"} /\ frame' = CellChanged(frame, c, r, v) /\ copy' = copy
    BY <1>6 DEF SetCell, CellChanged
  <2>2. c \in 1..n
    BY <1>2
  <2>3. PICK m : m = NRows(frame) /\ r \in 1..m
    OBVIOUS
  <2>4. OneCell(Contents(frame), Contents(frame'))
    BY <1>1, <1>2, <2>1, <2>2, <2>3, TableChanges
  <2> QED
    BY <2>1, <2>4 DEF Unread
<1>7. ASSUME \/ \E type : NewColumn(type)
             \/ \E v : FillColumn(v)
             \/ Store
      PROVE  Unread /\ copy' = copy /\ frame' = frame
  BY <1>7 DEF NewColumn, FillColumn, Store, Unread
<1>8. ~ReadRemotely
  BY DEF ReadRemotely
<1> QED
  BY <1>3, <1>4, <1>5, <1>6, <1>7, <1>8 DEF Build, Changes

(* No step of a map changes the frame or its copy. *)
LEMMA MapLeaves ==
  ASSUME [Next]_vars, ~Build
  PROVE  frame' = frame /\ copy' = copy
<1>1. ASSUME NEW r, NEW s, Start(r, s)
      PROVE  frame' = frame /\ copy' = copy
  BY <1>1 DEF Start
<1>2. ASSUME NEW t, Turn(t)
      PROVE  frame' = frame /\ copy' = copy
  BY <1>2 DEF Turn, Accept, Lock, Add, frameVars
<1>3. Merge \/ Finish \/ UNCHANGED vars => frame' = frame /\ copy' = copy
  BY DEF Merge, Finish, vars, frameVars
<1> QED
  BY <1>1, <1>2, <1>3 DEF Next

(* What another node reads is the table. *)
Shown(c) == IF c = None THEN Null ELSE Contents(c)

(* Every step is one of Table or none. *)
LEMMA TableStep ==
  ASSUME Built, [Next]_vars
  PROVE  [Shown(copy) = Null /\ ATable!Next]_<<Contents(frame), Shown(copy)>>
<1>1. CASE frame' = frame /\ copy' = copy
  BY <1>1
<1>2. CASE Build /\ phase # "stored"
  <2>1. Unread /\ copy' = copy /\ (Changes(Contents(frame), Contents(frame')) \/ frame' = frame)
    BY <1>2, BuildChanges
  <2>2. copy = None
    BY <2>1 DEF Built, CopyBuilt, Unread, Begun
  <2>3. Shown(copy) = Null /\ Shown(copy)' = Shown(copy)
    BY <2>1, <2>2 DEF Shown
  <2>4. CASE Changes(Contents(frame), Contents(frame'))
    <3>1. CASE Begins(Contents(frame), Contents(frame'))
      <4>1. ATable!NewTable
        BY <2>3, <3>1 DEF ATable!NewTable, Begins, Shown
      <4> QED
        BY <2>3, <4>1 DEF ATable!Next
    <3>2. CASE Grown(Contents(frame), Contents(frame'))
      <4>1. ATable!AddColumn
        BY <2>3, <3>2 DEF ATable!AddColumn, Grown, Shown
      <4> QED
        BY <2>3, <4>1 DEF ATable!Next
    <3>3. CASE AllGrown(Contents(frame), Contents(frame'))
      <4>1. ATable!AddRow
        BY <2>3, <3>3 DEF ATable!AddRow, AllGrown, Grown, Shown
      <4> QED
        BY <2>3, <4>1 DEF ATable!Next
    <3>4. CASE OneCell(Contents(frame), Contents(frame'))
      <4>1. ATable!SetCell
        BY <2>3, <3>4 DEF ATable!SetCell, OneCell, Shown
      <4> QED
        BY <2>3, <4>1 DEF ATable!Next
    <3> QED
      BY <2>4, <3>1, <3>2, <3>3, <3>4 DEF Changes
  <2> QED
    BY <1>1, <2>1, <2>4
<1>3. CASE Build /\ phase = "stored"
  <2>1. ReadRemotely
    BY <1>3 DEF Build, InitializeSchema, ParseRow, NewColumn, FillColumn, AddColumn, SetCell, Store
  <2>2. copy' = Read(Pack(frame), 1).val /\ frame' = frame
    BY <2>1 DEF ReadRemotely
  <2>3. WellFormed(frame) /\ copy = None
    BY <1>3 DEF Built, CopyBuilt, Begun
  <2>4. copy' = frame /\ frame # None
    BY <2>2, <2>3, SentIsRead, NoneIsNothing
  <2>5. Shown(copy) = Null /\ Shown(copy)' = Contents(frame) /\ Contents(frame)' = Contents(frame)
    BY <2>2, <2>3, <2>4 DEF Shown
  <2>6. ATable!Read
    BY <2>5 DEF ATable!Read, Shown
  <2> QED
    BY <2>5, <2>6 DEF ATable!Next
<1> QED
  BY <1>1, <1>2, <1>3, MapLeaves

(* To its users a frame is a table: the initial states are those of Table, *)
(* and every step of the construction, of the copy and of a map is a step  *)
(* of Table or none.                                                       *)
THEOREM FramesAreTables == Spec => ImplementsTable
<1>1. Init => ATable!Init
  <2> SUFFICES ASSUME Init
               PROVE  ATable!Init
    OBVIOUS
  <2>1. frame = Frame(<<>>) /\ copy = None
    BY DEF Init, FrameInit
  <2>2. Contents(Frame(<<>>)) = <<>>
    <3>1. PICK types, tab : types = <<>> /\ tab = Contents(Frame(types))
      OBVIOUS
    <3>2. types \in Seq(Types)
      BY <3>1, EmptySeq
    <3>3. tab = <<>>
      BY <3>1, <3>2, TableBegins
    <3> QED
      BY <3>1, <3>3
  <2> QED
    BY <2>1, <2>2 DEF ATable!Init
<1>2. Built /\ [Next]_vars => [Shown(copy) = Null /\ ATable!Next]_<<Contents(frame), Shown(copy)>>
  BY TableStep
<1>3. Built /\ [Next]_vars => [(IF copy = None THEN Null ELSE Contents(copy)) = Null /\ ATable!Next]_<<Contents(frame), IF copy = None THEN Null ELSE Contents(copy)>>
  BY <1>2 DEF Shown
<1> QED
  BY <1>1, <1>3, AlwaysBuilt, PTL DEF Spec, ImplementsTable, ATable!Spec

=============================================================================
