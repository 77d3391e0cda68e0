--------------------------- MODULE Framing_proofs ---------------------------
(***************************************************************************)
(* Proofs about Framing, for any packets, any buffer of at least two       *)
(* units, any socket and any splitting of the stream.                      *)
(***************************************************************************)
EXTENDS Framing, SequenceTheorems, InductionLemmas, TLAPS

----------------------------------------------------------------------------
(* Concatenation of units, as an operator the provers do not look into.    *)

Units == Seq(Nat)
Cat(a, b) == a \o b

(* Streams of units under concatenation: length,                            *)
LEMMA CatType ==
  ASSUME NEW a \in Units, NEW b \in Units
  PROVE  Cat(a, b) \in Units /\ Len(Cat(a, b)) = Len(a) + Len(b)
BY ConcatProperties DEF Cat, Units

(* associativity,                                                           *)
LEMMA CatAssoc ==
  ASSUME NEW a \in Units, NEW b \in Units, NEW c \in Units
  PROVE  Cat(Cat(a, b), c) = Cat(a, Cat(b, c))
BY ConcatAssociative DEF Cat, Units

(* and the empty stream.                                                    *)
LEMMA CatEmpty ==
  ASSUME NEW a \in Units
  PROVE  Cat(a, <<>>) = a /\ Cat(<<>>, a) = a
BY ConcatEmptySeq DEF Cat, Units

(* A unit of a concatenation. *)
LEMMA CatAt ==
  ASSUME NEW a \in Units, NEW b \in Units, NEW i \in 1..(Len(a) + Len(b))
  PROVE  Cat(a, b)[i] = IF i <= Len(a) THEN a[i] ELSE b[i - Len(a)]
BY ConcatProperties DEF Cat, Units

(* Only the empty stream has no units.                                      *)
LEMMA UnitsLen ==
  ASSUME NEW a \in Units
  PROVE  Len(a) \in Nat /\ (Len(a) = 0 <=> a = <<>>)
BY LenProperties, EmptySeq DEF Units

(* Equal concatenations with first parts of equal length have equal parts. *)
LEMMA CatCancel ==
  ASSUME NEW a \in Units, NEW b \in Units, NEW c \in Units, NEW d \in Units,
         Cat(a, b) = Cat(c, d), Len(a) = Len(c)
  PROVE  a = c /\ b = d
<1>1. Len(a) \in Nat /\ Len(b) \in Nat /\ Len(d) \in Nat
  BY UnitsLen
<1>2. Len(b) = Len(d)
  <2>1. Len(Cat(a, b)) = Len(a) + Len(b)
    BY CatType
  <2>2. Len(Cat(c, d)) = Len(c) + Len(d)
    BY CatType
  <2> QED
    BY <2>1, <2>2, <1>1
<1>3. ASSUME NEW i \in 1..Len(a)
      PROVE  a[i] = c[i]
  <2>1. i \in 1..(Len(a) + Len(b)) /\ i \in 1..(Len(c) + Len(d)) /\ i <= Len(a)
    BY <1>1, <1>2
  <2>2. Cat(a, b)[i] = a[i]
    BY <2>1, CatAt
  <2>3. Cat(c, d)[i] = c[i]
    BY <2>1, CatAt
  <2> QED
    BY <2>2, <2>3
<1>4. ASSUME NEW i \in 1..Len(b)
      PROVE  b[i] = d[i]
  <2> DEFINE j == i + Len(a)
  <2>1. /\ j \in 1..(Len(a) + Len(b)) /\ j \in 1..(Len(c) + Len(d)) /\ ~(j <= Len(a))
        /\ j - Len(a) = i /\ ~(j <= Len(c)) /\ j - Len(c) = i
    BY <1>1, <1>2
  <2> HIDE DEF j
  <2>2. Cat(a, b)[j] = b[i]
    BY <2>1, CatAt
  <2>3. Cat(c, d)[j] = d[i]
    BY <2>1, CatAt
  <2> QED
    BY <2>2, <2>3
<1>5. a = c
  BY <1>3, SeqEqual DEF Units
<1>6. b = d
  BY <1>2, <1>4, SeqEqual DEF Units
<1> QED
  BY <1>5, <1>6

(* A sequence is the concatenation of its front and the rest. *)
LEMMA CatSplit ==
  ASSUME NEW s \in Units, NEW m \in 0..Len(s)
  PROVE  /\ SubSeq(s, 1, m) \in Units /\ Len(SubSeq(s, 1, m)) = m
         /\ SubSeq(s, m + 1, Len(s)) \in Units
         /\ Len(SubSeq(s, m + 1, Len(s))) = Len(s) - m
         /\ s = Cat(SubSeq(s, 1, m), SubSeq(s, m + 1, Len(s)))
<1>0. Len(s) \in Nat /\ m \in Nat /\ m <= Len(s)
  BY UnitsLen
<1>1. \A i \in 1..Len(s) : s[i] \in Nat
  BY ElementOfSeq DEF Units
<1>2. /\ SubSeq(s, 1, m) \in Units
      /\ Len(SubSeq(s, 1, m)) = IF 1 <= m THEN m - 1 + 1 ELSE 0
  BY <1>0, <1>1, SubSeqProperties DEF Units
<1>3. /\ SubSeq(s, m + 1, Len(s)) \in Units
      /\ Len(SubSeq(s, m + 1, Len(s))) = IF m + 1 <= Len(s) THEN Len(s) - (m + 1) + 1 ELSE 0
  BY <1>0, <1>1, SubSeqProperties DEF Units
<1>4. 1 \in 1..(Len(s) + 1) /\ m \in (1 - 1)..Len(s) /\ Len(s) \in m..Len(s)
  BY <1>0
<1>5. SubSeq(s, 1, m) \o SubSeq(s, m + 1, Len(s)) = SubSeq(s, 1, Len(s))
  BY <1>4, ConcatAdjacentSubSeq DEF Units
<1>6. SubSeq(s, 1, Len(s)) = s
  BY SubSeqFull DEF Units
<1>7. s = Cat(SubSeq(s, 1, m), SubSeq(s, m + 1, Len(s)))
  BY <1>5, <1>6 DEF Cat
<1>8. Len(SubSeq(s, 1, m)) = m
  BY <1>0, <1>2
<1>9. Len(SubSeq(s, m + 1, Len(s))) = Len(s) - m
  BY <1>0, <1>3
<1> QED
  BY <1>2, <1>3, <1>7, <1>8, <1>9

(* Beyond the end there is nothing left. *)
LEMMA PastEnd ==
  ASSUME NEW s \in Units, NEW m \in Nat
  PROVE  /\ SubSeq(s, m + 1, Len(s)) \in Units
         /\ Len(SubSeq(s, m + 1, Len(s))) <= Len(s)
         /\ Len(s) <= m => SubSeq(s, m + 1, Len(s)) = <<>>
<1>1. Len(s) \in Nat
  BY UnitsLen
<1>2. CASE m \in 0..Len(s)
  <2>1. /\ SubSeq(s, m + 1, Len(s)) \in Units
        /\ Len(SubSeq(s, m + 1, Len(s))) = Len(s) - m
    BY <1>2, CatSplit
  <2> QED
    BY <2>1, <1>1, <1>2, UnitsLen
<1>3. CASE m \notin 0..Len(s)
  <2>1. SubSeq(s, m + 1, Len(s)) = <<>>
    BY <1>1, <1>3, SubSeqEmpty
  <2>2. <<>> \in Units /\ Len(<<>>) <= Len(s)
    BY <1>1, EmptySeq DEF Units
  <2> QED
    BY <2>1, <2>2, Zenon
<1> QED
  BY <1>2, <1>3

(* What fitted before still fits. *)
LEMMA StillFits ==
  ASSUME NEW s \in Units, NEW m \in Nat, NEW cap \in Nat, Len(s) <= cap,
         NEW t, t = SubSeq(s, m + 1, Len(s))
  PROVE  t \in Units /\ Len(t) <= cap
<1>1. t \in Units /\ Len(t) <= Len(s)
  BY PastEnd
<1> QED
  BY <1>1, UnitsLen

----------------------------------------------------------------------------
(* Packets in units. *)

(* A packet is two units and its value. *)
LEMMA PackType ==
  ASSUME NEW ty \in Nat, NEW v \in Units
  PROVE  /\ <<ty, Len(v)>> \in Units /\ Len(<<ty, Len(v)>>) = 2
         /\ \A l \in Nat : <<ty, l>> \in Units /\ Len(<<ty, l>>) = 2
BY UnitsLen DEF Units

(* pack is type, length and value, in this order.                           *)
LEMMA PacketUnits ==
  ASSUME NEW p \in Packets
  PROVE  /\ p.type \in Nat /\ p.value \in Units
         /\ p = [type |-> p.type, value |-> p.value]
         /\ Pack(p) = Cat(<<p.type, Len(p.value)>>, p.value)
         /\ Pack(p) \in Units /\ Len(Pack(p)) = 2 + Len(p.value)
<1>1. /\ p.type \in Nat /\ p.value \in Units
      /\ p = [type |-> p.type, value |-> p.value]
  BY FramingAssumption DEF Plain, Ask, Units
<1>2. Pack(p) = Cat(<<p.type, Len(p.value)>>, p.value)
  BY DEF Pack, Cat
<1>3. <<p.type, Len(p.value)>> \in Units /\ Len(<<p.type, Len(p.value)>>) = 2
  BY <1>1, PackType
<1> QED
  BY <1>1, <1>2, <1>3, CatType

(* What is behind the first k packets of ps, one after the other. *)
Packed(g, ps, m) ==
  /\ g[1] = Pack(ps[1])
  /\ \A i \in Nat \ {0} : i < m => g[i + 1] = Cat(g[i], Pack(ps[i + 1]))

(* The recursive function in FlattenSeq is defined. *)
Flattens(f, s, m) ==
  f = [i \in 1..m |-> IF i = 1 THEN s[i] ELSE f[i - 1] \o s[i]]

(* FlattenSeq's recursion has a value on every prefix.                      *)
LEMMA FlattenExists ==
  ASSUME NEW s, NEW m \in Nat
  PROVE  \E f : Flattens(f, s, m)
<1> DEFINE T == {n \in Nat : \E f : Flattens(f, s, n)}
<1>1. 0 \in T
  <2>1. Flattens([i \in 1..0 |-> <<>>], s, 0)
    BY DEF Flattens
  <2> QED
    BY <2>1
<1>2. ASSUME NEW n \in Nat, n \in T
      PROVE  n + 1 \in T
  <2>1. PICK f : Flattens(f, s, n)
    BY <1>2
  <2> DEFINE end == IF n = 0 THEN s[1] ELSE f[n] \o s[n + 1]
             g == [i \in 1..(n + 1) |-> IF i = n + 1 THEN end ELSE f[i]]
  <2>2. ASSUME NEW i \in 1..(n + 1)
        PROVE  g[i] = IF i = 1 THEN s[i] ELSE g[i - 1] \o s[i]
    <3>1. CASE i = n + 1
      <4>1. g[i] = end
        BY <3>1
      <4>2. CASE n = 0
        BY <3>1, <4>1, <4>2
      <4>3. CASE n # 0
        <5>1. i # 1 /\ i - 1 = n /\ n \in 1..(n + 1) /\ n # n + 1
          BY <3>1, <4>3
        <5>2. g[i - 1] = f[n]
          BY <5>1
        <5>3. end = f[n] \o s[i]
          BY <3>1, <4>3
        <5> HIDE DEF g, end
        <5> QED
          BY <4>1, <5>1, <5>2, <5>3
      <4> QED
        BY <4>2, <4>3
    <3>2. CASE i # n + 1
      <4>1. i \in 1..n /\ g[i] = f[i]
        BY <3>2
      <4>2. f[i] = IF i = 1 THEN s[i] ELSE f[i - 1] \o s[i]
        BY <2>1, <4>1 DEF Flattens
      <4>3. i # 1 => i - 1 \in 1..(n + 1) /\ i - 1 # n + 1
        BY <4>1
      <4>4. i # 1 => g[i - 1] = f[i - 1]
        BY <4>3
      <4> HIDE DEF g
      <4> QED
        BY <4>1, <4>2, <4>4
    <3> QED
      BY <3>1, <3>2
  <2>3. g = [i \in 1..(n + 1) |-> g[i]]
    OBVIOUS
  <2> HIDE DEF g
  <2>4. Flattens(g, s, n + 1)
    BY <2>2, <2>3 DEF Flattens
  <2> QED
    BY <2>4
<1> HIDE DEF T
<1>3. m \in T
  BY <1>1, <1>2, NatInductive
<1> QED
  BY <1>3 DEF T

(* PackAll puts one packet behind the other. *)
LEMMA PackAllPacked ==
  ASSUME NEW ps \in Seq(Packets), ps # <<>>
  PROVE  \E g : Packed(g, ps, Len(ps)) /\ PackAll(ps) = g[Len(ps)]
<1> DEFINE n == Len(ps)
           s == [i \in DOMAIN ps |-> Pack(ps[i])]
           F[i \in 1..Len(s)] == IF i = 1 THEN s[i] ELSE F[i - 1] \o s[i]
<1>1. n \in Nat /\ n # 0 /\ DOMAIN ps = 1..n
  BY LenProperties, EmptySeq
<1>2. Len(s) = n /\ \A i \in 1..n : s[i] = Pack(ps[i])
  BY <1>1
<1>3. F = CHOOSE f : Flattens(f, s, Len(s))
  BY DEF Flattens
<1>4. PackAll(ps) = F[Len(s)]
  BY <1>1, <1>2 DEF PackAll, FlattenSeq
<1> HIDE DEF s, F
<1>5. Flattens(F, s, n)
  BY <1>1, <1>2, <1>3, FlattenExists
<1>6. \A i \in 1..n : F[i] = IF i = 1 THEN s[i] ELSE F[i - 1] \o s[i]
  BY <1>5 DEF Flattens
<1>7. F[1] = Pack(ps[1])
  <2>1. 1 \in 1..n
    BY <1>1
  <2> QED
    BY <1>2, <1>6, <2>1
<1>8. ASSUME NEW i \in Nat \ {0}, i < n
      PROVE  F[i + 1] = Cat(F[i], Pack(ps[i + 1]))
  <2>1. i + 1 \in 1..n /\ i + 1 # 1 /\ (i + 1) - 1 = i
    BY <1>1, <1>8
  <2>2. F[i + 1] = F[i] \o s[i + 1] /\ s[i + 1] = Pack(ps[i + 1])
    BY <1>2, <1>6, <2>1
  <2> QED
    BY <2>2 DEF Cat
<1> HIDE DEF n
<1>9. Packed(F, ps, n) /\ PackAll(ps) = F[n]
  BY <1>2, <1>4, <1>7, <1>8 DEF Packed
<1> QED
  BY <1>9 DEF n

(* No packets, no units.                                                    *)
LEMMA PackAllEmpty == PackAll(<<>>) = <<>>
BY DEF PackAll, FlattenSeq

(* What is packed are units. *)
LEMMA PackedType ==
  ASSUME NEW ps \in Seq(Packets), NEW g, Packed(g, ps, Len(ps))
  PROVE  \A k \in 1..Len(ps) : g[k] \in Units
<1> DEFINE n == Len(ps)
           T == {i \in Nat : i + 1 <= n => g[i + 1] \in Units}
<1>0. n \in Nat /\ Packed(g, ps, n) /\ \A i \in 1..n : Pack(ps[i]) \in Units
  BY LenProperties, ElementOfSeq, PacketUnits
<1> HIDE DEF n
<1>1. 0 \in T
  <2> SUFFICES ASSUME 1 <= n
               PROVE  g[1] \in Units
    OBVIOUS
  <2>1. 1 \in 1..n
    BY <1>0
  <2> QED
    BY <2>1, <1>0 DEF Packed
<1>2. ASSUME NEW i \in Nat, i \in T
      PROVE  i + 1 \in T
  <2> SUFFICES ASSUME (i + 1) + 1 <= n
               PROVE  g[(i + 1) + 1] \in Units
    OBVIOUS
  <2>1. i + 1 \in Nat \ {0} /\ i + 1 < n /\ i + 1 <= n /\ (i + 1) + 1 \in 1..n
    BY <1>0
  <2>2. g[i + 1] \in Units /\ Pack(ps[(i + 1) + 1]) \in Units
    BY <1>0, <1>2, <2>1
  <2>3. g[(i + 1) + 1] = Cat(g[i + 1], Pack(ps[(i + 1) + 1]))
    BY <1>0, <2>1 DEF Packed
  <2> QED
    BY <2>2, <2>3, CatType
<1> HIDE DEF T
<1>3. \A i \in Nat : i \in T
  BY <1>1, <1>2, NatInductive
<1>4. ASSUME NEW k \in 1..n
      PROVE  g[k] \in Units
  <2>1. k - 1 \in Nat /\ (k - 1) + 1 = k /\ k <= n
    BY <1>0
  <2> QED
    BY <1>3, <2>1 DEF T
<1> QED
  BY <1>4 DEF n

(* Packets packed are units.                                                *)
LEMMA PackAllType ==
  ASSUME NEW ps \in Seq(Packets)
  PROVE  PackAll(ps) \in Units
<1>1. CASE ps = <<>>
  BY <1>1, PackAllEmpty, EmptySeq DEF Units
<1>2. CASE ps # <<>>
  <2>1. PICK g : Packed(g, ps, Len(ps)) /\ PackAll(ps) = g[Len(ps)]
    BY <1>2, PackAllPacked
  <2>2. Len(ps) \in 1..Len(ps)
    BY <1>2, LenProperties, EmptySeq
  <2> QED
    BY <2>1, <2>2, PackedType
<1> QED
  BY <1>1, <1>2

(* A packet more at the end. *)
LEMMA PackAllAppend ==
  ASSUME NEW ps \in Seq(Packets), NEW p \in Packets
  PROVE  PackAll(Append(ps, p)) = Cat(PackAll(ps), Pack(p))
<1> DEFINE u == Append(ps, p)
           n == Len(ps)
<1>1. /\ u \in Seq(Packets) /\ u # <<>> /\ Len(u) = n + 1 /\ n \in Nat
      /\ \A i \in 1..n : u[i] = ps[i]
      /\ u[n + 1] = p
  BY AppendProperties, LenProperties
<1> HIDE DEF u
<1>2. PICK g : Packed(g, u, n + 1) /\ PackAll(u) = g[n + 1]
  BY <1>1, PackAllPacked
<1>3. CASE ps = <<>>
  <2>1. n = 0
    BY <1>3
  <2>2. g[1] = Pack(p) /\ PackAll(u) = g[1]
    BY <1>1, <1>2, <2>1 DEF Packed
  <2>3. PackAll(ps) = <<>>
    BY <1>3, PackAllEmpty
  <2> QED
    BY <2>2, <2>3, PacketUnits, CatEmpty DEF u
<1>4. CASE ps # <<>>
  <2>0. n # 0
    BY <1>4, EmptySeq
  <2>1. PICK f : Packed(f, ps, n) /\ PackAll(ps) = f[n]
    BY <1>4, PackAllPacked
  <2> DEFINE T == {i \in Nat : i + 1 <= n => f[i + 1] = g[i + 1]}
  <2> HIDE DEF n
  <2>2. 0 \in T
    <3>1. 1 \in 1..n
      BY <1>1, <2>0
    <3>2. u[1] = ps[1]
      BY <1>1, <3>1
    <3> QED
      BY <1>2, <2>1, <3>2 DEF Packed
  <2>3. ASSUME NEW i \in Nat, i \in T
        PROVE  i + 1 \in T
    <3> SUFFICES ASSUME (i + 1) + 1 <= n
                 PROVE  f[(i + 1) + 1] = g[(i + 1) + 1]
      OBVIOUS
    <3>1. /\ i + 1 \in Nat \ {0} /\ i + 1 < n /\ i + 1 < n + 1 /\ i + 1 <= n
          /\ (i + 1) + 1 \in 1..n
      BY <1>1
    <3>2. f[i + 1] = g[i + 1] /\ u[(i + 1) + 1] = ps[(i + 1) + 1]
      BY <1>1, <2>3, <3>1
    <3>3. f[(i + 1) + 1] = Cat(f[i + 1], Pack(ps[(i + 1) + 1]))
      BY <2>1, <3>1 DEF Packed
    <3>4. g[(i + 1) + 1] = Cat(g[i + 1], Pack(u[(i + 1) + 1]))
      BY <1>2, <3>1 DEF Packed
    <3> QED
      BY <3>2, <3>3, <3>4
  <2> HIDE DEF T
  <2>4. n - 1 \in T
    BY <1>1, <2>0, <2>2, <2>3, NatInductive
  <2>5. f[n] = g[n]
    <3>1. (n - 1) + 1 = n /\ n <= n
      BY <1>1
    <3> QED
      BY <2>4, <3>1 DEF T
  <2>6. g[n + 1] = Cat(g[n], Pack(u[n + 1]))
    BY <1>1, <1>2, <2>0 DEF Packed
  <2> QED
    BY <1>1, <1>2, <2>1, <2>5, <2>6 DEF u
<1> QED
  BY <1>3, <1>4

(* A packet more in front. *)
LEMMA PackAllFirst ==
  ASSUME NEW ps \in Seq(Packets), ps # <<>>
  PROVE  PackAll(ps) = Cat(Pack(Head(ps)), PackAll(Tail(ps)))
<1> DEFINE n == Len(ps)
           h == Head(ps)
           u == Tail(ps)
<1>1. /\ n \in Nat /\ n # 0 /\ h = ps[1] /\ h \in Packets
      /\ u \in Seq(Packets) /\ Len(u) = n - 1 /\ \A i \in 1..(n - 1) : u[i] = ps[i + 1]
  BY LenProperties, EmptySeq, HeadTailProperties
<1>2. PICK f : Packed(f, ps, n) /\ PackAll(ps) = f[n]
  BY PackAllPacked
<1>3. f[1] = Pack(h) /\ Pack(h) \in Units
  BY <1>1, <1>2, PacketUnits DEF Packed
<1> HIDE DEF n, h, u
<1>4. CASE n = 1
  <2>1. u = <<>>
    BY <1>1, <1>4, EmptySeq
  <2>2. PackAll(u) = <<>>
    BY <2>1, PackAllEmpty
  <2> QED
    BY <1>2, <1>3, <1>4, <2>2, CatEmpty DEF h, u
<1>5. CASE n # 1
  <2>0. u # <<>> /\ n - 1 \in Nat \ {0}
    BY <1>1, <1>5, EmptySeq
  <2>1. PICK g : Packed(g, u, n - 1) /\ PackAll(u) = g[n - 1]
    BY <1>1, <2>0, PackAllPacked
  <2>2. \A k \in 1..(n - 1) : g[k] \in Units
    BY <1>1, <2>1, PackedType
  <2> DEFINE T == {i \in Nat : i + 1 <= n - 1 => f[(i + 1) + 1] = Cat(Pack(h), g[i + 1])}
  <2>3. 0 \in T
    <3>1. 1 \in 1..(n - 1) /\ 1 \in Nat \ {0} /\ 1 < n
      BY <1>1, <2>0
    <3>2. g[1] = Pack(u[1]) /\ f[1 + 1] = Cat(f[1], Pack(ps[1 + 1])) /\ u[1] = ps[1 + 1]
      BY <1>1, <1>2, <2>1, <3>1 DEF Packed
    <3> QED
      BY <1>3, <3>2
  <2>4. ASSUME NEW i \in Nat, i \in T
        PROVE  i + 1 \in T
    <3> SUFFICES ASSUME (i + 1) + 1 <= n - 1
                 PROVE  f[((i + 1) + 1) + 1] = Cat(Pack(h), g[(i + 1) + 1])
      OBVIOUS
    <3>1. /\ i + 1 \in Nat \ {0} /\ (i + 1) + 1 \in Nat \ {0} /\ i + 1 < n - 1
          /\ (i + 1) + 1 < n /\ i + 1 <= n - 1 /\ (i + 1) + 1 \in 1..(n - 1)
          /\ i + 1 \in 1..(n - 1)
      BY <1>1
    <3>2. f[(i + 1) + 1] = Cat(Pack(h), g[i + 1]) /\ u[(i + 1) + 1] = ps[((i + 1) + 1) + 1]
      BY <1>1, <2>4, <3>1
    <3>3. f[((i + 1) + 1) + 1] = Cat(f[(i + 1) + 1], Pack(ps[((i + 1) + 1) + 1]))
      BY <1>2, <3>1 DEF Packed
    <3>4. g[(i + 1) + 1] = Cat(g[i + 1], Pack(u[(i + 1) + 1]))
      BY <2>1, <3>1 DEF Packed
    <3>5. g[i + 1] \in Units /\ Pack(u[(i + 1) + 1]) \in Units
      <4>1. u[(i + 1) + 1] \in Packets
        BY <1>1, <3>1, ElementOfSeq
      <4> QED
        BY <4>1, <2>2, <3>1, PacketUnits
    <3>6. Cat(Cat(Pack(h), g[i + 1]), Pack(u[(i + 1) + 1]))
            = Cat(Pack(h), Cat(g[i + 1], Pack(u[(i + 1) + 1])))
      BY <1>3, <3>5, CatAssoc
    <3> QED
      BY <3>2, <3>3, <3>4, <3>6
  <2> HIDE DEF T
  <2>5. \A i \in Nat : i \in T
    BY <2>3, <2>4, NatInductive
  <2>6. n - 2 \in Nat /\ (n - 2) + 1 = n - 1 /\ (n - 1) + 1 = n
    BY <1>1, <1>5
  <2>7. f[n] = Cat(Pack(h), g[n - 1])
    BY <2>5, <2>6 DEF T
  <2> QED
    BY <1>2, <2>1, <2>7 DEF h, u
<1> QED
  BY <1>4, <1>5

(* What a header in front of a value and the rest of the stream says, if   *)
(* they are packets one after the other: of which packet it is the header, *)
(* and, when the value is complete, that it is the packet's.               *)
LEMMA Decode ==
  ASSUME NEW ty \in Nat, NEW l \in Nat, NEW v \in Units, NEW x \in Units,
         NEW ps \in Seq(Packets), Cat(Cat(<<ty, l>>, v), x) = PackAll(ps)
  PROVE  /\ ps # <<>> /\ Tail(ps) \in Seq(Packets) /\ Head(ps) \in Packets
         /\ ty = Head(ps).type /\ l = Len(Head(ps).value)
         /\ l <= Len(v) + Len(x)
         /\ Len(v) = l => v = Head(ps).value /\ x = PackAll(Tail(ps))
<1> DEFINE h == <<ty, l>>
<1>1. h \in Units /\ Len(h) = 2 /\ h[1] = ty /\ h[2] = l
  BY PackType
<1> HIDE DEF h
<1>2. /\ Cat(h, v) \in Units /\ Len(Cat(h, v)) = 2 + Len(v)
      /\ Cat(v, x) \in Units /\ Len(Cat(v, x)) = Len(v) + Len(x)
      /\ Len(v) \in Nat /\ Len(x) \in Nat
  BY <1>1, CatType, UnitsLen
<1>3. /\ Cat(Cat(h, v), x) \in Units /\ Len(Cat(Cat(h, v), x)) = 2 + Len(v) + Len(x)
      /\ Cat(Cat(h, v), x) = Cat(h, Cat(v, x))
      /\ Cat(Cat(h, v), x) = PackAll(ps)
  <2>1. Len(Cat(Cat(h, v), x)) = 2 + Len(v) + Len(x) /\ Cat(Cat(h, v), x) \in Units
    <3> DEFINE hv == Cat(h, v)
    <3>1. hv \in Units /\ Len(hv) = 2 + Len(v)
      BY <1>2
    <3> HIDE DEF hv
    <3>2. Len(Cat(hv, x)) = Len(hv) + Len(x) /\ Cat(hv, x) \in Units
      BY <3>1, CatType
    <3>3. Len(Cat(hv, x)) = 2 + Len(v) + Len(x)
      BY <3>1, <3>2, Zenon
    <3> QED
      BY <3>2, <3>3 DEF hv
  <2>2. Cat(Cat(h, v), x) = Cat(h, Cat(v, x))
    BY <1>1, CatAssoc
  <2> QED
    BY <2>1, <2>2 DEF h
<1>4. ps # <<>>
  <2> SUFFICES ASSUME ps = <<>>
               PROVE  FALSE
    OBVIOUS
  <2>1. Cat(Cat(h, v), x) = <<>>
    BY <1>3, PackAllEmpty
  <2> QED
    BY <2>1, <1>2, <1>3, UnitsLen
<1>5. Tail(ps) \in Seq(Packets) /\ Head(ps) \in Packets
  BY <1>4, HeadTailProperties
<1> DEFINE q == Head(ps)
           hq == <<q.type, Len(q.value)>>
           y == PackAll(Tail(ps))
<1>6. /\ q.type \in Nat /\ q.value \in Units /\ Len(q.value) \in Nat
      /\ Pack(q) = Cat(hq, q.value) /\ Pack(q) \in Units
      /\ hq \in Units /\ Len(hq) = 2 /\ hq[1] = q.type /\ hq[2] = Len(q.value)
      /\ y \in Units
  BY <1>5, PacketUnits, PackType, PackAllType, UnitsLen
<1>7. PackAll(ps) = Cat(Cat(hq, q.value), y)
  BY <1>4, <1>6, PackAllFirst
<1> HIDE DEF q, hq, y
<1>8. Cat(h, Cat(v, x)) = Cat(hq, Cat(q.value, y)) /\ Cat(q.value, y) \in Units
      /\ Len(Cat(q.value, y)) = Len(q.value) + Len(y) /\ Len(y) \in Nat
  <2>1. PICK qv : qv = q.value
    OBVIOUS
  <2>2. qv \in Units
    BY <1>6, <2>1, Zenon
  <2>3. Cat(Cat(hq, qv), y) = Cat(hq, Cat(qv, y))
    BY <1>6, <2>2, CatAssoc
  <2>4. Cat(h, Cat(v, x)) = Cat(Cat(hq, qv), y)
    BY <1>3, <1>7, <2>1, Zenon
  <2>5. Cat(qv, y) \in Units /\ Len(Cat(qv, y)) = Len(qv) + Len(y)
    BY <1>6, <2>2, CatType
  <2>6. Len(y) \in Nat
    BY <1>6, UnitsLen
  <2> QED
    BY <2>1, <2>3, <2>4, <2>5, <2>6, Zenon
<1>9. h = hq /\ Cat(v, x) = Cat(q.value, y)
  <2>1. Len(h) = Len(hq)
    BY <1>1, <1>6
  <2> QED
    BY <2>1, <1>1, <1>2, <1>6, <1>8, CatCancel, SMTT(30)
<1>10. ty = q.type /\ l = Len(q.value)
  BY <1>1, <1>6, <1>9
<1>11. l <= Len(v) + Len(x)
  <2>1. Len(v) + Len(x) = Len(q.value) + Len(y)
    BY <1>2, <1>8, <1>9
  <2> QED
    BY <2>1, <1>6, <1>8, <1>10
<1>12. Len(v) = l => v = q.value /\ x = y
  BY <1>6, <1>9, <1>10, CatCancel
<1> QED
  BY <1>4, <1>5, <1>10, <1>11, <1>12 DEF q, y

----------------------------------------------------------------------------
(* partial_unpack. *)

Partial == [type : Nat, value : Units, left : Nat]

(* The smaller of two numbers.                                              *)
LEMMA LeastProperties ==
  ASSUME NEW m \in Nat, NEW n \in Nat
  PROVE  Least(m, n) \in Nat /\ Least(m, n) <= m /\ Least(m, n) <= n
         /\ (Least(m, n) = m \/ Least(m, n) = n)
BY DEF Least

(* How much is taken of what is behind pos, and that it is what is there.  *)
LEMMA TakeValueProperties ==
  ASSUME NEW p \in Partial, NEW buf \in Units, NEW pos \in Nat, pos <= BufferSize,
         NEW n, n = Least(p.left, BufferSize - pos)
  PROVE  /\ n \in Nat /\ n <= p.left /\ n <= BufferSize - pos
         /\ TakeValue(p, buf, pos) \in Partial
         /\ TakeValue(p, buf, pos).type = p.type
         /\ TakeValue(p, buf, pos).left = p.left - n
         /\ Len(TakeValue(p, buf, pos).value) = Len(p.value) + n
         /\ pos + n <= Len(buf)
              => TakeValue(p, buf, pos).value = Cat(p.value, SubSeq(buf, pos + 1, pos + n))
<1> DEFINE w == [i \in 1..n |-> At(buf, pos + i)]
<1>1. /\ p.type \in Nat /\ p.value \in Units /\ p.left \in Nat
      /\ BufferSize - pos \in Nat /\ Len(buf) \in Nat
  BY FramingAssumption, UnitsLen DEF Partial
<1>2. n \in Nat /\ n <= p.left /\ n <= BufferSize - pos
  BY <1>1, LeastProperties
<1>3. w \in Units /\ Len(w) = n
  <2>1. \A i \in 1..n : At(buf, pos + i) \in Nat
    <3>1. \A j \in 1..Len(buf) : buf[j] \in Nat
      BY ElementOfSeq DEF Units
    <3> QED
      BY <3>1, <1>1, <1>2 DEF At
  <2>2. w \in [1..n -> Nat]
    BY <2>1
  <2> HIDE DEF w
  <2> QED
    BY <1>2, <2>2 DEF Units
<1>4. TakeValue(p, buf, pos) = [type |-> p.type, value |-> Cat(p.value, w), left |-> p.left - n]
  <2>1. TakeValue(p, buf, pos) = [p EXCEPT !.value = @ \o w, !.left = @ - n]
    BY Zenon DEF TakeValue
  <2>2. p = [type |-> p.type, value |-> p.value, left |-> p.left]
    BY DEF Partial
  <2> HIDE DEF w
  <2>3. PICK a, b : a = p.value \o w /\ b = p.left - n
    OBVIOUS
  <2>4. [p EXCEPT !.value = a, !.left = b] = [type |-> p.type, value |-> a, left |-> b]
    <3>1. PICK r : r = [p EXCEPT !.value = a]
      OBVIOUS
    <3>2. r = [type |-> p.type, value |-> a, left |-> p.left]
      BY <3>1 DEF Partial
    <3>3. [r EXCEPT !.left = b] = [type |-> p.type, value |-> a, left |-> b]
      BY <3>2
    <3> QED
      BY <3>1, <3>3, Zenon
  <2> QED
    BY <2>1, <2>3, <2>4, Zenon DEF Cat
<1>5. pos + n <= Len(buf) => w = SubSeq(buf, pos + 1, pos + n)
  <2> SUFFICES ASSUME pos + n <= Len(buf)
               PROVE  w = SubSeq(buf, pos + 1, pos + n)
    OBVIOUS
  <2> DEFINE u == SubSeq(buf, pos + 1, pos + n)
  <2>1. \A i \in (pos + 1)..(pos + n) : buf[i] \in Nat
    <3>1. \A i \in (pos + 1)..(pos + n) : i \in 1..Len(buf)
      BY <1>1, <1>2
    <3> QED
      BY <3>1, ElementOfSeq DEF Units
  <2>2. /\ u \in Units
        /\ Len(u) = IF pos + 1 <= pos + n THEN pos + n - (pos + 1) + 1 ELSE 0
        /\ \A i \in 1..(pos + n - (pos + 1) + 1) : u[i] = buf[pos + 1 + i - 1]
    BY <1>2, <2>1, SubSeqProperties DEF Units
  <2> HIDE DEF u
  <2>3. Len(u) = n
    BY <2>2, <1>2
  <2>4. ASSUME NEW i \in 1..n
        PROVE  w[i] = u[i]
    <3>1. i \in 1..(pos + n - (pos + 1) + 1) /\ pos + 1 + i - 1 = pos + i /\ pos + i <= Len(buf)
      BY <1>1, <1>2
    <3>2. w[i] = buf[pos + i]
      BY <3>1 DEF At
    <3> QED
      BY <2>2, <3>1, <3>2
  <2> HIDE DEF w
  <2>5. w = u
    BY <1>3, <2>2, <2>3, <2>4, SeqEqual DEF Units
  <2> QED
    BY <2>5 DEF u
<1> HIDE DEF w
<1>6. Cat(p.value, w) \in Units /\ Len(Cat(p.value, w)) = Len(p.value) + n
  <2>1. /\ Cat(p.value, w) \in Units
        /\ Len(Cat(p.value, w)) = Len(p.value) + Len(w)
    BY <1>1, <1>3, CatType
  <2>2. Len(w) = n
    BY <1>3
  <2> QED
    BY <2>1, <2>2
<1>7. p.left - n \in Nat
  BY <1>1, <1>2
<1>8. /\ TakeValue(p, buf, pos).type = p.type /\ TakeValue(p, buf, pos).left = p.left - n
      /\ TakeValue(p, buf, pos).value = Cat(p.value, w)
  BY <1>4
<1> QED
  BY <1>1, <1>2, <1>4, <1>5, <1>6, <1>7, <1>8 DEF Partial

(* partial_unpack takes what the buffer has left, or what the packet lacks. *)
LEMMA TakenProperties ==
  ASSUME NEW p \in Partial, NEW buf \in Units, NEW pos \in Nat, pos <= BufferSize,
         NEW n, n = Least(p.left, BufferSize - pos), NEW q, q = TakeValue(p, buf, pos)
  PROVE  /\ n \in Nat /\ n <= p.left /\ q \in Partial
         /\ q.left = p.left - n /\ q.type = p.type /\ Len(q.value) = Len(p.value) + n
<1>1. n \in Nat /\ n <= p.left /\ TakeValue(p, buf, pos) \in Partial
  BY TakeValueProperties
<1>2. TakeValue(p, buf, pos).left = p.left - n /\ TakeValue(p, buf, pos).type = p.type
  BY TakeValueProperties
<1>3. Len(TakeValue(p, buf, pos).value) = Len(p.value) + n
  BY TakeValueProperties
<1> QED
  BY <1>1, <1>2, <1>3, Zenon

(* What partial_unpack takes and what it leaves behind pos + n, one behind *)
(* the other, is what it had and what was behind pos.                      *)
LEMMA TakenRest ==
  ASSUME NEW p \in Partial, NEW buf \in Units, NEW pos \in Nat, pos <= BufferSize,
         NEW n, n = Least(p.left, BufferSize - pos), pos + n <= Len(buf),
         NEW q, q = TakeValue(p, buf, pos)
  PROVE  Cat(q.value, SubSeq(buf, pos + n + 1, Len(buf)))
           = Cat(p.value, SubSeq(buf, pos + 1, Len(buf)))
<1>1. n \in Nat /\ q.value = Cat(p.value, SubSeq(buf, pos + 1, pos + n)) /\ Len(buf) \in Nat
  BY TakeValueProperties, UnitsLen
<1> DEFINE a == SubSeq(buf, pos + 1, pos + n)
           b == SubSeq(buf, pos + n + 1, Len(buf))
<1>2. a \in Units
  <2>1. \A i \in (pos + 1)..(pos + n) : buf[i] \in Nat
    <3>1. \A i \in (pos + 1)..(pos + n) : i \in 1..Len(buf)
      BY <1>1
    <3> QED
      BY <3>1, ElementOfSeq DEF Units
  <2> QED
    BY <1>1, <2>1, SubSeqProperties DEF Units
<1>3. b \in Units
  <2>1. pos + n \in Nat
    BY <1>1
  <2> QED
    BY <2>1, PastEnd
<1>4. Cat(a, b) = SubSeq(buf, pos + 1, Len(buf))
  <2>1. PICK i, m, l : i = pos + 1 /\ m = pos + n /\ l = Len(buf)
    OBVIOUS
  <2>2. i \in 1..(Len(buf) + 1) /\ m \in (i - 1)..Len(buf) /\ l \in m..Len(buf)
    BY <1>1, <2>1
  <2>3. SubSeq(buf, i, m) \o SubSeq(buf, m + 1, l) = SubSeq(buf, i, l)
    BY <2>2, ConcatAdjacentSubSeq DEF Units
  <2> QED
    BY <2>1, <2>3, Zenon DEF Cat
<1>5. p.value \in Units
  BY DEF Partial
<1> HIDE DEF a, b
<1>6. Cat(Cat(p.value, a), b) = Cat(p.value, Cat(a, b))
  <2>1. PICK v : v = p.value
    OBVIOUS
  <2>2. Cat(Cat(v, a), b) = Cat(v, Cat(a, b))
    BY <1>2, <1>3, <1>5, <2>1, CatAssoc
  <2> QED
    BY <2>1, <2>2, Zenon
<1> QED
  BY <1>1, <1>4, <1>6, Zenon DEF a, b

(* recv takes no more than there is, nor than there is room for.           *)
LEMMA RecvProperties ==
  ASSUME NEW buf \in Units, Len(buf) <= BufferSize, stream \in Units,
         NEW least \in Nat, NEW n \in Recv(buf, least)
  PROVE  /\ n \in Nat /\ least <= n /\ n <= Len(stream) /\ n <= BufferSize - Len(buf)
<1>1. Len(stream) \in Nat /\ Len(buf) \in Nat /\ BufferSize - Len(buf) \in Nat
  BY UnitsLen, FramingAssumption
<1> DEFINE most == Least(Len(stream), BufferSize - Len(buf))
<1>2. most \in Nat /\ most <= Len(stream) /\ most <= BufferSize - Len(buf)
  BY <1>1, LeastProperties
<1>3. n \in (IF Split THEN least..most ELSE {most}) /\ n >= least
  BY DEF Recv
<1> HIDE DEF most
<1>4. n \in Nat /\ n <= most
  BY <1>2, <1>3
<1> QED
  BY <1>1, <1>2, <1>3, <1>4

----------------------------------------------------------------------------
(* Types, and where packets and data can be. *)

Parsed == [type : Nat, value : Units]

Typing ==
  /\ sent \in Seq(Packets) /\ Len(sent) <= MaxPackets
  /\ closed \in BOOLEAN
  /\ stream \in Units /\ Len(stream) <= SockCap
  /\ rbuf \in Units /\ Len(rbuf) <= BufferSize
  /\ pc \in {"receive", "unpack", "refill", "parse", "parse last", "stuck"}
  /\ packet \in Partial
  /\ got \in Seq(Parsed)
  /\ cut \in BOOLEAN /\ torn \in BOOLEAN /\ partly \in BOOLEAN
  /\ full \in BOOLEAN /\ brim \in BOOLEAN

(* TypeOK is its parts.                                                     *)
LEMMA TypeParts == TypeOK <=> Typing
<1>1. (\A h \in {cut, torn, partly, full, brim} : h \in BOOLEAN)
        <=> /\ cut \in BOOLEAN /\ torn \in BOOLEAN /\ partly \in BOOLEAN
            /\ full \in BOOLEAN /\ brim \in BOOLEAN
  OBVIOUS
<1> QED
  BY <1>1, Zenon DEF TypeOK, Typing, Units, Partial, Parsed

(* A packet is given out when it is complete; reading goes on only with    *)
(* the buffer used up; the reader stops only after an overrun.             *)
Typed ==
  /\ Typing
  /\ pc \in {"parse", "parse last"} => packet.left = 0
  /\ pc = "refill" => rbuf = <<>> /\ packet.left > 0
  /\ pc \in {"parse last", "stuck"} => torn

(* A buffer of zeros.                                                      *)
LEMMA ZerosProperties ==
  ASSUME NEW z \in Nat
  PROVE  [i \in 1..z |-> 0] \in Units /\ Len([i \in 1..z |-> 0]) = z
<1>1. PICK s : s = [i \in 1..z |-> 0]
  OBVIOUS
<1>2. s \in [1..z -> Nat]
  BY <1>1
<1>3. s \in Seq(Nat) /\ Len(s) = z
  BY <1>2, LenProperties, SeqDef
<1> QED
  BY <1>1, <1>3 DEF Units

(* AfterUnpack without WrapAround.                                         *)
Shifts(q, buf, k) ==
  /\ packet' = q
  /\ Consume(buf, k)
  /\ \/ q.left > 0 /\ pc' = "refill"
     \/ q.left = 0 /\ pc' = "parse"
     \/ q.left = 0 /\ Len(buf) < k /\ k < BufferSize /\ pc' = "parse last"

(* What partial_unpack leaves when the rest of the buffer is shifted.      *)
LEMMA ConsumedTyped ==
  ASSUME Typing, NEW p \in Partial, NEW buf \in Units, Len(buf) <= BufferSize,
         NEW pos \in Nat, pos <= BufferSize, NEW k,
         k = pos + Least(p.left, BufferSize - pos),
         Shifts(TakeValue(p, buf, pos), buf, k)
  PROVE  /\ packet' \in Partial /\ rbuf' \in Units /\ Len(rbuf') <= BufferSize
         /\ torn' \in BOOLEAN /\ torn' = (torn \/ k > Len(buf))
         /\ pc' \in {"refill", "parse", "parse last"}
         /\ pc' \in {"parse", "parse last"} => packet'.left = 0
         /\ pc' = "refill" => /\ rbuf' = <<>> /\ packet'.left > 0
                              /\ k = BufferSize
         /\ pc' = "parse last" => torn'
<1>1. PICK n : n = Least(p.left, BufferSize - pos)
  OBVIOUS
<1>2. PICK q : q = TakeValue(p, buf, pos)
  OBVIOUS
<1>3. /\ n \in Nat /\ n <= p.left /\ n <= BufferSize - pos
      /\ q \in Partial /\ q.left = p.left - n
  BY <1>1, <1>2, TakeValueProperties
<1>4. /\ packet' = q /\ rbuf' = SubSeq(buf, k + 1, Len(buf))
      /\ torn' = (torn \/ k > Len(buf)) /\ k = pos + n
      /\ \/ q.left > 0 /\ pc' = "refill"
         \/ q.left = 0 /\ pc' = "parse"
         \/ q.left = 0 /\ Len(buf) < k /\ k < BufferSize /\ pc' = "parse last"
  <2>1. packet' = q
    BY <1>2 DEF Shifts
  <2>2. rbuf' = SubSeq(buf, k + 1, Len(buf)) /\ torn' = (torn \/ k > Len(buf))
    BY Zenon DEF Shifts, Consume
  <2>3. k = pos + n
    BY <1>1
  <2>4. \/ q.left > 0 /\ pc' = "refill"
        \/ q.left = 0 /\ pc' = "parse"
        \/ q.left = 0 /\ Len(buf) < k /\ k < BufferSize /\ pc' = "parse last"
    BY <1>2, Zenon DEF Shifts
  <2> QED
    BY <2>1, <2>2, <2>3, <2>4
<1>5. k \in Nat /\ Len(buf) \in Nat /\ BufferSize \in Nat /\ p.left \in Nat
  <2>1. k \in Nat
    <3>1. k = pos + n
      BY <1>4, Zenon
    <3>2. n \in Nat
      BY <1>3, Zenon
    <3> QED
      BY <3>1, <3>2
  <2>2. Len(buf) \in Nat /\ BufferSize \in Nat
    BY UnitsLen, FramingAssumption
  <2>3. p.left \in Nat
    BY DEF Partial
  <2> QED
    BY <2>1, <2>2, <2>3
<1>6. /\ rbuf' \in Units /\ Len(rbuf') <= Len(buf)
      /\ Len(buf) <= k => rbuf' = <<>>
  BY <1>4, <1>5, PastEnd
<1>7. Len(rbuf') <= BufferSize
  <2>1. PICK m : m = Len(rbuf')
    OBVIOUS
  <2>2. m \in Nat
    BY <1>6, <2>1, UnitsLen
  <2> QED
    BY <1>5, <1>6, <2>1, <2>2
<1>8. torn' \in BOOLEAN
  <2>1. torn \in BOOLEAN
    BY Zenon DEF Typing
  <2>2. (torn \/ k > Len(buf)) \in BOOLEAN
    BY <2>1
  <2> QED
    BY <1>4, <2>2
<1>9. q.left > 0 => k = BufferSize
  <2>1. k = pos + n
    BY <1>4
  <2>2. n = p.left \/ n = BufferSize - pos
    BY <1>1, Zenon DEF Least
  <2> QED
    BY <2>1, <2>2, <1>3, <1>5
<1>10. pc' = "refill" => q.left > 0 /\ k = BufferSize
  BY <1>4, <1>9
<1>11. pc' = "refill" => rbuf' = <<>>
  BY <1>5, <1>6, <1>10
<1>12. pc' = "parse last" => torn'
  BY <1>4, <1>5
<1>13. pc' \in {"parse", "parse last"} => q.left = 0
  BY <1>4
<1>14. pc' \in {"refill", "parse", "parse last"}
  BY <1>4
<1> QED
  BY <1>3, <1>4, <1>6, <1>7, <1>8, <1>10, <1>11, <1>12, <1>13, <1>14

(* What partial_unpack leaves, in either of its two calls.                 *)
LEMMA UnpackTyped ==
  ASSUME Typing, NEW p \in Partial, NEW buf \in Units, Len(buf) <= BufferSize,
         NEW pos \in Nat, pos <= BufferSize, NEW k,
         k = pos + Least(p.left, BufferSize - pos),
         AfterUnpack(TakeValue(p, buf, pos), buf, k)
  PROVE  /\ packet' \in Partial /\ rbuf' \in Units /\ Len(rbuf') <= BufferSize
         /\ torn' \in BOOLEAN /\ torn' = (torn \/ k > Len(buf))
         /\ pc' \in {"refill", "parse", "parse last"}
         /\ pc' \in {"parse", "parse last"} => packet'.left = 0
         /\ pc' = "refill" => /\ rbuf' = <<>> /\ packet'.left > 0
                              /\ k = BufferSize
         /\ pc' = "parse last" => torn'
<1>1. PICK q : q = TakeValue(p, buf, pos)
  OBVIOUS
<1>2. packet' = q
  BY <1>1 DEF AfterUnpack
<1>3. CASE Shifts(q, buf, k)
  <2>1. Shifts(TakeValue(p, buf, pos), buf, k)
    BY <1>1, <1>3
  <2>2. packet' \in Partial /\ rbuf' \in Units /\ Len(rbuf') <= BufferSize /\ torn' \in BOOLEAN
    BY <2>1, ConsumedTyped
  <2>3. torn' = (torn \/ k > Len(buf))
    BY <2>1, ConsumedTyped
  <2>4. /\ pc' \in {"refill", "parse", "parse last"}
        /\ pc' \in {"parse", "parse last"} => packet'.left = 0
    BY <2>1, ConsumedTyped
  <2>5. pc' = "refill" => rbuf' = <<>> /\ packet'.left > 0 /\ k = BufferSize
    BY <2>1, ConsumedTyped
  <2>6. pc' = "parse last" => torn'
    BY <2>1, ConsumedTyped
  <2> QED
    BY <2>2, <2>3, <2>4, <2>5, <2>6
<1>4. CASE q.left = 0 /\ Len(buf) < k /\ WrapAround /\ pc' = "parse"
  <2>1. PICK z \in 2..(BufferSize - 1) : rbuf' = [i \in 1..z |-> 0]
    BY <1>4 DEF WrapAround
  <2>2. rbuf' \in Units /\ Len(rbuf') = z /\ z <= BufferSize
    BY <2>1, FramingAssumption, ZerosProperties
  <2>3. q \in Partial
    <3>1. PICK n : n = Least(p.left, BufferSize - pos)
      OBVIOUS
    <3> QED
      BY <1>1, <3>1, TakeValueProperties
  <2>4. torn' = TRUE /\ k > Len(buf)
    <3>1. k \in Nat /\ Len(buf) \in Nat
      BY <1>4, UnitsLen, FramingAssumption DEF Partial, Least
    <3> QED
      BY <1>4, <3>1 DEF WrapAround
  <2> QED
    BY <1>2, <1>4, <2>2, <2>3, <2>4
<1> QED
  <2>1. Shifts(q, buf, k) \/ (q.left = 0 /\ Len(buf) < k /\ WrapAround /\ pc' = "parse")
    BY <1>1, Zenon DEF AfterUnpack, Shifts
  <2> QED
    BY <1>3, <1>4, <2>1

(* The header at the front of the buffer.                                  *)
LEMMA FrontForm ==
  ASSUME Typed, UnpackFront
  PROVE  \E p \in Partial :
           /\ p.type = At(rbuf, 1) /\ p.value = <<>> /\ p.left = At(rbuf, 2)
           /\ AfterUnpack(TakeValue(p, rbuf, 2), rbuf, 2 + Least(p.left, BufferSize - 2))
<1>1. rbuf \in Units /\ Len(rbuf) \in Nat
  BY UnitsLen DEF Typed, Typing
<1>2. PICK t, l : t = At(rbuf, 1) /\ l = At(rbuf, 2)
  OBVIOUS
<1>3. t \in Nat /\ l \in Nat
  <2>1. \A i \in 1..Len(rbuf) : rbuf[i] \in Nat
    BY <1>1, ElementOfSeq DEF Units
  <2> QED
    BY <1>1, <1>2, <2>1 DEF At
<1>4. PICK p : p = [type |-> t, value |-> <<>>, left |-> l]
  OBVIOUS
<1>5. <<>> \in Units /\ Len(<<>>) = 0
  BY EmptySeq DEF Units
<1>6. p \in Partial /\ p.type = t /\ p.value = <<>> /\ p.left = l
  BY <1>3, <1>4, <1>5 DEF Partial
<1>7. BufferSize \in Nat /\ 2 <= BufferSize
  BY FramingAssumption
<1>8. PICK n : n = Least(p.left, BufferSize - 2)
  OBVIOUS
<1>9. n \in Nat /\ Len(TakeValue(p, rbuf, 2).value) = Len(p.value) + n
  BY <1>1, <1>6, <1>7, <1>8, TakeValueProperties
<1>10. Len(TakeValue(p, rbuf, 2).value) = n
  <2>1. Len(p.value) = 0
    BY <1>5, <1>6, Zenon
  <2> QED
    BY <1>9, <2>1
<1>11. AfterUnpack(TakeValue(p, rbuf, 2), rbuf, 2 + Len(TakeValue(p, rbuf, 2).value))
  BY <1>2, <1>4, Zenon DEF UnpackFront
<1> QED
  BY <1>2, <1>6, <1>8, <1>10, <1>11, Zenon

(* The next part of a packet that fills the buffer.                        *)
LEMMA RefillForm ==
  ASSUME Typed, Refill
  PROVE  \E n \in Recv(<<>>, 0) : \E buf \in Units :
           /\ n \in 0..Len(stream) /\ buf = SubSeq(stream, 1, n) /\ Len(buf) = n
           /\ n <= BufferSize
           /\ ReceiveInto(<<>>, n)
           /\ AfterUnpack(TakeValue(packet, buf, 0), buf, 0 + Least(packet.left, BufferSize - 0))
<1>1. /\ stream \in Units /\ packet \in Partial /\ Len(stream) \in Nat
      /\ <<>> \in Units /\ Len(<<>>) = 0 /\ BufferSize \in Nat
  BY UnitsLen, EmptySeq, FramingAssumption DEF Typed, Typing, Units
<1>2. PICK n \in Recv(<<>>, 0) :
           /\ ReceiveInto(<<>>, n)
           /\ AfterUnpack(TakeValue(packet, SubSeq(stream, 1, n), 0), SubSeq(stream, 1, n),
                          packet.left - TakeValue(packet, SubSeq(stream, 1, n), 0).left)
  BY Zenon DEF Refill
<1>3. n \in Nat /\ n <= Len(stream) /\ n <= BufferSize
  <2>1. Len(<<>>) <= BufferSize /\ 0 \in Nat
    BY <1>1
  <2>2. n \in Nat /\ n <= Len(stream) /\ n <= BufferSize - Len(<<>>)
    BY <1>1, <2>1, RecvProperties
  <2> QED
    BY <1>1, <2>2
<1>4. n \in 0..Len(stream)
  BY <1>1, <1>3
<1>5. PICK buf : buf = SubSeq(stream, 1, n)
  OBVIOUS
<1>6. buf \in Units /\ Len(buf) = n
  BY <1>1, <1>4, <1>5, CatSplit
<1>7. PICK t : t = Least(packet.left, BufferSize - 0)
  OBVIOUS
<1>8. t \in Nat /\ TakeValue(packet, buf, 0).left = packet.left - t
  <2>1. 0 \in Nat /\ 0 <= BufferSize
    BY <1>1
  <2> QED
    BY <1>1, <1>6, <1>7, <2>1, TakeValueProperties
<1>9. packet.left - TakeValue(packet, buf, 0).left = 0 + t
  <2>1. packet.left \in Nat
    BY <1>1 DEF Partial
  <2> QED
    BY <1>8, <2>1
<1> QED
  BY <1>2, <1>3, <1>4, <1>5, <1>6, <1>7, <1>9, Zenon

(* The types hold at first.                                                 *)
LEMMA TypedInit == Init => Typed
<1> SUFFICES ASSUME Init
             PROVE  Typed
  OBVIOUS
<1>1. <<>> \in Units /\ Len(<<>>) = 0 /\ <<>> \in Seq(Packets) /\ <<>> \in Seq(Parsed)
  BY EmptySeq DEF Units
<1>2. packet \in Partial /\ packet.left = 0
  BY <1>1 DEF Init, Blank, Partial, None
<1>3. Typing
  <2>1. 0 <= MaxPackets /\ 0 <= SockCap /\ 0 <= BufferSize
    BY FramingAssumption
  <2>2. Len(sent) <= MaxPackets /\ Len(stream) <= SockCap /\ Len(rbuf) <= BufferSize
    BY <1>1, <2>1 DEF Init
  <2>3. /\ sent \in Seq(Packets) /\ stream \in Units /\ rbuf \in Units /\ got \in Seq(Parsed)
    BY <1>1 DEF Init
  <2> QED
    BY <1>2, <2>2, <2>3 DEF Init, Typing
<1> QED
  BY <1>2, <1>3 DEF Init, Typed

(* Every step keeps the types.                                              *)
LEMMA TypedStep == Typed /\ [Next]_vars => Typed'
<1> SUFFICES ASSUME Typed, [Next]_vars
             PROVE  Typed'
  OBVIOUS
<1>0. /\ sent \in Seq(Packets) /\ Len(sent) <= MaxPackets
      /\ closed \in BOOLEAN
      /\ stream \in Units /\ Len(stream) <= SockCap
      /\ rbuf \in Units /\ Len(rbuf) <= BufferSize
      /\ pc \in {"receive", "unpack", "refill", "parse", "parse last", "stuck"}
      /\ packet \in Partial
      /\ got \in Seq(Parsed)
      /\ cut \in BOOLEAN /\ torn \in BOOLEAN /\ partly \in BOOLEAN
      /\ full \in BOOLEAN /\ brim \in BOOLEAN
  BY DEF Typed, Typing
<1>n. /\ Len(sent) \in Nat /\ Len(stream) \in Nat /\ Len(rbuf) \in Nat
      /\ MaxPackets \in Nat /\ SockCap \in Nat /\ BufferSize \in Nat /\ 2 <= BufferSize
  BY <1>0, UnitsLen, LenProperties, FramingAssumption
<1>1. ASSUME NEW p \in Packets, SendPacket(p)
      PROVE  Typed'
  <2> DEFINE w == Pack(p)
             c == Least(SockCap - Len(stream), Len(w))
  <2>1. w \in Units /\ Len(w) \in Nat
    BY PacketUnits, UnitsLen
  <2>2. /\ sent' = Append(sent, p) /\ Len(sent) < MaxPackets
        /\ stream' = stream \o SubSeq(w, 1, c)
        /\ cut' = (cut \/ SockCap - Len(stream) < Len(w))
        /\ UNCHANGED <<closed, readVars, torn, partly, full, brim>>
    BY <1>1 DEF SendPacket
  <2> HIDE DEF w
  <2>3. c \in Nat /\ c <= SockCap - Len(stream) /\ c <= Len(w)
    <3>0. Len(stream) <= SockCap /\ Len(stream) \in Nat /\ SockCap \in Nat
      BY <1>0, <1>n, Zenon
    <3>1. SockCap - Len(stream) \in Nat
      BY <3>0
    <3> QED
      BY <2>1, <3>1, LeastProperties
  <2> HIDE DEF c
  <2>4. sent' \in Seq(Packets) /\ Len(sent') <= MaxPackets
    <3>1. Append(sent, p) \in Seq(Packets) /\ Len(Append(sent, p)) = Len(sent) + 1
      BY <1>0, AppendProperties
    <3>2. PICK u : u = Append(sent, p)
      OBVIOUS
    <3> QED
      BY <2>2, <3>1, <3>2, <1>n
  <2>5. stream' \in Units /\ Len(stream') <= SockCap
    <3>1. PICK u : u = SubSeq(w, 1, c)
      OBVIOUS
    <3>2. u \in Units /\ Len(u) = c
      <4>1. c \in 0..Len(w)
        BY <2>1, <2>3
      <4> QED
        BY <2>1, <3>1, <4>1, CatSplit
    <3>3. Cat(stream, u) \in Units /\ Len(Cat(stream, u)) = Len(stream) + c
      BY <1>0, <3>2, CatType
    <3>4. stream' = Cat(stream, u)
      BY <2>2, <3>1, Zenon DEF Cat
    <3> QED
      BY <3>3, <3>4, <2>3, <1>n
  <2>6. cut' \in BOOLEAN
    BY <2>2, <1>0
  <2>7. UNCHANGED <<closed, rbuf, pc, packet, got, torn, partly, full, brim>>
    BY <2>2 DEF readVars
  <2>8. Typing'
    BY <2>4, <2>5, <2>6, <2>7, <1>0 DEF Typing
  <2> QED
    BY <2>7, <2>8 DEF Typed
<1>2. CASE Close
  <2>1. /\ closed' = TRUE
        /\ UNCHANGED <<sent, stream, rbuf, pc, packet, got, cut, torn, partly, full, brim>>
    BY <1>2 DEF Close, readVars, history
  <2>2. Typing'
    BY <2>1, <1>0 DEF Typing
  <2> QED
    BY <2>1, <2>2 DEF Typed
<1>3. CASE ReceiveData
  <2>1. /\ UNCHANGED <<sent, closed, packet, got, cut, torn, brim>>
        /\ pc' = IF rbuf' = <<>> THEN "receive" ELSE "unpack"
    BY <1>3 DEF ReceiveData, sendVars
  <2>0. PICK least :
          /\ least = IF stream = <<>> \/ Len(rbuf) = BufferSize THEN 0 ELSE 1
          /\ \E n \in Recv(rbuf, least) :
               rbuf' = rbuf \o SubSeq(stream, 1, n) /\ ReceiveInto(rbuf, n)
    BY <1>3, Zenon DEF ReceiveData
  <2>2. PICK n \in Recv(rbuf, least) :
          rbuf' = rbuf \o SubSeq(stream, 1, n) /\ ReceiveInto(rbuf, n)
    BY <2>0
  <2>3. n \in Nat /\ n <= Len(stream) /\ n <= BufferSize - Len(rbuf)
    <3>1. least \in Nat
      BY <2>0
    <3> QED
      BY <1>0, <3>1, RecvProperties
  <2>4. rbuf' \in Units /\ Len(rbuf') <= BufferSize
    <3>1. PICK u : u = SubSeq(stream, 1, n)
      OBVIOUS
    <3>2. u \in Units /\ Len(u) = n
      <4>1. n \in 0..Len(stream)
        BY <2>3, <1>n
      <4> QED
        BY <1>0, <3>1, <4>1, CatSplit
    <3>3. Cat(rbuf, u) \in Units /\ Len(Cat(rbuf, u)) = Len(rbuf) + n
      BY <1>0, <3>2, CatType
    <3>4. rbuf' = Cat(rbuf, u)
      BY <2>2, <3>1, Zenon DEF Cat
    <3> QED
      BY <3>3, <3>4, <2>3, <1>n
  <2>5. stream' \in Units /\ Len(stream') <= SockCap
    <3>2. n \in Nat
      BY <2>3
    <3>1. stream' = SubSeq(stream, n + 1, Len(stream))
      BY <2>2, Zenon DEF ReceiveInto
    <3> QED
      BY <1>0, <1>n, <3>1, <3>2, StillFits
  <2>6. partly' \in BOOLEAN /\ full' \in BOOLEAN
    BY <2>2, <1>0 DEF ReceiveInto
  <2>7. pc' \in {"receive", "unpack"}
    BY <2>1
  <2>8. Typing'
    BY <2>1, <2>4, <2>5, <2>6, <2>7, <1>0 DEF Typing
  <2> QED
    BY <2>7, <2>8 DEF Typed
<1>4. CASE UnpackFront
  <2>1. PICK p \in Partial :
           AfterUnpack(TakeValue(p, rbuf, 2), rbuf, 2 + Least(p.left, BufferSize - 2))
    BY <1>4, FrontForm
  <2>2. /\ packet' \in Partial /\ rbuf' \in Units /\ Len(rbuf') <= BufferSize
        /\ torn' \in BOOLEAN
        /\ pc' \in {"refill", "parse", "parse last"}
        /\ pc' \in {"parse", "parse last"} => packet'.left = 0
        /\ pc' = "refill" => rbuf' = <<>> /\ packet'.left > 0
        /\ pc' = "parse last" => torn'
    <3>1. Typing /\ 2 \in Nat
      BY DEF Typed
    <3>2. PICK k : k = 2 + Least(p.left, BufferSize - 2)
      OBVIOUS
    <3> QED
      BY <1>0, <1>n, <2>1, <3>1, <3>2, UnpackTyped
  <2>3. UNCHANGED <<sent, closed, stream, got, cut, partly, full, brim>>
    BY <1>4, <2>1 DEF UnpackFront, AfterUnpack, sendVars
  <2>4. Typing'
    BY <2>2, <2>3, <1>0 DEF Typing
  <2> QED
    BY <2>2, <2>4 DEF Typed
<1>5. CASE Refill
  <2>1. PICK n \in Recv(<<>>, 0), buf \in Units :
           /\ n \in 0..Len(stream) /\ Len(buf) = n /\ n <= BufferSize
           /\ ReceiveInto(<<>>, n)
           /\ AfterUnpack(TakeValue(packet, buf, 0), buf, 0 + Least(packet.left, BufferSize - 0))
    BY <1>5, RefillForm
  <2>2. /\ packet' \in Partial /\ rbuf' \in Units /\ Len(rbuf') <= BufferSize
        /\ torn' \in BOOLEAN
        /\ pc' \in {"refill", "parse", "parse last"}
        /\ pc' \in {"parse", "parse last"} => packet'.left = 0
        /\ pc' = "refill" => rbuf' = <<>> /\ packet'.left > 0
        /\ pc' = "parse last" => torn'
    <3>0. Len(buf) <= BufferSize
      BY <2>1, Zenon
    <3>1. Typing
      BY DEF Typed
    <3>3. 0 \in Nat /\ 0 <= BufferSize
      BY <1>n
    <3>2. PICK k : k = 0 + Least(packet.left, BufferSize - 0)
      OBVIOUS
    <3> QED
      BY <1>0, <2>1, <3>0, <3>1, <3>2, <3>3, UnpackTyped
  <2>3. UNCHANGED <<sent, closed, got, cut, brim>>
    BY <2>1 DEF AfterUnpack, sendVars
  <2>5. stream' \in Units /\ Len(stream') <= SockCap
    <3>2. n \in Nat
      BY <2>1, <1>n
    <3>1. stream' = SubSeq(stream, n + 1, Len(stream))
      BY <2>1, Zenon DEF ReceiveInto
    <3> QED
      BY <1>0, <1>n, <3>1, <3>2, StillFits
  <2>6. partly' \in BOOLEAN /\ full' \in BOOLEAN
    BY <2>1, <1>0 DEF ReceiveInto
  <2>7. Typing'
    BY <2>2, <2>3, <2>5, <2>6, <1>0 DEF Typing
  <2> QED
    BY <2>2, <2>7 DEF Typed
<1>6. CASE Parse
  <2>1. /\ got' = Append(got, [type |-> packet.type, value |-> packet.value])
        /\ pc' = IF pc = "parse last" THEN "stuck"
                 ELSE IF packet.type = Ask /\ rbuf # <<>> THEN "unpack" ELSE "receive"
        /\ brim' = (brim \/ (packet.type = Ask /\ full))
        /\ packet' = Blank
        /\ UNCHANGED <<sent, closed, stream, rbuf, cut, torn, partly, full>>
    BY <1>6 DEF Parse, sendVars
  <2>2. got' \in Seq(Parsed)
    <3>1. PICK e : e = [type |-> packet.type, value |-> packet.value]
      OBVIOUS
    <3>2. e \in Parsed
      BY <1>0, <3>1 DEF Partial, Parsed
    <3>3. Append(got, e) \in Seq(Parsed)
      BY <1>0, <3>2, AppendProperties
    <3> QED
      BY <2>1, <3>1, <3>3, Zenon
  <2>3. packet' \in Partial
    <3>1. <<>> \in Units
      BY EmptySeq DEF Units
    <3> QED
      BY <2>1, <3>1 DEF Blank, None, Partial
  <2>4. brim' \in BOOLEAN
    BY <2>1, <1>0
  <2>5. /\ pc' \in {"receive", "unpack", "stuck"}
        /\ pc' = "stuck" => pc = "parse last"
    BY <2>1
  <2>6. Typing'
    BY <2>1, <2>2, <2>3, <2>4, <2>5, <1>0 DEF Typing
  <2> QED
    BY <2>1, <2>5, <2>6 DEF Typed
<1>7. CASE UNCHANGED vars
  <2>1. UNCHANGED <<sent, closed, stream, rbuf, pc, packet, got, cut, torn, partly, full, brim>>
    BY <1>7 DEF vars, sendVars, readVars, history
  <2>2. Typing'
    BY <2>1, <1>0 DEF Typing
  <2> QED
    BY <2>1, <2>2 DEF Typed
<1> QED
  BY <1>1, <1>2, <1>3, <1>4, <1>5, <1>6, <1>7 DEF Next, Read

(* The variables of a connection keep their types: neither the buffer nor  *)
(* the socket ever holds more than there is room for, whatever is sent and *)
(* however it is split (connection.cpp:126-210).                           *)
THEOREM FramingTypeCorrect == Spec => []TypeOK
<1>1. Typed => TypeOK
  BY TypeParts DEF Typed
<1> QED
  BY TypedInit, TypedStep, <1>1, PTL DEF Spec

----------------------------------------------------------------------------
(* Nothing is lost on the way. *)

(* Positions are natural numbers.                                           *)
LEMMA SumNat ==
  ASSUME NEW n \in Nat, NEW l \in Nat
  PROVE  n + l \in Nat /\ (l = 0 => n + l = n)
OBVIOUS

(* The units that a packet in hand has been read from, by what the reader  *)
(* is about to do with it.                                                 *)
Header(q) == <<q.type, Len(q.value) + q.left>>
HandOf(c, q) == IF c \in {"refill", "parse", "parse last"} THEN Cat(Header(q), q.value) ELSE <<>>

(* The packet in hand as units: header and value so far, or all of it.      *)
LEMMA HandForm ==
  ASSUME NEW c, NEW q \in Partial, c \in {"parse", "parse last"} => q.left = 0
  PROVE  /\ HandOf(c, q) \in Units
         /\ Header(q) \in Units
         /\ HandOf(c, q) =
              CASE c = "refill" -> <<q.type, Len(q.value) + q.left>> \o q.value
                [] c \in {"parse", "parse last"} -> Pack(q)
                [] OTHER -> <<>>
<1>1. q.type \in Nat /\ q.value \in Units /\ q.left \in Nat /\ Len(q.value) \in Nat
  BY UnitsLen DEF Partial
<1>0. PICK n, l : n = Len(q.value) /\ l = q.left
  OBVIOUS
<1>2. Header(q) \in Units
  <2>1. PICK m : m = Len(q.value) + q.left
    OBVIOUS
  <2>2. m \in Nat
    <3>1. m = n + l /\ n \in Nat /\ l \in Nat
      BY <1>0, <1>1, <2>1, Zenon
    <3> QED
      BY <3>1, SumNat, Zenon
  <2> QED
    BY <1>1, <2>1, <2>2, PackType DEF Header
<1>3. Cat(Header(q), q.value) \in Units /\ <<>> \in Units
  BY <1>1, <1>2, CatType, EmptySeq DEF Units
<1>4. CASE c = "refill"
  BY <1>2, <1>3, <1>4, Zenon DEF HandOf, Header, Cat
<1>5. CASE c \in {"parse", "parse last"}
  <2>1. Len(q.value) + q.left = Len(q.value)
    <3>1. n + l = n
      <4>1. n \in Nat /\ l = 0
        BY <1>0, <1>1, <1>5, Zenon
      <4> QED
        BY <4>1, SumNat, Zenon
    <3> QED
      BY <3>1, <1>0, Zenon
  <2>2. Pack(q) = Cat(Header(q), q.value)
    BY <2>1, Zenon DEF Pack, Header, Cat
  <2>3. HandOf(c, q) = Cat(Header(q), q.value) /\ c # "refill"
    BY <1>5 DEF HandOf
  <2> QED
    BY <1>2, <1>3, <1>5, <2>2, <2>3, Zenon
<1>6. CASE c \notin {"refill", "parse", "parse last"}
  BY <1>2, <1>3, <1>6 DEF HandOf
<1> QED
  BY <1>4, <1>5, <1>6

(* InHand is that of the packet in hand now.                                *)
LEMMA HandNow == Typed => InHand = HandOf(pc, packet) /\ InHand \in Units
<1> SUFFICES ASSUME Typed
             PROVE  InHand = HandOf(pc, packet) /\ InHand \in Units
  OBVIOUS
<1>1. packet \in Partial /\ (pc \in {"parse", "parse last"} => packet.left = 0)
  BY DEF Typed, Typing
<1>2. PICK c, q : c = pc /\ q = packet
  OBVIOUS
<1>3. /\ HandOf(c, q) \in Units
      /\ HandOf(c, q) =
           CASE c = "refill" -> <<q.type, Len(q.value) + q.left>> \o q.value
             [] c \in {"parse", "parse last"} -> Pack(q)
             [] OTHER -> <<>>
  BY <1>1, <1>2, HandForm
<1>4. InHand = HandOf(pc, packet)
  BY <1>2, <1>3, Zenon DEF InHand
<1> QED
  BY <1>2, <1>3, <1>4, Zenon

(* The same in the next state. *)
LEMMA HandNext == Typed' => InHand' = HandOf(pc', packet') /\ InHand' \in Units
<1> SUFFICES ASSUME Typed'
             PROVE  InHand' = HandOf(pc', packet') /\ InHand' \in Units
  OBVIOUS
<1>1. packet' \in Partial /\ (pc' \in {"parse", "parse last"} => packet'.left = 0)
  BY DEF Typed, Typing
<1>2. PICK c, q : c = pc' /\ q = packet'
  OBVIOUS
<1>3. /\ HandOf(c, q) \in Units
      /\ HandOf(c, q) =
           CASE c = "refill" -> <<q.type, Len(q.value) + q.left>> \o q.value
             [] c \in {"parse", "parse last"} -> Pack(q)
             [] OTHER -> <<>>
  BY <1>1, <1>2, HandForm
<1>4. InHand' = HandOf(pc', packet')
  BY <1>2, <1>3, Zenon DEF InHand
<1> QED
  BY <1>2, <1>3, <1>4, Zenon

(* Without an overrun, what partial_unpack leaves in hand and in the       *)
(* buffer is the packet it was given and the data behind pos.              *)
LEMMA UnpackKeeps ==
  ASSUME Typing, NEW p \in Partial, NEW buf \in Units, Len(buf) <= BufferSize,
         NEW pos \in Nat, pos <= BufferSize, NEW k,
         k = pos + Least(p.left, BufferSize - pos),
         AfterUnpack(TakeValue(p, buf, pos), buf, k), ~torn'
  PROVE  /\ k <= Len(buf)
         /\ Header(packet') = Header(p)
         /\ Cat(HandOf(pc', packet'), rbuf')
              = Cat(Header(p), Cat(p.value, SubSeq(buf, pos + 1, Len(buf))))
<1>1. PICK n : n = Least(p.left, BufferSize - pos)
  OBVIOUS
<1>2. PICK q : q = TakeValue(p, buf, pos)
  OBVIOUS
<1>3. /\ n \in Nat /\ n <= p.left
      /\ q \in Partial /\ q.left = p.left - n /\ q.type = p.type
      /\ Len(q.value) = Len(p.value) + n
  <2>1. n \in Nat /\ n <= p.left /\ q \in Partial
    BY <1>1, <1>2, TakenProperties
  <2>2. q.left = p.left - n
    BY <1>1, <1>2, TakenProperties
  <2>3. q.type = p.type
    BY <1>1, <1>2, TakenProperties
  <2>4. Len(q.value) = Len(p.value) + n
    BY <1>1, <1>2, TakenProperties, SMTT(30)
  <2> QED
    BY <2>1, <2>2, <2>3, <2>4
<1>4. /\ packet' = q /\ rbuf' = SubSeq(buf, k + 1, Len(buf))
      /\ torn' = (torn \/ k > Len(buf))
      /\ pc' \in {"refill", "parse", "parse last"}
  <2>1. packet' = q
    BY <1>2 DEF AfterUnpack
  <2>2. Consume(buf, k) /\ pc' \in {"refill", "parse", "parse last"}
    BY Zenon DEF AfterUnpack, WrapAround
  <2>3. rbuf' = SubSeq(buf, k + 1, Len(buf)) /\ torn' = (torn \/ k > Len(buf))
    BY <2>2, Zenon DEF Consume
  <2> QED
    BY <2>1, <2>2, <2>3
<1>5. k = pos + n
  BY <1>1
<1>6. k \in Nat /\ Len(buf) \in Nat /\ k <= Len(buf)
  <2>1. k \in Nat /\ Len(buf) \in Nat
    BY <1>3, <1>5, UnitsLen
  <2>2. ~(k > Len(buf))
    BY <1>4
  <2> QED
    BY <2>1, <2>2
<1>7. Cat(q.value, SubSeq(buf, k + 1, Len(buf))) = Cat(p.value, SubSeq(buf, pos + 1, Len(buf)))
  <2>1. pos + n <= Len(buf)
    BY <1>5, <1>6
  <2>2. Cat(q.value, SubSeq(buf, pos + n + 1, Len(buf)))
          = Cat(p.value, SubSeq(buf, pos + 1, Len(buf)))
    BY <1>1, <1>2, <2>1, TakenRest
  <2> QED
    BY <1>5, <2>2, Zenon
<1>8. Header(q) = Header(p)
  <2>1. p.left \in Nat /\ Len(p.value) \in Nat
    BY UnitsLen DEF Partial
  <2>2. Len(q.value) + q.left = Len(p.value) + p.left
    <3>1. PICK a, b, c, d : a = Len(q.value) /\ b = q.left /\ c = Len(p.value) /\ d = p.left
      OBVIOUS
    <3>2. n \in Nat /\ a = c + n /\ b = d - n /\ c \in Nat /\ d \in Nat
      BY <1>3, <2>1, <3>1, Zenon
    <3>3. a + b = c + d
      BY <3>2
    <3> QED
      BY <3>1, <3>3, Zenon
  <2> QED
    BY <1>3, <2>2, Zenon DEF Header
<1>9. PICK h, v, r : h = Header(q) /\ v = q.value /\ r = SubSeq(buf, k + 1, Len(buf))
  OBVIOUS
<1>10. h \in Units /\ v \in Units /\ r \in Units
  <2>1. h \in Units
    <3>1. Header(q) \in Units
      <4>1. "refill" \in {"parse", "parse last"} => q.left = 0
        OBVIOUS
      <4> QED
        BY <1>3, <4>1, HandForm
    <3> QED
      BY <1>9, <3>1
  <2>2. v \in Units
    BY <1>3, <1>9 DEF Partial
  <2>3. r \in Units
    BY <1>6, <1>9, PastEnd
  <2> QED
    BY <2>1, <2>2, <2>3
<1>11. Cat(Cat(h, v), r) = Cat(h, Cat(v, r))
  BY <1>10, CatAssoc
<1>12. HandOf(pc', q) = Cat(h, v)
  BY <1>4, <1>9, Zenon DEF HandOf
<1> QED
  BY <1>4, <1>6, <1>7, <1>8, <1>9, <1>11, <1>12, Zenon

(* The first two units of a sequence and the rest. *)
LEMMA FirstTwo ==
  ASSUME NEW s \in Units, 2 <= Len(s)
  PROVE  /\ s = Cat(<<s[1], s[2]>>, SubSeq(s, 3, Len(s)))
         /\ SubSeq(s, 3, Len(s)) \in Units
         /\ s[1] \in Nat /\ s[2] \in Nat
<1>1. Len(s) \in Nat
  BY UnitsLen
<1>2. 2 \in 0..Len(s)
  BY <1>1
<1>3. /\ SubSeq(s, 1, 2) \in Units /\ Len(SubSeq(s, 1, 2)) = 2
      /\ SubSeq(s, 2 + 1, Len(s)) \in Units
      /\ s = Cat(SubSeq(s, 1, 2), SubSeq(s, 2 + 1, Len(s)))
  BY <1>2, CatSplit
<1>4. \A i \in 1..Len(s) : s[i] \in Nat
  BY ElementOfSeq DEF Units
<1>5. s[1] \in Nat /\ s[2] \in Nat
  BY <1>1, <1>4
<1>6. SubSeq(s, 1, 2)[1] = s[1] /\ SubSeq(s, 1, 2)[2] = s[2]
  <2>1. \A i \in 1..2 : s[i] \in Nat
    BY <1>1, <1>4
  <2>2. \A i \in 1..(2 - 1 + 1) : SubSeq(s, 1, 2)[i] = s[1 + i - 1]
    BY <2>1, SubSeqProperties
  <2> QED
    BY <2>2
<1>7. PICK t : t = SubSeq(s, 1, 2)
  OBVIOUS
<1>8. PICK u : u = <<s[1], s[2]>>
  OBVIOUS
<1>9. u \in Units /\ Len(u) = 2 /\ u[1] = s[1] /\ u[2] = s[2]
  BY <1>5, <1>8 DEF Units
<1>10. t = u
  <2>1. t \in Units /\ Len(t) = 2 /\ t[1] = s[1] /\ t[2] = s[2]
    BY <1>3, <1>6, <1>7, Zenon
  <2>2. \A i \in 1..Len(t) : t[i] = u[i]
    BY <2>1, <1>9
  <2>3. Len(t) = Len(u)
    BY <2>1, <1>9
  <2> QED
    BY <2>1, <2>2, <2>3, <1>9, SeqEqual DEF Units
<1>11. 2 + 1 = 3
  OBVIOUS
<1> QED
  BY <1>3, <1>5, <1>7, <1>8, <1>10, <1>11, Zenon

(* Four streams in a row.                                                   *)
LEMMA CatAssoc4 ==
  ASSUME NEW a \in Units, NEW b \in Units, NEW c \in Units, NEW d \in Units
  PROVE  Cat(Cat(a, Cat(b, c)), d) = Cat(Cat(a, b), Cat(c, d))
<1>1. Cat(a, Cat(b, c)) = Cat(Cat(a, b), c)
  BY CatAssoc
<1>2. PICK ab : ab = Cat(a, b)
  OBVIOUS
<1>3. ab \in Units
  BY <1>2, CatType
<1>4. Cat(Cat(ab, c), d) = Cat(ab, Cat(c, d))
  BY <1>3, CatAssoc
<1> QED
  BY <1>1, <1>2, <1>4, Zenon

(* The turns of the reader that deliver nothing move the data on.          *)
LEMMA Conserved ==
  ASSUME Typed, Typed', ReceiveData \/ UnpackFront \/ Refill, ~torn'
  PROVE  /\ sent' = sent /\ got' = got /\ cut' = cut /\ ~torn
         /\ Cat(Cat(InHand', rbuf'), stream') = Cat(Cat(InHand, rbuf), stream)
<1>0. /\ stream \in Units /\ rbuf \in Units /\ packet \in Partial
      /\ stream' \in Units /\ rbuf' \in Units
      /\ Len(stream) \in Nat /\ Len(rbuf) \in Nat /\ BufferSize \in Nat /\ 2 <= BufferSize
      /\ Len(rbuf) <= BufferSize
  BY UnitsLen, FramingAssumption DEF Typed, Typing
<1>h. /\ InHand = HandOf(pc, packet) /\ InHand \in Units
      /\ InHand' = HandOf(pc', packet') /\ InHand' \in Units
  BY HandNow, HandNext
<1>1. CASE ReceiveData
  <2>1. /\ UNCHANGED <<sent, got, cut, torn>> /\ pc = "receive"
        /\ pc' = IF rbuf' = <<>> THEN "receive" ELSE "unpack"
    BY <1>1 DEF ReceiveData, sendVars
  <2>2. PICK least :
          /\ least = IF stream = <<>> \/ Len(rbuf) = BufferSize THEN 0 ELSE 1
          /\ \E n \in Recv(rbuf, least) :
               rbuf' = rbuf \o SubSeq(stream, 1, n) /\ ReceiveInto(rbuf, n)
    BY <1>1, Zenon DEF ReceiveData
  <2>3. PICK n \in Recv(rbuf, least) :
          rbuf' = rbuf \o SubSeq(stream, 1, n) /\ ReceiveInto(rbuf, n)
    BY <2>2
  <2>4. n \in 0..Len(stream)
    <3>1. least \in Nat
      BY <2>2
    <3>2. n \in Nat /\ n <= Len(stream)
      BY <1>0, <3>1, RecvProperties
    <3> QED
      BY <1>0, <3>2
  <2>5. PICK u : u = SubSeq(stream, 1, n)
    OBVIOUS
  <2>6. u \in Units /\ stream = Cat(u, SubSeq(stream, n + 1, Len(stream)))
    BY <1>0, <2>4, <2>5, CatSplit
  <2>7. stream' = SubSeq(stream, n + 1, Len(stream)) /\ rbuf' = Cat(rbuf, u)
    BY <2>3, <2>5, Zenon DEF ReceiveInto, Cat
  <2>8. Cat(Cat(rbuf, u), stream') = Cat(rbuf, Cat(u, stream'))
    BY <1>0, <2>6, CatAssoc
  <2>9. HandOf(pc, packet) = <<>> /\ HandOf(pc', packet') = <<>>
    BY <2>1 DEF HandOf
  <2>10. Cat(rbuf', stream') = Cat(rbuf, stream)
    BY <2>6, <2>7, <2>8, Zenon
  <2>11. Cat(<<>>, rbuf') = rbuf' /\ Cat(<<>>, rbuf) = rbuf
    BY <1>0, CatEmpty
  <2> QED
    BY <1>h, <2>1, <2>9, <2>10, <2>11
<1>2. CASE UnpackFront
  <2>1. PICK p \in Partial :
           /\ p.type = At(rbuf, 1) /\ p.value = <<>> /\ p.left = At(rbuf, 2)
           /\ AfterUnpack(TakeValue(p, rbuf, 2), rbuf, 2 + Least(p.left, BufferSize - 2))
    BY <1>2, FrontForm
  <2>2. PICK k : k = 2 + Least(p.left, BufferSize - 2)
    OBVIOUS
  <2>3. /\ k <= Len(rbuf)
        /\ Cat(HandOf(pc', packet'), rbuf')
             = Cat(Header(p), Cat(p.value, SubSeq(rbuf, 2 + 1, Len(rbuf))))
    <3>1. Typing /\ 2 \in Nat
      BY DEF Typed
    <3>2. AfterUnpack(TakeValue(p, rbuf, 2), rbuf, k)
      BY <2>1, <2>2, Zenon
    <3> QED
      BY <1>0, <2>2, <3>1, <3>2, UnpackKeeps
  <2>4. 2 <= Len(rbuf)
    <3>1. Least(p.left, BufferSize - 2) \in Nat
      <4>1. p.left \in Nat /\ BufferSize - 2 \in Nat
        BY <1>0 DEF Partial
      <4> QED
        BY <4>1, LeastProperties
    <3> QED
      BY <1>0, <2>2, <2>3, <3>1
  <2>5. /\ rbuf = Cat(<<rbuf[1], rbuf[2]>>, SubSeq(rbuf, 3, Len(rbuf)))
        /\ SubSeq(rbuf, 3, Len(rbuf)) \in Units
        /\ rbuf[1] \in Nat /\ rbuf[2] \in Nat
    BY <1>0, <2>4, FirstTwo
  <2>6. Header(p) = <<rbuf[1], rbuf[2]>>
    <3>1. p.type = rbuf[1] /\ p.left = rbuf[2]
      BY <1>0, <2>1, <2>4 DEF At
    <3>2. Len(p.value) = 0
      BY <2>1, EmptySeq
    <3>3. Len(p.value) + p.left = rbuf[2]
      BY <3>1, <3>2, <2>5
    <3> QED
      BY <3>1, <3>3, Zenon DEF Header
  <2>7. Cat(p.value, SubSeq(rbuf, 3, Len(rbuf))) = SubSeq(rbuf, 3, Len(rbuf))
    BY <2>1, <2>5, CatEmpty
  <2>8. Cat(InHand', rbuf') = rbuf
    <3>1. 2 + 1 = 3
      OBVIOUS
    <3> QED
      BY <1>h, <2>3, <2>5, <2>6, <2>7, <3>1, Zenon
  <2>9. pc = "unpack" /\ UNCHANGED <<sent, stream, got, cut>>
    BY <1>2, <2>1 DEF UnpackFront, AfterUnpack, sendVars
  <2>10. ~torn
    BY <2>1 DEF AfterUnpack, Consume, WrapAround
  <2>11. InHand = <<>>
    BY <1>h, <2>9 DEF HandOf
  <2>12. Cat(<<>>, rbuf) = rbuf
    BY <1>0, CatEmpty
  <2> QED
    BY <2>8, <2>9, <2>10, <2>11, <2>12
<1>3. CASE Refill
  <2>1. PICK n \in Recv(<<>>, 0), buf \in Units :
           /\ n \in 0..Len(stream) /\ buf = SubSeq(stream, 1, n) /\ Len(buf) = n
           /\ n <= BufferSize
           /\ ReceiveInto(<<>>, n)
           /\ AfterUnpack(TakeValue(packet, buf, 0), buf, 0 + Least(packet.left, BufferSize - 0))
    BY <1>3, RefillForm
  <2>2. PICK k : k = 0 + Least(packet.left, BufferSize - 0)
    OBVIOUS
  <2>3. Cat(HandOf(pc', packet'), rbuf')
          = Cat(Header(packet), Cat(packet.value, SubSeq(buf, 0 + 1, Len(buf))))
    <3>0. Len(buf) <= BufferSize
      BY <2>1, Zenon
    <3>1. Typing
      BY DEF Typed
    <3>2. AfterUnpack(TakeValue(packet, buf, 0), buf, k)
      BY <2>1, <2>2, Zenon
    <3>3. 0 \in Nat /\ 0 <= BufferSize
      BY <1>0
    <3> QED
      BY <1>0, <2>2, <3>0, <3>1, <3>2, <3>3, UnpackKeeps
  <2>4. SubSeq(buf, 0 + 1, Len(buf)) = buf
    <3>1. 0 + 1 = 1
      OBVIOUS
    <3>2. SubSeq(buf, 1, Len(buf)) = buf
      BY SubSeqFull DEF Units
    <3> QED
      BY <3>1, <3>2, Zenon
  <2>5. pc = "refill" /\ rbuf = <<>> /\ UNCHANGED <<sent, got, cut>> /\ ~torn
    BY <1>3, <2>1 DEF Refill, AfterUnpack, Consume, WrapAround, sendVars, Typed
  <2>6. stream = Cat(buf, stream')
    <3>1. stream = Cat(SubSeq(stream, 1, n), SubSeq(stream, n + 1, Len(stream)))
      BY <1>0, <2>1, CatSplit
    <3> QED
      BY <2>1, <3>1, Zenon DEF ReceiveInto
  <2>7. PICK h, v : h = Header(packet) /\ v = packet.value
    OBVIOUS
  <2>8. h \in Units /\ v \in Units
    <3>1. "refill" \in {"parse", "parse last"} => packet.left = 0
      OBVIOUS
    <3>2. Header(packet) \in Units
      BY <1>0, <3>1, HandForm
    <3>3. packet.value \in Units
      BY <1>0 DEF Partial
    <3> QED
      BY <2>7, <3>2, <3>3, Zenon
  <2>9. InHand = Cat(h, v)
    BY <1>h, <2>5, <2>7 DEF HandOf
  <2>10. Cat(Cat(h, Cat(v, buf)), stream') = Cat(Cat(h, v), Cat(buf, stream'))
    BY <1>0, <2>8, CatAssoc4
  <2>11. Cat(InHand, <<>>) = InHand
    BY <1>h, CatEmpty
  <2>12. Cat(Cat(InHand', rbuf'), stream') = Cat(Cat(InHand, rbuf), stream)
    BY <1>h, <2>3, <2>4, <2>5, <2>6, <2>7, <2>9, <2>10, <2>11, Zenon
  <2> QED
    BY <2>5, <2>12
<1> QED
  BY <1>1, <1>2, <1>3

(* While framing holds, what was sent is what was parsed and some packets  *)
(* more, and these are what the reader has in hand, in its buffer and on   *)
(* the way.                                                                *)
Intact ==
  ~cut /\ ~torn =>
    /\ got \in Seq(Packets)
    /\ \E rest \in Seq(Packets) :
         /\ sent = got \o rest
         /\ Cat(PackAll(got), PackAll(rest)) = PackAll(sent)
         /\ Cat(Cat(InHand, rbuf), stream) = PackAll(rest)

(* A packet moves from the front of a sequence to the end of the one       *)
(* before it.                                                              *)
LEMMA OneOver ==
  ASSUME NEW g \in Seq(Packets), NEW r \in Seq(Packets), r # <<>>
  PROVE  /\ Head(r) \in Packets /\ Tail(r) \in Seq(Packets)
         /\ Append(g, Head(r)) \in Seq(Packets)
         /\ Append(g, Head(r)) \o Tail(r) = g \o r
         /\ Len(g) < Len(g \o r) /\ (g \o r)[Len(g) + 1] = Head(r)
         /\ Cat(PackAll(Append(g, Head(r))), PackAll(Tail(r))) = Cat(PackAll(g), PackAll(r))
<1>1. PICK h, t : h = Head(r) /\ t = Tail(r)
  OBVIOUS
<1>2. h \in Packets /\ t \in Seq(Packets) /\ Len(t) = Len(r) - 1
      /\ \A i \in 1..Len(t) : t[i] = r[i + 1]
  BY <1>1, HeadTailProperties
<1>3. /\ Append(g, h) \in Seq(Packets)
      /\ Append(g, h) = g \o <<h>>
  BY <1>2, AppendProperties, AppendIsConcat
<1>4. Len(r) \in Nat \ {0} /\ Len(g) \in Nat /\ h = r[1]
  BY <1>1, EmptySeq, LenProperties
<1>5. <<h>> \in Seq(Packets)
  BY <1>2
<1>6. <<h>> \o t = r
  <2>1. PICK u : u = <<h>>
    OBVIOUS
  <2>2. u \in Seq(Packets) /\ Len(u) = 1 /\ u[1] = h
    BY <1>2, <2>1
  <2>3. /\ u \o t \in Seq(Packets) /\ Len(u \o t) = Len(u) + Len(t)
        /\ \A i \in 1..(Len(u) + Len(t)) : (u \o t)[i] = IF i <= Len(u) THEN u[i] ELSE t[i - Len(u)]
    <3>1. t \in Seq(Packets) /\ u \in Seq(Packets)
      BY <1>2, <2>2, Zenon
    <3> QED
      BY <3>1, ConcatProperties, Zenon
  <2>4. PICK w : w = u \o t
    OBVIOUS
  <2>5. w \in Seq(Packets) /\ Len(w) = Len(r)
    BY <1>2, <1>4, <2>2, <2>3, <2>4
  <2>6. ASSUME NEW i \in 1..Len(w)
        PROVE  w[i] = r[i]
    <3>1. i \in 1..(Len(u) + Len(t))
      BY <1>2, <1>4, <2>2, <2>5
    <3>2. w[i] = IF i <= Len(u) THEN u[i] ELSE t[i - Len(u)]
      BY <2>3, <2>4, <3>1
    <3>3. CASE i = 1
      BY <1>4, <2>2, <3>2, <3>3
    <3>4. CASE i # 1
      <4>1. i - 1 \in 1..Len(t) /\ (i - 1) + 1 = i /\ ~(i <= 1)
        BY <1>2, <1>4, <2>5, <3>4
      <4> QED
        BY <1>2, <2>2, <3>2, <4>1
    <3> QED
      BY <3>3, <3>4
  <2>7. w = r
    BY <2>5, <2>6, SeqEqual
  <2> QED
    BY <2>1, <2>4, <2>7, Zenon
<1>7. (g \o <<h>>) \o t = g \o (<<h>> \o t)
  <2>1. PICK u : u = <<h>>
    OBVIOUS
  <2>2. (g \o u) \o t = g \o (u \o t)
    BY <1>2, <1>5, <2>1, ConcatAssociative
  <2> QED
    BY <2>1, <2>2, Zenon
<1>8. Append(g, h) \o t = g \o r
  BY <1>3, <1>6, <1>7, Zenon
<1>9. Len(g) < Len(g \o r) /\ (g \o r)[Len(g) + 1] = h
  <2>1. /\ Len(g \o r) = Len(g) + Len(r)
        /\ \A i \in 1..(Len(g) + Len(r)) : (g \o r)[i] = IF i <= Len(g) THEN g[i] ELSE r[i - Len(g)]
    BY ConcatProperties
  <2>2. PICK gr : gr = g \o r
    OBVIOUS
  <2>3. /\ Len(g) + 1 \in 1..(Len(g) + Len(r)) /\ ~(Len(g) + 1 <= Len(g))
        /\ (Len(g) + 1) - Len(g) = 1 /\ Len(g) < Len(g) + Len(r)
    BY <1>4
  <2> QED
    BY <1>4, <2>1, <2>2, <2>3
<1>10. PackAll(Append(g, h)) = Cat(PackAll(g), Pack(h))
  BY <1>2, PackAllAppend
<1>11. PackAll(r) = Cat(Pack(h), PackAll(t))
  BY <1>1, PackAllFirst
<1>12. Cat(Cat(PackAll(g), Pack(h)), PackAll(t)) = Cat(PackAll(g), Cat(Pack(h), PackAll(t)))
  <2>1. PackAll(g) \in Units /\ Pack(h) \in Units /\ PackAll(t) \in Units
    BY <1>2, PackAllType, PacketUnits
  <2> QED
    BY <2>1, CatAssoc
<1> QED
  BY <1>1, <1>2, <1>3, <1>8, <1>9, <1>10, <1>11, <1>12, Zenon

(* A packet more is sent. *)
LEMMA OneMore ==
  ASSUME NEW g \in Seq(Packets), NEW r \in Seq(Packets), NEW p \in Packets,
         Cat(PackAll(g), PackAll(r)) = PackAll(g \o r)
  PROVE  /\ Append(r, p) \in Seq(Packets)
         /\ g \o Append(r, p) = Append(g \o r, p)
         /\ Cat(PackAll(g), PackAll(Append(r, p))) = PackAll(Append(g \o r, p))
<1>1. PICK s : s = g \o r
  OBVIOUS
<1>2. s \in Seq(Packets)
  BY <1>1, ConcatProperties
<1>3. PICK u : u = <<p>>
  OBVIOUS
<1>4. u \in Seq(Packets)
  BY <1>3
<1>5. /\ Append(r, p) \in Seq(Packets) /\ Append(r, p) = r \o u /\ Append(s, p) = s \o u
  BY <1>2, <1>3, AppendProperties, AppendIsConcat
<1>6. (g \o r) \o u = g \o (r \o u)
  BY <1>4, ConcatAssociative
<1>7. /\ PackAll(Append(r, p)) = Cat(PackAll(r), Pack(p))
      /\ PackAll(Append(s, p)) = Cat(PackAll(s), Pack(p))
  BY <1>2, PackAllAppend
<1>8. Cat(Cat(PackAll(g), PackAll(r)), Pack(p)) = Cat(PackAll(g), Cat(PackAll(r), Pack(p)))
  <2>1. PackAll(g) \in Units /\ PackAll(r) \in Units /\ Pack(p) \in Units
    BY PackAllType, PacketUnits
  <2> QED
    BY <2>1, CatAssoc
<1> QED
  BY <1>1, <1>5, <1>6, <1>7, <1>8, Zenon

(* Nothing has been sent at first.                                          *)
LEMMA IntactInit == Init => Intact
<1> SUFFICES ASSUME Init
             PROVE  Intact
  OBVIOUS
<1>1. <<>> \in Seq(Packets) /\ <<>> \in Units
  BY EmptySeq DEF Units
<1>2. InHand = <<>>
  BY DEF Init, InHand
<1>3. Cat(<<>>, <<>>) = <<>>
  BY <1>1, CatEmpty
<1>4. <<>> \o <<>> = <<>>
  BY <1>1, ConcatEmptySeq
<1>5. sent = <<>> /\ got = <<>> /\ rbuf = <<>> /\ stream = <<>>
  BY DEF Init
<1>6. Cat(PackAll(got), PackAll(<<>>)) = PackAll(sent)
  BY <1>3, <1>5, PackAllEmpty, Zenon
<1>7. Cat(Cat(InHand, rbuf), stream) = PackAll(<<>>)
  BY <1>2, <1>3, <1>5, PackAllEmpty, Zenon
<1>8. sent = got \o <<>>
  BY <1>4, <1>5, Zenon
<1>9. got \in Seq(Packets)
  BY <1>1, <1>5, Zenon
<1> QED
  BY <1>1, <1>6, <1>7, <1>8, <1>9, Zenon DEF Intact

(* What is parsed in front of x, if the two are packets, is the first of   *)
(* them, and x is the others.                                              *)
LEMMA ParsedIsNext ==
  ASSUME Typed, Parse, NEW rest \in Seq(Packets), NEW x \in Units,
         Cat(InHand, x) = PackAll(rest)
  PROVE  /\ rest # <<>> /\ got' = Append(got, Head(rest))
         /\ Tail(rest) \in Seq(Packets) /\ x = PackAll(Tail(rest))
<1>0. /\ packet \in Partial
      /\ pc \in {"parse", "parse last"} /\ packet.left = 0
      /\ got' = Append(got, [type |-> packet.type, value |-> packet.value])
  BY DEF Typed, Typing, Parse
<1>1. PICK t, v, l : t = packet.type /\ v = packet.value /\ l = Len(packet.value) + packet.left
  OBVIOUS
<1>2. t \in Nat /\ v \in Units /\ Len(v) \in Nat
  BY <1>0, <1>1, UnitsLen DEF Partial
<1>3. l = Len(v)
  <2>1. packet.left = 0
    BY <1>0, Zenon
  <2>2. Len(v) + 0 = Len(v)
    <3>1. 0 \in Nat
      OBVIOUS
    <3> QED
      BY <1>2, <3>1, SumNat, Zenon
  <2> QED
    BY <1>1, <2>1, <2>2, Zenon
<1>4. InHand = Cat(<<t, l>>, v)
  <2>1. InHand = HandOf(pc, packet)
    BY HandNow
  <2>2. pc \in {"refill", "parse", "parse last"}
    BY <1>0
  <2> QED
    BY <1>1, <2>1, <2>2, Zenon DEF HandOf, Header
<1>5. Cat(Cat(<<t, l>>, v), x) = PackAll(rest)
  BY <1>4, Zenon
<1>6. l \in Nat
  BY <1>2, <1>3, Zenon
<1>7. /\ rest # <<>> /\ Head(rest) \in Packets /\ t = Head(rest).type
      /\ Tail(rest) \in Seq(Packets)
      /\ v = Head(rest).value /\ x = PackAll(Tail(rest))
  BY <1>2, <1>3, <1>5, <1>6, Decode
<1>8. Head(rest) = [type |-> t, value |-> v]
  BY <1>7, PacketUnits
<1> QED
  BY <1>0, <1>1, <1>7, <1>8, Zenon

(* A write that is not short sends the whole packet.                       *)
LEMMA SentWhole ==
  ASSUME Typed, NEW p \in Packets, SendPacket(p), ~cut'
  PROVE  /\ sent' = Append(sent, p) /\ stream' = Cat(stream, Pack(p)) /\ ~cut
         /\ UNCHANGED <<closed, rbuf, pc, packet, got, torn, partly, full, brim>>
<1>1. PICK w, c : w = Pack(p) /\ c = Least(SockCap - Len(stream), Len(w))
  BY Zenon
<1>2. /\ sent' = Append(sent, p)
      /\ stream' = stream \o SubSeq(w, 1, c)
      /\ cut' = (cut \/ SockCap - Len(stream) < Len(w))
      /\ UNCHANGED <<closed, readVars, torn, partly, full, brim>>
  BY <1>1 DEF SendPacket
<1>3. ~cut /\ ~(SockCap - Len(stream) < Len(w))
  BY <1>2
<1>4. w \in Units /\ Len(w) \in Nat /\ stream \in Units /\ Len(stream) \in Nat
  BY <1>1, PacketUnits, UnitsLen DEF Typed, Typing
<1>5. c = Len(w)
  <2>1. SockCap \in Nat
    BY FramingAssumption
  <2>2. PICK r, m : r = SockCap - Len(stream) /\ m = Len(w)
    OBVIOUS
  <2>3. r \in Int /\ m \in Nat /\ ~(r < m)
    BY <1>3, <1>4, <2>1, <2>2
  <2>4. Least(r, m) = m
    BY <2>3 DEF Least
  <2> QED
    BY <1>1, <2>2, <2>4, Zenon
<1>6. stream' = Cat(stream, w)
  <2>1. SubSeq(w, 1, Len(w)) = w
    BY <1>4, SubSeqFull DEF Units
  <2> QED
    BY <1>2, <1>5, <2>1, Zenon DEF Cat
<1> QED
  BY <1>1, <1>2, <1>3, <1>6 DEF readVars

(* Every step moves units along the stream or breaks it.                    *)
LEMMA IntactStep == Typed /\ Typed' /\ Intact /\ [Next]_vars => Intact'
<1> SUFFICES ASSUME Typed, Typed', Intact, [Next]_vars, ~cut', ~torn'
             PROVE  /\ got' \in Seq(Packets)
                    /\ \E rest \in Seq(Packets) :
                         /\ sent' = got' \o rest
                         /\ Cat(PackAll(got'), PackAll(rest)) = PackAll(sent')
                         /\ Cat(Cat(InHand', rbuf'), stream') = PackAll(rest)
  BY Zenon DEF Intact
<1>0. /\ stream \in Units /\ rbuf \in Units /\ packet \in Partial /\ InHand \in Units
      /\ Len(stream) \in Nat
  BY HandNow, UnitsLen DEF Typed, Typing
<1>1. ASSUME NEW p \in Packets, SendPacket(p)
      PROVE  /\ got' \in Seq(Packets)
             /\ \E rest \in Seq(Packets) :
                  /\ sent' = got' \o rest
                  /\ Cat(PackAll(got'), PackAll(rest)) = PackAll(sent')
                  /\ Cat(Cat(InHand', rbuf'), stream') = PackAll(rest)
  <2>1. PICK w : w = Pack(p)
    OBVIOUS
  <2>2. sent' = Append(sent, p) /\ stream' = Cat(stream, w)
    BY <1>1, <2>1, SentWhole
  <2>3. ~cut /\ ~torn
    BY <1>1, SentWhole
  <2>4. UNCHANGED <<rbuf, pc, packet, got>>
    BY <1>1, SentWhole
  <2>5. w \in Units
    BY <2>1, PacketUnits
  <2>8. PICK rest \in Seq(Packets) :
          /\ sent = got \o rest
          /\ Cat(PackAll(got), PackAll(rest)) = PackAll(sent)
          /\ Cat(Cat(InHand, rbuf), stream) = PackAll(rest)
    BY <2>3, Zenon DEF Intact
  <2>9. got \in Seq(Packets)
    BY <2>3, Zenon DEF Intact
  <2>10. PICK g : g = got
    OBVIOUS
  <2>11. /\ Append(rest, p) \in Seq(Packets)
         /\ g \o Append(rest, p) = Append(g \o rest, p)
         /\ Cat(PackAll(g), PackAll(Append(rest, p))) = PackAll(Append(g \o rest, p))
    <3>1. g \in Seq(Packets) /\ Cat(PackAll(g), PackAll(rest)) = PackAll(g \o rest)
      BY <2>8, <2>9, <2>10, Zenon
    <3> QED
      BY <3>1, OneMore
  <2>12. InHand' = InHand
    BY <2>4 DEF InHand
  <2>13. Cat(Cat(InHand', rbuf'), stream') = PackAll(Append(rest, p))
    <3>1. PICK h : h = Cat(InHand, rbuf)
      OBVIOUS
    <3>2. h \in Units
      BY <1>0, <3>1, CatType
    <3>3. Cat(Cat(h, stream), w) = Cat(h, Cat(stream, w))
      BY <1>0, <2>5, <3>2, CatAssoc
    <3>4. PackAll(Append(rest, p)) = Cat(PackAll(rest), Pack(p))
      BY PackAllAppend
    <3> QED
      BY <2>1, <2>2, <2>4, <2>8, <2>12, <3>1, <3>3, <3>4, Zenon
  <2> QED
    BY <2>2, <2>4, <2>8, <2>9, <2>10, <2>11, <2>13, Zenon
<1>2. CASE ReceiveData \/ UnpackFront \/ Refill
  <2>1. /\ sent' = sent /\ got' = got /\ cut' = cut /\ ~torn
        /\ Cat(Cat(InHand', rbuf'), stream') = Cat(Cat(InHand, rbuf), stream)
    BY <1>2, Conserved
  <2>2. ~cut
    BY <2>1
  <2> QED
    BY <2>1, <2>2, Zenon DEF Intact
<1>3. CASE Parse
  <2>1. UNCHANGED <<sent, stream, rbuf, cut, torn>>
    BY <1>3 DEF Parse, sendVars
  <2>2. ~cut /\ ~torn
    BY <2>1
  <2>3. PICK rest \in Seq(Packets) :
          /\ sent = got \o rest
          /\ Cat(PackAll(got), PackAll(rest)) = PackAll(sent)
          /\ Cat(Cat(InHand, rbuf), stream) = PackAll(rest)
    BY <2>2, Zenon DEF Intact
  <2>4. got \in Seq(Packets)
    BY <2>2, Zenon DEF Intact
  <2>5. /\ rest # <<>> /\ got' = Append(got, Head(rest))
        /\ Cat(rbuf, stream) = PackAll(Tail(rest))
    <3>1. PICK x : x = Cat(rbuf, stream)
      OBVIOUS
    <3>2. x \in Units
      BY <1>0, <3>1, CatType
    <3>3. Cat(Cat(InHand, rbuf), stream) = Cat(InHand, Cat(rbuf, stream))
      BY <1>0, CatAssoc
    <3>4. Cat(InHand, x) = PackAll(rest)
      BY <2>3, <3>1, <3>3, Zenon
    <3> QED
      BY <1>3, <3>1, <3>2, <3>4, ParsedIsNext
  <2>6. PICK g : g = got
    OBVIOUS
  <2>7. /\ Tail(rest) \in Seq(Packets) /\ Append(g, Head(rest)) \in Seq(Packets)
        /\ Append(g, Head(rest)) \o Tail(rest) = g \o rest
        /\ Cat(PackAll(Append(g, Head(rest))), PackAll(Tail(rest)))
             = Cat(PackAll(g), PackAll(rest))
    BY <2>4, <2>5, <2>6, OneOver
  <2>8. InHand' = <<>>
    <3>1. pc' \notin {"refill", "parse", "parse last"}
      BY <1>3 DEF Parse
    <3> QED
      BY <3>1 DEF InHand
  <2>9. Cat(<<>>, rbuf) = rbuf
    BY <1>0, CatEmpty
  <2>10. Cat(Cat(InHand', rbuf'), stream') = PackAll(Tail(rest))
    BY <2>1, <2>5, <2>8, <2>9, Zenon
  <2> QED
    BY <2>1, <2>3, <2>5, <2>6, <2>7, <2>10, Zenon
<1>4. CASE Close \/ UNCHANGED vars
  <2>1. UNCHANGED <<sent, stream, rbuf, pc, packet, got, cut, torn>>
    BY <1>4 DEF Close, readVars, history, vars, sendVars
  <2>2. ~cut /\ ~torn /\ InHand' = InHand
    BY <2>1 DEF InHand
  <2> QED
    BY <2>1, <2>2, Zenon DEF Intact
<1> QED
  BY <1>1, <1>2, <1>3, <1>4 DEF Next, Read

(* Intact says what StreamIntact says.                                      *)
LEMMA IntactIsIntact == Typed /\ Intact => StreamIntact
<1> SUFFICES ASSUME Typed, Intact, ~cut, ~torn
             PROVE  PackAll(got) \o InHand \o rbuf \o stream = PackAll(sent)
  BY DEF StreamIntact
<1>1. PICK rest \in Seq(Packets) :
        /\ Cat(PackAll(got), PackAll(rest)) = PackAll(sent)
        /\ Cat(Cat(InHand, rbuf), stream) = PackAll(rest)
  BY Zenon DEF Intact
<1>2. got \in Seq(Packets)
  BY Zenon DEF Intact
<1>3. PICK g, h : g = PackAll(got) /\ h = InHand
  OBVIOUS
<1>4. /\ g \in Units /\ h \in Units /\ rbuf \in Units /\ stream \in Units
  BY <1>2, <1>3, PackAllType, HandNow DEF Typed, Typing
<1>5. Cat(Cat(Cat(g, h), rbuf), stream) = Cat(g, Cat(Cat(h, rbuf), stream))
  <2>1. Cat(Cat(g, h), rbuf) = Cat(g, Cat(h, rbuf))
    BY <1>4, CatAssoc
  <2>2. PICK hr : hr = Cat(h, rbuf)
    OBVIOUS
  <2>3. hr \in Units
    BY <1>4, <2>2, CatType
  <2>4. Cat(Cat(g, hr), stream) = Cat(g, Cat(hr, stream))
    BY <1>4, <2>3, CatAssoc
  <2> QED
    BY <2>1, <2>2, <2>4, Zenon
<1>6. Cat(Cat(Cat(g, h), rbuf), stream) = PackAll(sent)
  BY <1>1, <1>3, <1>5, Zenon
<1> QED
  BY <1>3, <1>6, Zenon DEF Cat

(* Unless a write was short or a read ran over, what was parsed, what is   *)
(* in hand, in the buffer and on the way is what was sent, for every       *)
(* packet, buffer, socket and splitting (connection.cpp:145-172).          *)
THEOREM FramingIntact == Spec => []StreamIntact
<1>1. Init => Typed /\ Intact
  BY TypedInit, IntactInit
<1>2. (Typed /\ Intact) /\ [Next]_vars => (Typed /\ Intact)'
  BY TypedStep, IntactStep
<1> QED
  BY <1>1, <1>2, IntactIsIntact, PTL DEF Spec

----------------------------------------------------------------------------
(* Why a read runs over. *)

(* Unless a write was short, a recv left units behind or an answer was     *)
(* parsed with the buffer full: there is no overrun; the reader unpacks a  *)
(* full buffer, or whole packets, and reads on only from a full one.       *)
Whole ==
  ~cut /\ ~partly /\ ~brim =>
    /\ ~torn
    /\ pc = "unpack" => rbuf # <<>>
    /\ full /\ pc = "unpack" => Len(rbuf) = BufferSize
    /\ pc = "refill" => full
    /\ ~full => \E a, b \in Seq(Packets) :
                  Cat(InHand, rbuf) = PackAll(a) /\ stream = PackAll(b)

(* Nothing is cut off at first.                                             *)
LEMMA WholeInit == Init => Whole
<1> SUFFICES ASSUME Init
             PROVE  Whole
  OBVIOUS
<1>1. <<>> \in Seq(Packets) /\ <<>> \in Units
  BY EmptySeq DEF Units
<1>2. InHand = <<>>
  BY DEF Init, InHand
<1>3. Cat(<<>>, <<>>) = <<>>
  BY <1>1, CatEmpty
<1>4. rbuf = <<>> /\ stream = <<>>
  BY DEF Init
<1>5. Cat(InHand, rbuf) = PackAll(<<>>) /\ stream = PackAll(<<>>)
  BY <1>2, <1>3, <1>4, PackAllEmpty, Zenon
<1>6. ~torn /\ pc # "unpack" /\ pc # "refill"
  BY DEF Init
<1> QED
  BY <1>1, <1>5, <1>6, Zenon DEF Whole

(* With nothing left on the way, what is in hand and buffered is packets.  *)
LEMMA AllArrived ==
  ASSUME Typed', Intact', ~cut', ~torn', stream' = <<>>
  PROVE  \E a, b \in Seq(Packets) : Cat(InHand', rbuf') = PackAll(a) /\ stream' = PackAll(b)
<1>1. PICK rest \in Seq(Packets) : Cat(Cat(InHand', rbuf'), stream') = PackAll(rest)
  BY Zenon DEF Intact
<1>2. PICK h : h = Cat(InHand', rbuf')
  OBVIOUS
<1>3. h \in Units
  <2>1. InHand' \in Units /\ rbuf' \in Units
    BY HandNext DEF Typed, Typing
  <2> QED
    BY <1>2, <2>1, CatType
<1>4. Cat(h, <<>>) = h
  BY <1>3, CatEmpty
<1>5. <<>> \in Seq(Packets)
  BY EmptySeq
<1> QED
  BY <1>1, <1>2, <1>4, <1>5, PackAllEmpty, Zenon

(* A recv that leaves nothing behind it had room for fills the buffer or   *)
(* empties the socket.                                                     *)
LEMMA FullOrEmpty ==
  ASSUME Typed, NEW buf \in Units, Len(buf) <= BufferSize, NEW n \in 0..Len(stream),
         n <= BufferSize - Len(buf), ReceiveInto(buf, n), ~partly'
  PROVE  /\ ~partly
         /\ n = Least(Len(stream), BufferSize - Len(buf))
         /\ full' = (Len(buf) + n = BufferSize)
         /\ full' \/ stream' = <<>>
<1>1. /\ stream' = SubSeq(stream, n + 1, Len(stream))
      /\ partly' = (partly \/ n < Least(Len(stream), BufferSize - Len(buf)))
      /\ full' = (Len(buf) + n = BufferSize)
  BY Zenon DEF ReceiveInto
<1>2. stream \in Units /\ Len(stream) \in Nat /\ Len(buf) \in Nat /\ BufferSize \in Nat
  BY UnitsLen, FramingAssumption DEF Typed, Typing
<1>3. BufferSize - Len(buf) \in Nat
  BY <1>2
<1>4. PICK m : m = Least(Len(stream), BufferSize - Len(buf))
  OBVIOUS
<1>5. /\ m \in Nat /\ m <= Len(stream) /\ m <= BufferSize - Len(buf)
      /\ (m = Len(stream) \/ m = BufferSize - Len(buf))
  BY <1>2, <1>3, <1>4, LeastProperties
<1>6. ~partly /\ ~(n < m)
  BY <1>1, <1>4
<1>7. n = m
  BY <1>2, <1>5, <1>6
<1>8. CASE m = Len(stream)
  <2>1. n \in Nat /\ Len(stream) <= n
    BY <1>2, <1>7, <1>8
  <2>2. stream' = <<>>
    BY <1>1, <1>2, <2>1, PastEnd
  <2> QED
    BY <1>1, <1>4, <1>6, <1>7, <2>2
<1>9. CASE m = BufferSize - Len(buf)
  <2>1. Len(buf) + n = BufferSize
    BY <1>2, <1>7, <1>9
  <2>2. full'
    BY <1>1, <2>1
  <2> QED
    BY <1>1, <1>4, <1>6, <1>7, <2>2
<1> QED
  BY <1>5, <1>8, <1>9

(* A buffer of whole packets holds all of its first.                       *)
LEMMA FirstIsWhole ==
  ASSUME NEW s \in Units, s # <<>>, NEW a \in Seq(Packets), s = PackAll(a)
  PROVE  2 + s[2] <= Len(s) /\ s[2] \in Nat /\ 2 <= Len(s)
<1>1. a # <<>>
  BY PackAllEmpty
<1>2. Head(a) \in Packets /\ Tail(a) \in Seq(Packets)
  BY <1>1, HeadTailProperties
<1>3. PICK p, y : p = Pack(Head(a)) /\ y = PackAll(Tail(a))
  OBVIOUS
<1>4. p \in Units /\ Len(p) = 2 + Len(Head(a).value) /\ Head(a).value \in Units /\ y \in Units
  BY <1>2, <1>3, PacketUnits, PackAllType
<1>5. s = Cat(p, y)
  BY <1>1, <1>3, PackAllFirst
<1>6. Len(s) = Len(p) + Len(y) /\ Len(y) \in Nat /\ Len(p) \in Nat
  BY <1>4, <1>5, CatType, UnitsLen
<1>7. 2 <= Len(p)
  <2>1. Len(Head(a).value) \in Nat
    BY <1>4, UnitsLen
  <2> QED
    BY <1>4, <2>1
<1>8. 2 <= Len(s)
  BY <1>6, <1>7
<1>9. PICK t, l, x : t = s[1] /\ l = s[2] /\ x = SubSeq(s, 3, Len(s))
  OBVIOUS
<1>10. t \in Nat /\ l \in Nat /\ x \in Units /\ s = Cat(<<t, l>>, x)
  BY <1>8, <1>9, FirstTwo
<1>11. <<>> \in Units /\ Len(<<>>) = 0
  BY EmptySeq DEF Units
<1>12. Cat(Cat(<<t, l>>, <<>>), x) = PackAll(a)
  <2>1. PICK h : h = <<t, l>>
    OBVIOUS
  <2>2. h \in Units
    BY <1>10, <2>1, PackType, <1>11
  <2>3. Cat(h, <<>>) = h
    BY <2>2, CatEmpty
  <2> QED
    BY <1>10, <2>1, <2>3, Zenon
<1>13. l <= Len(<<>>) + Len(x)
  BY <1>10, <1>11, <1>12, Decode
<1>14. Len(s) = 2 + Len(x) /\ Len(x) \in Nat
  <2>1. PICK h : h = <<t, l>>
    OBVIOUS
  <2>2. h \in Units /\ Len(h) = 2
    <3>1. t \in Nat /\ l \in Nat
      BY <1>10, Zenon
    <3>2. <<t, l>> \in Units /\ Len(<<t, l>>) = 2
      BY <1>11, <3>1, PackType
    <3> QED
      BY <2>1, <3>2, Zenon
  <2>3. Len(Cat(h, x)) = Len(h) + Len(x)
    BY <1>10, <2>2, CatType
  <2>4. Len(x) \in Nat
    BY <1>10, UnitsLen
  <2> QED
    BY <1>10, <2>1, <2>2, <2>3, <2>4
<1> QED
  BY <1>8, <1>9, <1>10, <1>11, <1>13, <1>14

(* An overrun has one of the three causes, and only those.                  *)
LEMMA WholeStep ==
  Typed /\ Typed' /\ Intact /\ Intact' /\ Whole /\ [Next]_vars => Whole'
<1> SUFFICES ASSUME Typed, Typed', Intact, Intact', Whole, [Next]_vars,
                    ~cut', ~partly', ~brim'
             PROVE  /\ ~torn'
                    /\ pc' = "unpack" => rbuf' # <<>>
                    /\ full' /\ pc' = "unpack" => Len(rbuf') = BufferSize
                    /\ pc' = "refill" => full'
                    /\ ~full' => \E a, b \in Seq(Packets) :
                                   Cat(InHand', rbuf') = PackAll(a) /\ stream' = PackAll(b)
  BY Zenon DEF Whole
<1> DEFINE Goal ==
      /\ ~torn'
      /\ pc' = "unpack" => rbuf' # <<>>
      /\ full' /\ pc' = "unpack" => Len(rbuf') = BufferSize
      /\ pc' = "refill" => full'
      /\ ~full' => \E a, b \in Seq(Packets) :
                     Cat(InHand', rbuf') = PackAll(a) /\ stream' = PackAll(b)
<1>0. /\ stream \in Units /\ rbuf \in Units /\ packet \in Partial
      /\ Len(stream) \in Nat /\ Len(rbuf) \in Nat /\ BufferSize \in Nat /\ 2 <= BufferSize
      /\ Len(rbuf) <= BufferSize
      /\ stream' \in Units /\ rbuf' \in Units
  BY UnitsLen, FramingAssumption DEF Typed, Typing
<1>h. /\ InHand = HandOf(pc, packet) /\ InHand \in Units
      /\ InHand' = HandOf(pc', packet') /\ InHand' \in Units
  BY HandNow, HandNext
<1>w. ASSUME ~cut, ~partly, ~brim
      PROVE  /\ ~torn
             /\ pc = "unpack" => rbuf # <<>>
             /\ full /\ pc = "unpack" => Len(rbuf) = BufferSize
             /\ pc = "refill" => full
             /\ ~full => \E a, b \in Seq(Packets) :
                           Cat(InHand, rbuf) = PackAll(a) /\ stream = PackAll(b)
  BY <1>w, Zenon DEF Whole
<1>1. ASSUME NEW p \in Packets, SendPacket(p)
      PROVE  Goal
  <2>1. /\ stream' = Cat(stream, Pack(p)) /\ ~cut
        /\ UNCHANGED <<rbuf, pc, packet, torn, partly, full, brim>>
    BY <1>1, SentWhole
  <2>2. ~partly /\ ~brim /\ InHand' = InHand
    BY <2>1 DEF InHand
  <2>3. ASSUME ~full
        PROVE  \E a, b \in Seq(Packets) :
                 Cat(InHand', rbuf') = PackAll(a) /\ stream' = PackAll(b)
    <3>1. PICK a, b \in Seq(Packets) : Cat(InHand, rbuf) = PackAll(a) /\ stream = PackAll(b)
      BY <1>w, <2>1, <2>2, <2>3, Zenon
    <3>2. Append(b, p) \in Seq(Packets) /\ PackAll(Append(b, p)) = Cat(PackAll(b), Pack(p))
      BY PackAllAppend, AppendProperties
    <3> QED
      BY <2>1, <2>2, <3>1, <3>2, Zenon
  <2>4. /\ ~torn
        /\ pc = "unpack" => rbuf # <<>>
        /\ full /\ pc = "unpack" => Len(rbuf) = BufferSize
        /\ pc = "refill" => full
    BY <1>w, <2>1, <2>2
  <2> QED
    BY <2>1, <2>3, <2>4, Zenon
<1>2. CASE ReceiveData
  <2>1. /\ UNCHANGED <<packet, cut, torn, brim>> /\ pc = "receive"
        /\ pc' = IF rbuf' = <<>> THEN "receive" ELSE "unpack"
    BY <1>2 DEF ReceiveData
  <2>2. PICK least :
          /\ least = IF stream = <<>> \/ Len(rbuf) = BufferSize THEN 0 ELSE 1
          /\ \E n \in Recv(rbuf, least) :
               rbuf' = rbuf \o SubSeq(stream, 1, n) /\ ReceiveInto(rbuf, n)
    BY <1>2, Zenon DEF ReceiveData
  <2>3. PICK n \in Recv(rbuf, least) :
          rbuf' = rbuf \o SubSeq(stream, 1, n) /\ ReceiveInto(rbuf, n)
    BY <2>2
  <2>4. n \in 0..Len(stream) /\ n <= BufferSize - Len(rbuf)
    <3>1. least \in Nat
      BY <2>2
    <3>2. n \in Nat /\ n <= Len(stream) /\ n <= BufferSize - Len(rbuf)
      BY <1>0, <3>1, RecvProperties
    <3> QED
      BY <1>0, <3>2
  <2>5. /\ ~partly /\ full' = (Len(rbuf) + n = BufferSize)
        /\ full' \/ stream' = <<>>
    BY <1>0, <2>3, <2>4, FullOrEmpty
  <2>6. ~torn'
    <3>1. ~cut /\ ~brim
      BY <2>1
    <3> QED
      BY <1>w, <2>1, <2>5, <3>1
  <2>7. full' => Len(rbuf') = BufferSize
    <3>1. PICK u : u = SubSeq(stream, 1, n)
      OBVIOUS
    <3>2. u \in Units /\ Len(u) = n
      BY <1>0, <2>4, <3>1, CatSplit
    <3>3. Len(Cat(rbuf, u)) = Len(rbuf) + Len(u)
      BY <1>0, <3>2, CatType
    <3>4. rbuf' = Cat(rbuf, u)
      BY <2>3, <3>1, Zenon DEF Cat
    <3> QED
      BY <2>5, <3>2, <3>3, <3>4, Zenon
  <2>8. ~full' => \E a, b \in Seq(Packets) :
                    Cat(InHand', rbuf') = PackAll(a) /\ stream' = PackAll(b)
    BY <2>5, <2>6, AllArrived
  <2>9. pc' \in {"receive", "unpack"} /\ (pc' = "unpack" => rbuf' # <<>>)
    BY <2>1
  <2>10. pc' # "refill"
    BY <2>9
  <2> QED
    BY <2>6, <2>7, <2>8, <2>9, <2>10, Zenon
<1>3. CASE UnpackFront
  <2>1. PICK p \in Partial :
           /\ p.type = At(rbuf, 1) /\ p.value = <<>> /\ p.left = At(rbuf, 2)
           /\ AfterUnpack(TakeValue(p, rbuf, 2), rbuf, 2 + Least(p.left, BufferSize - 2))
    BY <1>3, FrontForm
  <2>2. PICK m, k : m = Least(p.left, BufferSize - 2) /\ k = 2 + m
    OBVIOUS
  <2>3. pc = "unpack" /\ UNCHANGED <<stream, cut, partly, full, brim>>
    BY <1>3, <2>1 DEF UnpackFront, AfterUnpack
  <2>4. ~cut /\ ~partly /\ ~brim
    BY <2>3
  <2>5. /\ torn' = (torn \/ k > Len(rbuf))
        /\ pc' \in {"refill", "parse", "parse last"}
        /\ pc' = "refill" => k = BufferSize /\ packet'.left > 0
    <3>1. Typing /\ 2 \in Nat
      BY DEF Typed
    <3>2. AfterUnpack(TakeValue(p, rbuf, 2), rbuf, k) /\ k = 2 + Least(p.left, BufferSize - 2)
      BY <2>1, <2>2, Zenon
    <3>a. torn' = (torn \/ k > Len(rbuf))
      BY <1>0, <3>1, <3>2, UnpackTyped
    <3>b. pc' \in {"refill", "parse", "parse last"}
      BY <1>0, <3>1, <3>2, UnpackTyped
    <3>c. pc' = "refill" => k = BufferSize
      BY <1>0, <3>1, <3>2, UnpackTyped
    <3>d. pc' = "refill" => packet'.left > 0
      BY <1>0, <3>1, <3>2, UnpackTyped
    <3> QED
      BY <3>a, <3>b, <3>c, <3>d
  <2>6. m \in Nat /\ m <= BufferSize - 2 /\ m <= p.left /\ p.left \in Nat
    <3>1. p.left \in Nat /\ BufferSize - 2 \in Nat
      BY <1>0 DEF Partial
    <3> QED
      BY <2>2, <3>1, LeastProperties
  <2>7. rbuf # <<>> /\ (full => Len(rbuf) = BufferSize) /\ ~torn
    BY <1>w, <2>3, <2>4
  <2>8. ASSUME ~full
        PROVE  2 + p.left <= Len(rbuf)
    <3>1. PICK a \in Seq(Packets) : Cat(InHand, rbuf) = PackAll(a)
      BY <1>w, <2>4, <2>8, Zenon
    <3>2. InHand = <<>>
      BY <1>h, <2>3 DEF HandOf
    <3>3. rbuf = PackAll(a)
      BY <1>0, <3>1, <3>2, CatEmpty
    <3>4. 2 + rbuf[2] <= Len(rbuf) /\ 2 <= Len(rbuf)
      BY <1>0, <2>7, <3>3, FirstIsWhole
    <3>5. p.left = rbuf[2]
      BY <2>1, <3>4 DEF At
    <3> QED
      BY <3>4, <3>5, Zenon
  <2>9. k <= Len(rbuf)
    <3>1. CASE full
      <4>1. k <= BufferSize
        BY <1>0, <2>2, <2>6
      <4> QED
        BY <2>7, <3>1, <4>1, Zenon
    <3>2. CASE ~full
      BY <1>0, <2>2, <2>6, <2>8, <3>2
    <3> QED
      BY <3>1, <3>2
  <2>10. ~torn'
    <3>1. ~(k > Len(rbuf))
      BY <1>0, <2>2, <2>6, <2>9
    <3> QED
      BY <2>5, <2>7, <3>1
  <2>11. pc' = "refill" => full
    <3> SUFFICES ASSUME pc' = "refill", ~full
                 PROVE  FALSE
      OBVIOUS
    <3>1. k = BufferSize /\ packet'.left > 0
      BY <2>5
    <3>2. packet'.left = p.left - m
      <4>1. packet' = TakeValue(p, rbuf, 2)
        BY <2>1 DEF AfterUnpack
      <4>2. TakeValue(p, rbuf, 2).left = p.left - m
        BY <1>0, <2>2, TakeValueProperties
      <4> QED
        BY <4>1, <4>2, Zenon
    <3>3. 2 + p.left <= BufferSize
      BY <1>0, <2>6, <2>8
    <3>4. m = p.left \/ m = BufferSize - 2
      BY <2>2, Zenon DEF Least
    <3> QED
      BY <1>0, <2>2, <2>6, <3>1, <3>2, <3>3, <3>4
  <2>12. Cat(InHand', rbuf') = Cat(InHand, rbuf)
    <3>1. Cat(Cat(InHand', rbuf'), stream') = Cat(Cat(InHand, rbuf), stream)
      BY <1>3, <2>10, Conserved
    <3>2. PICK c, d : c = Cat(InHand', rbuf') /\ d = Cat(InHand, rbuf)
      OBVIOUS
    <3>3. c \in Units /\ d \in Units
      BY <1>0, <1>h, <3>2, CatType
    <3>4. Cat(c, stream) = Cat(d, stream)
      BY <2>3, <3>1, <3>2, Zenon
    <3>5. Len(c) = Len(d)
      <4>1. Len(Cat(c, stream)) = Len(c) + Len(stream) /\ Len(Cat(d, stream)) = Len(d) + Len(stream)
        BY <1>0, <3>3, CatType
      <4>2. Len(c) \in Nat /\ Len(d) \in Nat
        BY <3>3, UnitsLen
      <4>3. Len(c) + Len(stream) = Len(d) + Len(stream)
        BY <3>4, <4>1, Zenon
      <4> QED
        BY <1>0, <4>2, <4>3
    <3>6. c = d
      BY <1>0, <3>3, <3>4, <3>5, CatCancel
    <3> QED
      BY <3>2, <3>6, Zenon
  <2>13. ~full => \E a, b \in Seq(Packets) : Cat(InHand, rbuf) = PackAll(a) /\ stream = PackAll(b)
    BY <1>w, <2>4, Zenon
  <2>14. pc' # "unpack"
    BY <2>5
  <2> QED
    BY <2>3, <2>10, <2>11, <2>12, <2>13, <2>14, Zenon
<1>4. CASE Refill
  <2>1. PICK n \in Recv(<<>>, 0), buf \in Units :
           /\ n \in 0..Len(stream) /\ buf = SubSeq(stream, 1, n) /\ Len(buf) = n
           /\ n <= BufferSize
           /\ ReceiveInto(<<>>, n)
           /\ AfterUnpack(TakeValue(packet, buf, 0), buf, 0 + Least(packet.left, BufferSize - 0))
    BY <1>4, RefillForm
  <2>2. PICK m, k : m = Least(packet.left, BufferSize - 0) /\ k = 0 + m
    OBVIOUS
  <2>3. pc = "refill" /\ rbuf = <<>> /\ UNCHANGED <<cut, brim>>
    BY <1>4, <2>1 DEF Refill, AfterUnpack, Typed
  <2>4. <<>> \in Units /\ Len(<<>>) = 0
    BY EmptySeq DEF Units
  <2>5. /\ ~partly /\ n = Least(Len(stream), BufferSize)
        /\ full' = (n = BufferSize) /\ (full' \/ stream' = <<>>)
    <3>1. PICK e : e = <<>> /\ e \in Units /\ Len(e) = 0
      BY <2>4
    <3>2. ReceiveInto(e, n)
      BY <2>1, <3>1, Zenon
    <3>3. Len(e) <= BufferSize /\ n <= BufferSize - Len(e) /\ n \in 0..Len(stream)
      BY <1>0, <2>1, <3>1
    <3>4. /\ ~partly /\ n = Least(Len(stream), BufferSize - Len(e))
          /\ full' = (Len(e) + n = BufferSize) /\ (full' \/ stream' = <<>>)
      BY <3>1, <3>2, <3>3, FullOrEmpty
    <3>5. BufferSize - Len(e) = BufferSize /\ Len(e) + n = n
      BY <1>0, <3>1, <3>3
    <3> QED
      BY <3>4, <3>5, Zenon
  <2>6. ~cut /\ ~brim /\ ~torn
    BY <1>w, <2>3, <2>5
  <2>7. /\ torn' = (torn \/ k > Len(buf))
        /\ pc' \in {"refill", "parse", "parse last"}
        /\ pc' = "refill" => k = BufferSize
    <3>0. Len(buf) <= BufferSize
      BY <2>1, Zenon
    <3>1. Typing
      BY DEF Typed
    <3>2. AfterUnpack(TakeValue(packet, buf, 0), buf, k)
          /\ k = 0 + Least(packet.left, BufferSize - 0)
      BY <2>1, <2>2, Zenon
    <3>3. 0 \in Nat /\ 0 <= BufferSize
      BY <1>0
    <3>a. torn' = (torn \/ k > Len(buf))
      BY <1>0, <3>0, <3>1, <3>2, <3>3, UnpackTyped
    <3>b. pc' \in {"refill", "parse", "parse last"}
      BY <1>0, <3>0, <3>1, <3>2, <3>3, UnpackTyped
    <3>c. pc' = "refill" => k = BufferSize
      BY <1>0, <3>0, <3>1, <3>2, <3>3, UnpackTyped
    <3>d. pc' = "refill" => packet'.left > 0
      BY <1>0, <3>0, <3>1, <3>2, <3>3, UnpackTyped
    <3> QED
      BY <3>a, <3>b, <3>c, <3>d
  <2>8. m \in Nat /\ m <= BufferSize /\ m <= packet.left /\ packet.left \in Nat /\ k = m
    <3>1. packet.left \in Nat /\ BufferSize - 0 \in Nat /\ BufferSize - 0 = BufferSize
      BY <1>0 DEF Partial
    <3>2. m \in Nat /\ m <= BufferSize - 0 /\ m <= packet.left
      BY <2>2, <3>1, LeastProperties
    <3> QED
      BY <2>2, <3>1, <3>2
  <2>9. packet.left <= Len(stream)
    <3>1. PICK rest \in Seq(Packets) : Cat(Cat(InHand, rbuf), stream) = PackAll(rest)
      BY <2>6, Zenon DEF Intact
    <3>2. PICK t, l, v : t = packet.type /\ l = Len(packet.value) + packet.left /\ v = packet.value
      OBVIOUS
    <3>3. t \in Nat /\ v \in Units /\ Len(v) \in Nat
      BY <1>0, <3>2, UnitsLen DEF Partial
    <3>4. l = Len(v) + packet.left
      BY <3>2, Zenon
    <3>5. l \in Nat
      BY <2>8, <3>3, <3>4, SumNat
    <3>6. Cat(Cat(<<t, l>>, v), stream) = PackAll(rest)
      <4>1. InHand = Cat(<<t, l>>, v)
        <5>1. pc \in {"refill", "parse", "parse last"}
          BY <2>3
        <5> QED
          BY <1>h, <3>2, <5>1, Zenon DEF HandOf, Header
      <4>2. Cat(InHand, <<>>) = InHand
        BY <1>h, CatEmpty
      <4> QED
        BY <2>3, <3>1, <4>1, <4>2, Zenon
    <3>7. l <= Len(v) + Len(stream)
      BY <1>0, <3>3, <3>5, <3>6, Decode
    <3> QED
      BY <1>0, <2>8, <3>3, <3>4, <3>7
  <2>10. k <= n
    <3>1. n = Len(stream) \/ n = BufferSize
      BY <2>5, Zenon DEF Least
    <3> QED
      BY <1>0, <2>8, <2>9, <3>1
  <2>11. ~torn'
    <3>1. ~(k > Len(buf))
      <4>1. Len(buf) = n /\ n \in 0..Len(stream)
        BY <2>1
      <4> QED
        BY <2>8, <2>10, <4>1
    <3> QED
      BY <2>6, <2>7, <3>1
  <2>12. pc' = "refill" => full'
    <3> SUFFICES ASSUME pc' = "refill"
                 PROVE  full'
      OBVIOUS
    <3>1. k = BufferSize
      BY <2>7
    <3>2. n = BufferSize
      <4>1. n \in 0..Len(stream) /\ n <= BufferSize
        BY <2>1
      <4> QED
        BY <1>0, <2>10, <3>1, <4>1
    <3> QED
      BY <2>5, <3>2
  <2>13. ~full' => \E a, b \in Seq(Packets) :
                     Cat(InHand', rbuf') = PackAll(a) /\ stream' = PackAll(b)
    BY <2>5, <2>11, AllArrived
  <2>14. pc' # "unpack"
    BY <2>7
  <2> QED
    BY <2>11, <2>12, <2>13, <2>14, Zenon
<1>5. CASE Parse
  <2>1. /\ UNCHANGED <<stream, rbuf, cut, torn, partly, full>>
        /\ brim' = (brim \/ (packet.type = Ask /\ full))
        /\ pc' = IF pc = "parse last" THEN "stuck"
                 ELSE IF packet.type = Ask /\ rbuf # <<>> THEN "unpack" ELSE "receive"
    BY <1>5 DEF Parse
  <2>2. ~cut /\ ~partly /\ ~brim /\ ~(packet.type = Ask /\ full)
    BY <2>1
  <2>3. ~torn'
    BY <1>w, <2>1, <2>2
  <2>4. pc' = "unpack" => rbuf' # <<>> /\ ~full'
    BY <2>1, <2>2
  <2>5. pc' \in {"stuck", "unpack", "receive"}
    BY <2>1
  <2>6. ASSUME ~full'
        PROVE  \E a, b \in Seq(Packets) :
                 Cat(InHand', rbuf') = PackAll(a) /\ stream' = PackAll(b)
    <3>1. PICK a, b \in Seq(Packets) : Cat(InHand, rbuf) = PackAll(a) /\ stream = PackAll(b)
      BY <1>w, <2>1, <2>2, <2>6, Zenon
    <3>2. Tail(a) \in Seq(Packets) /\ rbuf = PackAll(Tail(a))
      BY <1>0, <1>5, <3>1, ParsedIsNext
    <3>3. InHand' = <<>>
      BY <1>h, <2>5 DEF HandOf
    <3>4. Cat(<<>>, rbuf) = rbuf
      BY <1>0, CatEmpty
    <3> QED
      BY <2>1, <3>1, <3>2, <3>3, <3>4, Zenon
  <2>7. pc' # "refill"
    BY <2>5
  <2> QED
    BY <2>3, <2>4, <2>6, <2>7, Zenon
<1>6. CASE Close \/ UNCHANGED vars
  <2>1. UNCHANGED <<stream, rbuf, pc, packet, cut, torn, partly, full, brim>>
    BY <1>6 DEF Close, readVars, history, vars
  <2>2. ~cut /\ ~partly /\ ~brim /\ InHand' = InHand
    BY <2>1 DEF InHand
  <2> QED
    BY <1>w, <2>1, <2>2, Zenon
<1> QED
  BY <1>1, <1>2, <1>3, <1>4, <1>5, <1>6 DEF Next, Read

(* An overrun has a cause: a short write, a recv that left part of a       *)
(* packet for later, or an answer parsed out of a full buffer              *)
(* (connection.cpp:241-243), for every packet and every buffer size.       *)
THEOREM OverrunsExplained == Spec => []OverrunExplained
<1>1. Init => Typed /\ Intact /\ Whole
  BY TypedInit, IntactInit, WholeInit
<1>2. (Typed /\ Intact /\ Whole) /\ [Next]_vars => (Typed /\ Intact /\ Whole)'
  BY TypedStep, IntactStep, WholeStep
<1>3. Whole => OverrunExplained
  BY DEF Whole, OverrunExplained
<1> QED
  BY <1>1, <1>2, <1>3, PTL DEF Spec

----------------------------------------------------------------------------
(* One direction of a connection is a FIFO. *)

(* Every step is one of PacketFifo or none.                                 *)
LEMMA FifoStep == Typed /\ Typed' /\ Intact /\ [Next]_vars => [Fifo!Next]_(Fifo!vars)
<1> SUFFICES ASSUME Typed, Typed', Intact, [Next]_vars
             PROVE  Fifo!Next
  OBVIOUS
<1>1. ASSUME NEW p \in Packets, SendPacket(p)
      PROVE  Fifo!Next
  <2>1. sent' = Append(sent, p) /\ got' = got /\ (cut => cut') /\ torn' = torn
    BY <1>1 DEF SendPacket, readVars
  <2>2. Fifo!Send(p)
    BY <2>1 DEF Fifo!Send
  <2>3. (cut \/ torn) => (cut' \/ torn')
    BY <2>1
  <2> QED
    BY <2>2, <2>3, Zenon DEF Fifo!Next
<1>2. CASE ReceiveData \/ UnpackFront \/ Refill
  <2>1. sent' = sent /\ got' = got /\ cut' = cut /\ (torn => torn')
    <3>1. CASE ReceiveData
      BY <3>1 DEF ReceiveData, sendVars
    <3>2. CASE UnpackFront
      <4>1. PICK p \in Partial :
               AfterUnpack(TakeValue(p, rbuf, 2), rbuf, 2 + Least(p.left, BufferSize - 2))
        BY <3>2, FrontForm
      <4> QED
        BY <4>1 DEF AfterUnpack, Consume, WrapAround, sendVars
    <3>3. CASE Refill
      <4>1. PICK n \in Recv(<<>>, 0), buf \in Units :
              AfterUnpack(TakeValue(packet, buf, 0), buf, 0 + Least(packet.left, BufferSize - 0))
        BY <3>3, RefillForm
      <4> QED
        BY <4>1 DEF AfterUnpack, Consume, WrapAround, sendVars
    <3> QED
      BY <1>2, <3>1, <3>2, <3>3
  <2>2. (cut \/ torn) => (cut' \/ torn')
    BY <2>1
  <2>3. UNCHANGED <<sent, got>>
    BY <2>1
  <2> QED
    BY <2>2, <2>3, Zenon DEF Fifo!Next
<1>3. CASE Parse
  <2>1. sent' = sent /\ cut' = cut /\ torn' = torn
    BY <1>3 DEF Parse, sendVars
  <2>2. PICK e : e = [type |-> packet.type, value |-> packet.value]
    OBVIOUS
  <2>3. got' = Append(got, e)
    BY <1>3, <2>2 DEF Parse
  <2>4. CASE cut \/ torn
    <3>1. e \in Parsed /\ got \in Seq(Parsed)
      BY <2>2 DEF Typed, Typing, Partial, Parsed
    <3>2. PICK u : u = Append(got, e)
      OBVIOUS
    <3>3. /\ u \in Seq(Parsed) /\ Len(u) = Len(got) + 1 /\ u[Len(got) + 1] = e
          /\ \A i \in 1..Len(got) : u[i] = got[i]
      BY <3>1, <3>2, AppendProperties
    <3>4. Len(got) \in Nat
      BY <3>1, LenProperties
    <3>5. SubSeq(u, 1, Len(got)) = got
      <4>1. PICK w : w = SubSeq(u, 1, Len(got))
        OBVIOUS
      <4>2. \A i \in 1..Len(got) : u[i] \in Parsed
        BY <3>1, <3>3, ElementOfSeq
      <4>3. /\ w \in Seq(Parsed)
            /\ Len(w) = IF 1 <= Len(got) THEN Len(got) - 1 + 1 ELSE 0
            /\ \A i \in 1..(Len(got) - 1 + 1) : w[i] = u[1 + i - 1]
        BY <3>4, <4>1, <4>2, SubSeqProperties
      <4>4. Len(w) = Len(got)
        BY <3>4, <4>3
      <4>5. \A i \in 1..Len(w) : w[i] = got[i]
        BY <3>3, <3>4, <4>3, <4>4
      <4>6. w = got
        BY <3>1, <4>3, <4>4, <4>5, SeqEqual
      <4> QED
        BY <4>1, <4>6
    <3>6. got' = u
      BY <2>3, <3>2
    <3>7. got'[Len(got')] \in [type : Nat, value : Seq(Nat)]
      <4>1. u[Len(u)] = e
        BY <3>3, Zenon
      <4> QED
        BY <3>1, <3>6, <4>1, Zenon DEF Parsed, Units
    <3>8. Len(got') = Len(got) + 1 /\ SubSeq(got', 1, Len(got)) = got
      BY <3>3, <3>5, <3>6, Zenon
    <3>9. Fifo!Garble
      BY <2>1, <3>7, <3>8, Zenon DEF Fifo!Garble
    <3>10. cut' \/ torn'
      BY <2>1, <2>4
    <3> QED
      BY <3>9, <3>10, Zenon DEF Fifo!Next
  <2>5. CASE ~cut /\ ~torn
    <3>1. PICK rest \in Seq(Packets) :
            sent = got \o rest /\ Cat(Cat(InHand, rbuf), stream) = PackAll(rest)
      BY <2>5, Zenon DEF Intact
    <3>2. got \in Seq(Packets)
      BY <2>5, Zenon DEF Intact
    <3>3. PICK x : x = Cat(rbuf, stream)
      OBVIOUS
    <3>4. InHand \in Units /\ rbuf \in Units /\ stream \in Units
      BY HandNow DEF Typed, Typing
    <3>5. x \in Units
      BY <3>3, <3>4, CatType
    <3>6. Cat(InHand, x) = PackAll(rest)
      <4>1. Cat(Cat(InHand, rbuf), stream) = Cat(InHand, Cat(rbuf, stream))
        BY <3>4, CatAssoc
      <4> QED
        BY <3>1, <3>3, <4>1, Zenon
    <3>7. rest # <<>> /\ got' = Append(got, Head(rest))
      BY <1>3, <3>5, <3>6, ParsedIsNext
    <3>8. PICK g : g = got
      OBVIOUS
    <3>9. Len(g) < Len(g \o rest) /\ (g \o rest)[Len(g) + 1] = Head(rest)
      BY <3>2, <3>7, <3>8, OneOver
    <3>10. /\ Len(got) < Len(sent)
           /\ got' = Append(got, sent[Len(got) + 1])
      BY <3>1, <3>7, <3>8, <3>9, Zenon
    <3>11. Fifo!Deliver
      BY <2>1, <3>10, Zenon DEF Fifo!Deliver
    <3>12. ~(cut' \/ torn') /\ ~(cut \/ torn)
      BY <2>1, <2>5
    <3> QED
      BY <3>11, <3>12, Zenon DEF Fifo!Next
  <2> QED
    BY <2>4, <2>5
<1>4. CASE Close \/ UNCHANGED vars
  <2>1. UNCHANGED <<sent, got, cut, torn>>
    BY <1>4 DEF Close, readVars, history, vars, sendVars
  <2>2. (cut \/ torn) => (cut' \/ torn')
    BY <2>1
  <2>3. UNCHANGED <<sent, got>>
    BY <2>1
  <2> QED
    BY <2>2, <2>3, Zenon DEF Fifo!Next
<1> QED
  BY <1>1, <1>2, <1>3, <1>4 DEF Next, Read

(* Packets come out as they went in, in order and each once, until a short *)
(* write or an overrun breaks the framing: connection.cpp:126-255          *)
(* implements PacketFifo.                                                  *)
THEOREM FramingIsFifo == Spec => ImplementsFifo
<1>1. Init => Typed /\ Intact
  BY TypedInit, IntactInit
<1>2. (Typed /\ Intact) /\ [Next]_vars => (Typed /\ Intact)'
  BY TypedStep, IntactStep
<1>3. Init => Fifo!Init
  BY DEF Init, Fifo!Init
<1>4. (Typed /\ Intact) /\ (Typed /\ Intact)' /\ [Next]_vars => [Fifo!Next]_(Fifo!vars)
  BY FifoStep
<1> QED
  BY <1>1, <1>2, <1>3, <1>4, PTL DEF Spec, ImplementsFifo, Fifo!Spec

=============================================================================
