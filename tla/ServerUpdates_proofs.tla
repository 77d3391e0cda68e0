------------------------ MODULE ServerUpdates_proofs ------------------------
(***************************************************************************)
(* Proofs about ServerUpdates, for any number of clients, runs of clients  *)
(* and client lists a socket holds, and any set of faults.                 *)
(***************************************************************************)
EXTENDS ServerUpdates, FiniteSetTheorems, SequenceTheorems, InductionLemmas, TLAPS

----------------------------------------------------------------------------
(* What the helpers on sequences return. *)

(* The elements of a sequence over S are in S. *)
LEMMA ElementsType ==
  ASSUME NEW S, NEW s \in Seq(S)
  PROVE  /\ Elements(s) \subseteq S
         /\ Elements(s) = {s[i] : i \in 1..Len(s)}
  BY DEF Elements

(* Append adds one element. *)
LEMMA ElementsAppend ==
  ASSUME NEW S, NEW s \in Seq(S), NEW e \in S
  PROVE  Elements(Append(s, e)) = Elements(s) \cup {e}
<1>1. Append(s, e) \in Seq(S) /\ Len(Append(s, e)) = Len(s) + 1
  BY AppendProperties
<1>2. /\ \A i \in 1..Len(s) : Append(s, e)[i] = s[i]
      /\ Append(s, e)[Len(s) + 1] = e
  BY AppendProperties
<1>3. Elements(Append(s, e)) = {Append(s, e)[i] : i \in 1..(Len(s) + 1)}
  BY <1>1, ElementsType
<1>4. Elements(s) = {s[i] : i \in 1..Len(s)}
  BY ElementsType
<1>5. \A i \in 1..(Len(s) + 1) : i \in 1..Len(s) \/ i = Len(s) + 1
  BY LenProperties
<1>6. Elements(Append(s, e)) \subseteq Elements(s) \cup {e}
  BY <1>2, <1>3, <1>4, <1>5
<1>7. Len(s) + 1 \in 1..(Len(s) + 1) /\ 1..Len(s) \subseteq 1..(Len(s) + 1)
  BY LenProperties
<1>8. Elements(s) \cup {e} \subseteq Elements(Append(s, e))
  BY <1>2, <1>3, <1>4, <1>7
<1> QED
  BY <1>6, <1>8

(* The head and the elements of the tail are the elements. *)
LEMMA ElementsHeadTail ==
  ASSUME NEW S, NEW s \in Seq(S), s # <<>>
  PROVE  Elements(s) = {Head(s)} \cup Elements(Tail(s))
<1>1. /\ Tail(s) \in Seq(S) /\ Len(Tail(s)) = Len(s) - 1
      /\ \A i \in 1..Len(Tail(s)) : Tail(s)[i] = s[i + 1]
  BY HeadTailProperties
<1>2. Len(s) \in Nat /\ Len(s) # 0 /\ Head(s) = s[1]
  BY LenProperties, EmptySeq
<1>3. /\ Elements(s) = {s[i] : i \in 1..Len(s)}
      /\ Elements(Tail(s)) = {Tail(s)[i] : i \in 1..Len(Tail(s))}
  BY <1>1, ElementsType
<1>4. Elements(s) \subseteq {Head(s)} \cup Elements(Tail(s))
  <2>1. SUFFICES ASSUME NEW i \in 1..Len(s), i # 1
                 PROVE  s[i] \in Elements(Tail(s))
    BY <1>2, <1>3
  <2>2. i - 1 \in 1..Len(Tail(s)) /\ (i - 1) + 1 = i
    BY <2>1, <1>1, <1>2
  <2>3. Tail(s)[i - 1] = s[i]
    BY <2>2, <1>1
  <2> QED
    BY <2>2, <2>3, <1>3
<1>5. {Head(s)} \cup Elements(Tail(s)) \subseteq Elements(s)
  <2>1. 1 \in 1..Len(s) /\ \A i \in 1..Len(Tail(s)) : i + 1 \in 1..Len(s)
    BY <1>1, <1>2
  <2> QED
    BY <2>1, <1>1, <1>2, <1>3
<1> QED
  BY <1>4, <1>5

(* Concatenation has the elements of both. *)
LEMMA ElementsConcat ==
  ASSUME NEW S, NEW s \in Seq(S), NEW u \in Seq(S)
  PROVE  Elements(s \o u) = Elements(s) \cup Elements(u)
<1>1. /\ s \o u \in Seq(S) /\ Len(s \o u) = Len(s) + Len(u)
      /\ \A i \in 1..(Len(s) + Len(u)) :
           (s \o u)[i] = IF i <= Len(s) THEN s[i] ELSE u[i - Len(s)]
  BY ConcatProperties
<1>2. /\ Elements(s \o u) = {(s \o u)[i] : i \in 1..(Len(s) + Len(u))}
      /\ Elements(s) = {s[i] : i \in 1..Len(s)}
      /\ Elements(u) = {u[i] : i \in 1..Len(u)}
      /\ Len(s) \in Nat /\ Len(u) \in Nat
  BY <1>1, ElementsType, LenProperties
<1> DEFINE m == Len(s)
           n == Len(u)
<1> HIDE DEF m, n
<1>3. Elements(s \o u) \subseteq Elements(s) \cup Elements(u)
  <2> SUFFICES ASSUME NEW i \in 1..(m + n)
               PROVE  (s \o u)[i] \in Elements(s) \cup Elements(u)
    BY <1>2 DEF m, n
  <2>1. CASE i <= m
    BY <2>1, <1>1, <1>2 DEF m, n
  <2>2. CASE ~(i <= m)
    <3>1. m \in Nat /\ n \in Nat
      BY <1>2 DEF m, n
    <3>2. i - m \in 1..n
      BY <2>2, <3>1
    <3>3. (s \o u)[i] = u[i - m]
      BY <1>1, <2>2 DEF m, n
    <3> QED
      BY <1>2, <3>2, <3>3 DEF n
  <2> QED
    BY <2>1, <2>2
<1>4. Elements(s) \subseteq Elements(s \o u)
  <2> SUFFICES ASSUME NEW i \in 1..m
               PROVE  s[i] \in Elements(s \o u)
    BY <1>2 DEF m
  <2>1. i \in 1..(m + n) /\ i <= m
    BY <1>2 DEF m, n
  <2> QED
    BY <2>1, <1>1, <1>2 DEF m, n
<1>5. Elements(u) \subseteq Elements(s \o u)
  <2> SUFFICES ASSUME NEW i \in 1..n
               PROVE  u[i] \in Elements(s \o u)
    BY <1>2 DEF n
  <2>1. m \in Nat /\ n \in Nat
    BY <1>2 DEF m, n
  <2>2. i + m \in 1..(m + n) /\ ~(i + m <= m) /\ (i + m) - m = i
    BY <2>1
  <2>3. (s \o u)[i + m] = u[i]
    BY <1>1, <2>2 DEF m, n
  <2> QED
    BY <1>2, <2>2, <2>3 DEF m, n
<1> QED
  BY <1>3, <1>4, <1>5

(* What remove_client leaves of the list when the i-th entry is erased. *)
Dropped(s, i) == SubSeq(s, 1, i - 1) \o SubSeq(s, i + 1, Len(s))

(* Erasing the i-th entry moves the later ones up and changes nothing else. *)
LEMMA DroppedProperties ==
  ASSUME NEW S, NEW s \in Seq(S), NEW i \in 1..Len(s)
  PROVE  /\ Dropped(s, i) \in Seq(S)
         /\ Len(Dropped(s, i)) = Len(s) - 1
         /\ \A j \in 1..(Len(s) - 1) :
              Dropped(s, i)[j] = IF j <= i - 1 THEN s[j] ELSE s[j + 1]
         /\ Elements(Dropped(s, i)) \subseteq Elements(s)
         /\ Elements(s) \subseteq Elements(Dropped(s, i)) \cup {s[i]}
<1> DEFINE l == SubSeq(s, 1, i - 1)
           r == SubSeq(s, i + 1, Len(s))
<1>1. Len(s) \in Nat /\ i \in Nat /\ i >= 1 /\ i <= Len(s)
  BY LenProperties
<1>2. /\ \A j \in 1..(i - 1) : s[j] \in S
      /\ \A j \in (i + 1)..Len(s) : s[j] \in S
  BY <1>1, ElementOfSeq
<1>3. /\ l \in Seq(S) /\ Len(l) = i - 1
      /\ \A j \in 1..(i - 1) : l[j] = s[j]
  <2>1. /\ l \in Seq(S)
        /\ Len(l) = IF 1 <= i - 1 THEN i - 1 - 1 + 1 ELSE 0
        /\ \A j \in 1..(i - 1 - 1 + 1) : l[j] = s[1 + j - 1]
    BY <1>1, <1>2, SubSeqProperties
  <2> HIDE DEF l
  <2> QED
    BY <2>1, <1>1
<1>4. /\ r \in Seq(S) /\ Len(r) = Len(s) - i
      /\ \A j \in 1..(Len(s) - i) : r[j] = s[i + j]
  <2>1. /\ r \in Seq(S)
        /\ Len(r) = IF i + 1 <= Len(s) THEN Len(s) - (i + 1) + 1 ELSE 0
        /\ \A j \in 1..(Len(s) - (i + 1) + 1) : r[j] = s[(i + 1) + j - 1]
    BY <1>1, <1>2, SubSeqProperties
  <2> HIDE DEF r
  <2>2. Len(s) - (i + 1) + 1 = Len(s) - i /\ (i + 1 <= Len(s) \/ Len(s) - i = 0)
    BY <1>1
  <2>3. ASSUME NEW j \in 1..(Len(s) - i)
        PROVE  r[j] = s[i + j]
    <3>1. (i + 1) + j - 1 = i + j
      BY <1>1
    <3> QED
      BY <2>1, <2>2, <3>1
  <2>4. Len(r) = Len(s) - i
    BY <2>1, <2>2, <1>1
  <2> QED
    BY <2>1, <2>3, <2>4
<1>5. Dropped(s, i) = l \o r
  BY DEF Dropped
<1> HIDE DEF l, r
<1>6. /\ l \o r \in Seq(S) /\ Len(l \o r) = Len(s) - 1
      /\ \A j \in 1..(Len(s) - 1) : (l \o r)[j] = IF j <= i - 1 THEN s[j] ELSE s[j + 1]
  <2>1. /\ l \o r \in Seq(S) /\ Len(l \o r) = Len(l) + Len(r)
        /\ \A j \in 1..(Len(l) + Len(r)) :
             (l \o r)[j] = IF j <= Len(l) THEN l[j] ELSE r[j - Len(l)]
    BY <1>3, <1>4, ConcatProperties
  <2>2. ASSUME NEW j \in 1..(Len(s) - 1)
        PROVE  (l \o r)[j] = IF j <= i - 1 THEN s[j] ELSE s[j + 1]
    <3>1. (l \o r)[j] = IF j <= i - 1 THEN l[j] ELSE r[j - (i - 1)]
      BY <2>1, <1>1, <1>3, <1>4, SMTT(30)
    <3>2. CASE j <= i - 1
      BY <3>1, <3>2, <1>1, <1>3
    <3>3. CASE ~(j <= i - 1)
      <4>1. j - (i - 1) \in 1..(Len(s) - i) /\ i + (j - (i - 1)) = j + 1
        BY <3>3, <1>1
      <4> QED
        BY <4>1, <3>1, <3>3, <1>4
    <3> QED
      BY <3>2, <3>3
  <2> QED
    BY <2>1, <2>2, <1>1, <1>3, <1>4
<1>7. /\ Elements(s) = {s[j] : j \in 1..Len(s)}
      /\ Elements(l \o r) = {(l \o r)[j] : j \in 1..(Len(s) - 1)}
  BY <1>6, ElementsType
<1>8. Elements(l \o r) \subseteq Elements(s)
  <2>1. \A j \in 1..(Len(s) - 1) : j \in 1..Len(s) /\ j + 1 \in 1..Len(s)
    BY <1>1
  <2> QED
    BY <2>1, <1>6, <1>7
<1>9. Elements(s) \subseteq Elements(l \o r) \cup {s[i]}
  <2>1. SUFFICES ASSUME NEW j \in 1..Len(s), j # i
                 PROVE  s[j] \in Elements(l \o r)
    BY <1>7
  <2>2. CASE j < i
    <3>1. j \in 1..(Len(s) - 1) /\ j <= i - 1
      BY <2>2, <1>1
    <3> QED
      BY <3>1, <1>6, <1>7
  <2>3. CASE j > i
    <3>1. j - 1 \in 1..(Len(s) - 1) /\ ~(j - 1 <= i - 1) /\ (j - 1) + 1 = j
      BY <2>3, <1>1
    <3> QED
      BY <3>1, <1>6, <1>7
  <2> QED
    BY <2>1, <2>2, <2>3, <1>1
<1> QED
  BY <1>5, <1>6, <1>8, <1>9

----------------------------------------------------------------------------
(* Removed, and how often an address is on the list. *)

(* Where a list has the address. *)
Entries(list, a) == {i \in DOMAIN list : list[i] = a}

(* A list has finitely many entries. *)
LEMMA EntriesFinite ==
  ASSUME NEW S, NEW s \in Seq(S), NEW a
  PROVE  /\ Entries(s, a) = {i \in 1..Len(s) : s[i] = a}
         /\ IsFiniteSet(Entries(s, a)) /\ Cardinality(Entries(s, a)) \in Nat
         /\ a \in Elements(s) <=> Entries(s, a) # {}
<1>1. Len(s) \in Nat /\ DOMAIN s = 1..Len(s)
  BY LenProperties
<1>2. IsFiniteSet(1..Len(s))
  BY <1>1, FS_Interval
<1>3. Entries(s, a) = {i \in 1..Len(s) : s[i] = a}
  BY <1>1 DEF Entries
<1>4. Entries(s, a) \in SUBSET (1..Len(s))
  BY <1>3
<1>5. IsFiniteSet(Entries(s, a))
  BY <1>2, <1>4, FS_Subset
<1>6. Cardinality(Entries(s, a)) \in Nat
  BY <1>5, FS_CardinalityType
<1>7. Elements(s) = {s[i] : i \in 1..Len(s)}
  BY ElementsType
<1> QED
  BY <1>3, <1>5, <1>6, <1>7

(* Append adds one entry. *)
LEMMA EntriesAppend ==
  ASSUME NEW S, NEW s \in Seq(S), NEW e \in S, NEW a
  PROVE  Cardinality(Entries(Append(s, e), a))
           = Cardinality(Entries(s, a)) + (IF a = e THEN 1 ELSE 0)
<1>1. /\ Append(s, e) \in Seq(S) /\ Len(Append(s, e)) = Len(s) + 1
      /\ \A i \in 1..Len(s) : Append(s, e)[i] = s[i]
      /\ Append(s, e)[Len(s) + 1] = e
      /\ Len(s) \in Nat
  BY AppendProperties, LenProperties
<1>2. /\ Entries(Append(s, e), a) = {i \in 1..(Len(s) + 1) : Append(s, e)[i] = a}
      /\ Entries(s, a) = {i \in 1..Len(s) : s[i] = a}
      /\ IsFiniteSet(Entries(s, a)) /\ Cardinality(Entries(s, a)) \in Nat
  <2>1. Entries(Append(s, e), a) = {i \in 1..Len(Append(s, e)) : Append(s, e)[i] = a}
    <3>1. PICK t \in Seq(S) : t = Append(s, e)
      BY <1>1
    <3>2. Entries(t, a) = {i \in 1..Len(t) : t[i] = a}
      BY EntriesFinite
    <3> QED
      BY <3>1, <3>2
  <2>2. Entries(Append(s, e), a) = {i \in 1..(Len(s) + 1) : Append(s, e)[i] = a}
    BY <2>1, <1>1, Zenon
  <2> QED
    BY <2>2, EntriesFinite
<1>3. \A i : i \in 1..(Len(s) + 1) <=> i \in 1..Len(s) \/ i = Len(s) + 1
  BY <1>1
<1>4. Len(s) + 1 \notin Entries(s, a)
  BY <1>1, <1>2
<1>5. CASE a = e
  <2>1. Entries(Append(s, e), a) = Entries(s, a) \cup {Len(s) + 1}
    BY <1>1, <1>2, <1>3, <1>5
  <2>2. Cardinality(Entries(Append(s, e), a)) = Cardinality(Entries(s, a) \cup {Len(s) + 1})
    BY <2>1, Zenon
  <2>3. Cardinality(Entries(s, a) \cup {Len(s) + 1}) = Cardinality(Entries(s, a)) + 1
    BY <1>2, <1>4, FS_AddElement
  <2> QED
    BY <2>2, <2>3, <1>5
<1>6. CASE a # e
  <2>1. Entries(Append(s, e), a) = Entries(s, a)
    BY <1>1, <1>2, <1>3, <1>6
  <2>2. Cardinality(Entries(Append(s, e), a)) = Cardinality(Entries(s, a))
    BY <2>1, Zenon
  <2> QED
    BY <2>2, <1>2, <1>6
<1> QED
  BY <1>5, <1>6

(* Erasing an entry erases one of its address and none of another. *)
LEMMA EntriesDropped ==
  ASSUME NEW S, NEW s \in Seq(S), NEW i \in 1..Len(s), NEW a
  PROVE  Cardinality(Entries(Dropped(s, i), a))
           <= Cardinality(Entries(s, a)) - (IF a = s[i] THEN 1 ELSE 0)
<1> DEFINE d == Dropped(s, i)
           E == Entries(s, a)
           D == Entries(d, a)
           T == E \ {i}
           f == [j \in D |-> IF j <= i - 1 THEN j ELSE j + 1]
<1>1. /\ d \in Seq(S) /\ Len(d) = Len(s) - 1
      /\ \A j \in 1..(Len(s) - 1) : d[j] = IF j <= i - 1 THEN s[j] ELSE s[j + 1]
      /\ Len(s) \in Nat
  BY DroppedProperties, LenProperties
<1>2. /\ E = {j \in 1..Len(s) : s[j] = a} /\ IsFiniteSet(E) /\ Cardinality(E) \in Nat
  BY EntriesFinite
<1> HIDE DEF d
<1>3. D = {j \in 1..(Len(s) - 1) : d[j] = a}
  BY <1>1, EntriesFinite
<1> HIDE DEF E, D
<1>4. f \in Injection(D, T)
  <2>1. ASSUME NEW j \in D
        PROVE  f[j] \in T
    <3>1. j \in 1..(Len(s) - 1) /\ d[j] = a
      BY <1>3
    <3>2. CASE j <= i - 1
      <4>1. j \in 1..Len(s) /\ j # i /\ s[j] = a /\ f[j] = j
        BY <3>1, <3>2, <1>1
      <4> QED
        BY <4>1, <1>2
    <3>3. CASE ~(j <= i - 1)
      <4>1. j + 1 \in 1..Len(s) /\ j + 1 # i /\ s[j + 1] = a /\ f[j] = j + 1
        BY <3>1, <3>3, <1>1
      <4> QED
        BY <4>1, <1>2
    <3> QED
      BY <3>2, <3>3
  <2>2. ASSUME NEW j \in D, NEW k \in D, f[j] = f[k]
        PROVE  j = k
    <3>1. j \in Int /\ k \in Int /\ i \in Int
      BY <1>3
    <3>2. /\ f[j] = IF j <= i - 1 THEN j ELSE j + 1
          /\ f[k] = IF k <= i - 1 THEN k ELSE k + 1
      OBVIOUS
    <3> QED
      BY <3>1, <3>2, <2>2
  <2>3. f \in [D -> T]
    BY <2>1
  <2>4. DOMAIN f = D
    OBVIOUS
  <2> HIDE DEF f
  <2>5. IsInjective(f)
    BY <2>2, <2>4 DEF IsInjective
  <2> QED
    BY <2>3, <2>5 DEF Injection
<1>5. /\ IsFiniteSet(T)
      /\ Cardinality(T) = IF i \in E THEN Cardinality(E) - 1 ELSE Cardinality(E)
  BY <1>2, FS_RemoveElement
<1>6. Cardinality(D) <= Cardinality(T)
  <2> HIDE DEF f, T
  <2> QED
    BY <1>4, <1>5, FS_Injection
<1>7. i \in E <=> a = s[i]
  BY <1>2
<1> QED
  BY <1>2, <1>5, <1>6, <1>7 DEF d, E, D

(* remove_client erases one entry of the address, if there is one, and no  *)
(* entry of another.                                                       *)
LEMMA RemovedProperties ==
  ASSUME NEW S, NEW s \in Seq(S), NEW a
  PROVE  /\ Removed(s, a) \in Seq(S)
         /\ \A b \in Elements(s) : b # a => b \in Elements(Removed(s, a))
         /\ \A b : Cardinality(Entries(Removed(s, a), b)) <= Cardinality(Entries(s, b))
         /\ Cardinality(Entries(s, a)) # 0
              => Cardinality(Entries(Removed(s, a), a)) <= Cardinality(Entries(s, a)) - 1
<1>1. CASE Entries(s, a) = {}
  <2>1. Removed(s, a) = s
    BY <1>1 DEF Removed, Entries
  <2>2. Cardinality(Entries(s, a)) = 0
    BY <1>1, FS_EmptySet, Zenon
  <2>3. \A b : Cardinality(Entries(s, b)) \in Nat
    BY EntriesFinite
  <2>4. \A b : Cardinality(Entries(s, b)) <= Cardinality(Entries(s, b))
    BY <2>3
  <2> QED
    BY <2>1, <2>2, <2>4, Zenon
<1>2. CASE Entries(s, a) # {}
  <2> DEFINE E == Entries(s, a)
             i == CHOOSE k \in E : \A j \in E : k <= j
  <2>1. E = {k \in 1..Len(s) : s[k] = a} /\ Len(s) \in Nat
    BY EntriesFinite, LenProperties
  <2>2. E \subseteq Nat /\ E # {}
    BY <2>1, <1>2
  <2>3. Removed(s, a) = Dropped(s, i)
    BY <1>2 DEF Removed, Entries, Dropped
  <2>4. \E k \in E : \A j \in E : k <= j
    <3> HIDE DEF E
    <3> QED
      BY <2>2, LeastNat
  <2>5. i \in E
    BY <2>4, Zenon
  <2>6. i \in 1..Len(s) /\ s[i] = a
    BY <2>1, <2>5
  <2> HIDE DEF E, i
  <2>7. /\ Dropped(s, i) \in Seq(S)
        /\ Elements(s) \subseteq Elements(Dropped(s, i)) \cup {a}
    BY <2>6, DroppedProperties
  <2>8. ASSUME NEW b
        PROVE  Cardinality(Entries(Dropped(s, i), b))
                 <= Cardinality(Entries(s, b)) - (IF b = a THEN 1 ELSE 0)
    BY <2>6, EntriesDropped
  <2>9. ASSUME NEW b
        PROVE  Cardinality(Entries(Dropped(s, i), b)) <= Cardinality(Entries(s, b))
    <3>1. /\ Cardinality(Entries(Dropped(s, i), b)) \in Nat
          /\ Cardinality(Entries(s, b)) \in Nat
      BY <2>7, EntriesFinite
    <3> QED
      BY <3>1, <2>8
  <2>10. Cardinality(Entries(Dropped(s, i), a)) <= Cardinality(Entries(s, a)) - 1
    BY <2>8
  <2> QED
    BY <2>3, <2>7, <2>9, <2>10, Zenon
<1> QED
  BY <1>1, <1>2

----------------------------------------------------------------------------
(* Types. *)

(* TypeOK alone is not inductive: that the size of _connections is a number *)
(* takes that it is finite, which it stays however many clients there are. *)
Typed == TypeOK /\ IsFiniteSet(conns) /\ IsFiniteSet(fresh)

(* Typed holds initially. *)
LEMMA InitTyped ==
  ASSUME Init
  PROVE  Typed
<1>1. TypeOK
  BY ConstAssumption, EmptySeq DEF Init, TypeOK, WorkerPc, MainPc
<1>2. IsFiniteSet(conns) /\ IsFiniteSet(fresh)
  BY FS_EmptySet DEF Init
<1> QED
  BY <1>1, <1>2 DEF Typed

(* Every step keeps the types. *)
LEMMA StepTypes ==
  ASSUME TypeOK, IsFiniteSet(conns), [Next]_vars
  PROVE  TypeOK'
<1> USE ConstAssumption DEF WorkerPc, MainPc, countVars, portVars, workVars, netVars, clientVars
<1>0. /\ \A x \in Conn : /\ sbuf[x] \in Seq(PacketType) /\ c2s[x] \in Seq(PacketType)
                        /\ s2c[x] \in Seq(SUBSET Client) /\ Addr[x] \in Client
                        /\ out[x] \in SUBSET Client
      /\ clients \in Seq(Client)
      /\ Elements(clients) \in SUBSET Client
  <2>1. clients \in Seq(Client)
    BY DEF TypeOK
  <2>2. Elements(clients) \in SUBSET Client
    BY <2>1, ElementsType
  <2> QED
    BY <2>1, <2>2 DEF TypeOK, PacketType
<1>0a. /\ \A x \in Conn : /\ sbuf[x] # <<>> => Tail(sbuf[x]) \in Seq(PacketType)
                         /\ s2c[x] # <<>> => /\ Tail(s2c[x]) \in Seq(SUBSET Client)
                                             /\ Head(s2c[x]) \in SUBSET Client
                         /\ sbuf[x] \o c2s[x] \in Seq(PacketType)
                         /\ Append(s2c[x], out[x]) \in Seq(SUBSET Client)
       /\ \A x \in Conn : \A p \in PacketType : Append(c2s[x], p) \in Seq(PacketType)
       /\ \A x \in Conn : Append(clients, Addr[x]) \in Seq(Client)
       /\ \A a : Removed(clients, a) \in Seq(Client)
       /\ <<>> \in Seq(PacketType) /\ <<>> \in Seq(SUBSET Client)
       /\ <<"REGISTER">> \in Seq(PacketType)
  <2>1. \A x \in Conn : sbuf[x] # <<>> => Tail(sbuf[x]) \in Seq(PacketType)
    BY <1>0, HeadTailProperties
  <2>2. \A x \in Conn : s2c[x] # <<>> => /\ Tail(s2c[x]) \in Seq(SUBSET Client)
                                         /\ Head(s2c[x]) \in SUBSET Client
    BY <1>0, HeadTailProperties
  <2>3. \A x \in Conn : sbuf[x] \o c2s[x] \in Seq(PacketType)
    BY <1>0, ConcatProperties
  <2>4. \A x \in Conn : Append(s2c[x], out[x]) \in Seq(SUBSET Client)
    BY <1>0, AppendProperties
  <2>5. \A x \in Conn : \A p \in PacketType : Append(c2s[x], p) \in Seq(PacketType)
    BY <1>0, AppendProperties
  <2>6. \A x \in Conn : Append(clients, Addr[x]) \in Seq(Client)
    BY <1>0, AppendProperties
  <2>7. \A a : Removed(clients, a) \in Seq(Client)
    BY <1>0, RemovedProperties
  <2>8. <<>> \in Seq(PacketType) /\ <<>> \in Seq(SUBSET Client) /\ <<"REGISTER">> \in Seq(PacketType)
    BY DEF PacketType
  <2> QED
    BY <2>1, <2>2, <2>3, <2>4, <2>5, <2>6, <2>7, <2>8
<1> USE <1>0, <1>0a DEF PacketType
<1>1. ASSUME NEW c \in Conn, Register(c)
      PROVE  TypeOK'
  BY <1>1 DEF Register, TypeOK
<1>2. ASSUME NEW c \in Conn, Update(c)
      PROVE  TypeOK'
  BY <1>2 DEF Update, TypeOK
<1>3. ASSUME NEW c \in Conn, Deregister(c)
      PROVE  TypeOK'
  BY <1>3 DEF Deregister, TypeOK
<1>4. ASSUME NEW c \in Conn, SendShutdown(c)
      PROVE  TypeOK'
  BY <1>4 DEF SendShutdown, TypeOK
<1>5. ASSUME NEW c \in Conn, Close(c)
      PROVE  TypeOK'
  BY <1>5 DEF Close, TypeOK
<1>6. ASSUME NEW c \in Conn, Crash(c)
      PROVE  TypeOK'
  BY <1>6 DEF Crash, TypeOK
<1>7. ASSUME NEW c \in Conn, Cut(c)
      PROVE  TypeOK'
  BY <1>7 DEF Cut, TypeOK
<1>8. ASSUME NEW c \in Conn, Accept(c)
      PROVE  TypeOK'
  BY <1>8 DEF Accept, TypeOK
<1>9. ASSUME Push
      PROVE  TypeOK'
  BY <1>9 DEF Push, TypeOK
<1>10. ASSUME CleanMain
       PROVE  TypeOK'
  BY <1>10 DEF CleanMain, TypeOK, Cleaner
<1>11. ASSUME NEW w \in Conn, CleanWorker(w)
       PROVE  TypeOK'
  BY <1>11 DEF CleanWorker, TypeOK, Cleaner
<1>12. ASSUME NEW p \in Cleaner, NEW c \in Conn, CleanErase(p, c)
       PROVE  TypeOK'
  BY <1>12 DEF CleanErase, TypeOK
<1>13. ASSUME NEW p \in Cleaner, CleanDone(p)
       PROVE  TypeOK'
  BY <1>13 DEF CleanDone, TypeOK, Cleaner
<1>14. ASSUME NEW w \in Conn, Receive(w)
       PROVE  TypeOK'
  <2>1. /\ last' \in [Conn -> BOOLEAN] /\ finished' \in [Conn -> BOOLEAN]
        /\ sbuf' \in [Conn -> Seq(PacketType)] /\ c2s' \in [Conn -> Seq(PacketType)]
        /\ spc' \in [Conn -> WorkerPc]
    <3>2. last' \in [Conn -> BOOLEAN] /\ c2s' = [c2s EXCEPT ![w] = <<>>]
      BY <1>14 DEF Receive, TypeOK
    <3>3. c2s' \in [Conn -> Seq(PacketType)]
      BY <3>2 DEF TypeOK
    <3>4. \/ finished' = finished
          \/ finished' = [finished EXCEPT ![w] = last[w] \/ finished[w]]
      BY <1>14 DEF Receive
    <3>5. finished' \in [Conn -> BOOLEAN]
      BY <3>4 DEF TypeOK
    <3>6. sbuf' = sbuf \/ sbuf' = [sbuf EXCEPT ![w] = sbuf[w] \o c2s[w]]
      BY <1>14 DEF Receive
    <3>7. sbuf' \in [Conn -> Seq(PacketType)]
      <4>1. sbuf \in [Conn -> Seq(PacketType)]
        BY DEF TypeOK
      <4>2. sbuf[w] \o c2s[w] \in Seq(PacketType)
        BY <1>0a
      <4> HIDE <1>0, <1>0a DEF PacketType
      <4> QED
        BY <3>6, <4>1, <4>2
    <3>8. \E q \in WorkerPc : spc' = [spc EXCEPT ![w] = q]
      BY <1>14 DEF Receive
    <3>9. spc' \in [Conn -> WorkerPc]
      BY <3>8 DEF TypeOK
    <3> QED
      BY <3>2, <3>3, <3>5, <3>7, <3>9
  <2> QED
    BY <1>14, <2>1 DEF Receive, TypeOK
<1>15. ASSUME NEW w \in Conn, ParseNothing(w)
       PROVE  TypeOK'
  BY <1>15 DEF ParseNothing, AfterReceive, TypeOK
<1>16. ASSUME NEW w \in Conn, ParseRegister(w)
       PROVE  TypeOK'
  BY <1>16 DEF ParseRegister, TypeOK
<1>17. ASSUME NEW w \in Conn, CountExpected(w)
       PROVE  TypeOK'
  BY <1>17, FS_CardinalityType DEF CountExpected, TypeOK
<1>18. ASSUME NEW w \in Conn, ParseDeregister(w)
       PROVE  TypeOK'
  BY <1>18 DEF ParseDeregister, AfterReceive, TypeOK
<1>19. ASSUME NEW w \in Conn, ParseShutdown(w)
       PROVE  TypeOK'
  BY <1>19 DEF ParseShutdown, AfterReceive, TypeOK
<1>20. ASSUME NEW w \in Conn, CheckUpdate(w)
       PROVE  TypeOK'
  BY <1>20 DEF CheckUpdate, TypeOK
<1>21. ASSUME NEW w \in Conn, GetClients(w)
       PROVE  TypeOK'
  BY <1>21 DEF GetClients, TypeOK
<1>22. ASSUME NEW w \in Conn, ResetUpdate(w)
       PROVE  TypeOK'
  BY <1>22 DEF ResetUpdate, TypeOK
<1>23. ASSUME NEW w \in Conn, SendUpdate(w)
       PROVE  TypeOK'
  BY <1>23 DEF SendUpdate, TypeOK
<1>24. ASSUME NEW w \in Conn, KeepAlive(w)
       PROVE  TypeOK'
  BY <1>24 DEF KeepAlive, TypeOK
<1>25. CASE UNCHANGED vars
  BY <1>25 DEF vars, TypeOK
<1>26. ASSUME NEW w \in Conn, Alert(w)
       PROVE  TypeOK'
  BY <1>26 DEF Alert, AfterReceive, TypeOK
<1>27. ASSUME NEW w \in Conn, ParseTeardown(w)
       PROVE  TypeOK'
  BY <1>27 DEF ParseTeardown, TypeOK
<1>28. ASSUME NEW w \in Conn, BeginTeardown(w)
       PROVE  TypeOK'
  BY <1>28 DEF BeginTeardown, TypeOK, Cleaner
<1>29. ASSUME NEW w \in Conn, NEW c \in Conn, SendTeardown(w, c)
       PROVE  TypeOK'
  BY <1>29 DEF SendTeardown, TypeOK, Cleaner
<1>30. ASSUME NEW w \in Conn, EndTeardown(w)
       PROVE  TypeOK'
  BY <1>30 DEF EndTeardown, AfterReceive, TypeOK
<1>31. ASSUME NEW c \in Conn, AskTeardown(c)
       PROVE  TypeOK'
  BY <1>31 DEF AskTeardown, TypeOK
<1>32. ASSUME Leave \/ BeginClose \/ LockAll \/ CloseDone
       PROVE  TypeOK'
  BY <1>32 DEF Leave, BeginClose, LockAll, CloseDone, TypeOK, Cleaner
<1>33. ASSUME NEW c \in Conn, CloseNext(c)
       PROVE  TypeOK'
  BY <1>33 DEF CloseNext, TypeOK, Cleaner
<1>34. ASSUME NEW p \in Cleaner, NEW c \in Conn, PureCleanUp(p, c)
       PROVE  TypeOK'
  BY <1>34 DEF PureCleanUp, TypeOK
<1> QED
  BY <1>1, <1>2, <1>3, <1>4, <1>5, <1>6, <1>7, <1>8, <1>9, <1>10, <1>11, <1>12, <1>13,
     <1>14, <1>15, <1>16, <1>17, <1>18, <1>19, <1>20, <1>21, <1>22, <1>23, <1>24, <1>25,
     <1>26, <1>27, <1>28, <1>29, <1>30, <1>31, <1>32, <1>33, <1>34
     DEF Next, MainStep, Thread, Process, Worker, Sweep, Cleaner

(* The sets of connections stay finite. *)
LEMMA StepFinite ==
  ASSUME Typed, [Next]_vars
  PROVE  IsFiniteSet(conns') /\ IsFiniteSet(fresh')
<1> USE DEF countVars, portVars, workVars, netVars, clientVars
<1>1. IsFiniteSet(conns) /\ IsFiniteSet(fresh)
  BY DEF Typed
<1>2. ASSUME Push
      PROVE  IsFiniteSet(conns') /\ IsFiniteSet(fresh')
  BY <1>1, <1>2, FS_Union, FS_EmptySet DEF Push
<1>3. ASSUME NEW c \in Conn, Accept(c)
      PROVE  IsFiniteSet(conns') /\ IsFiniteSet(fresh')
  BY <1>1, <1>3, FS_Singleton DEF Accept
<1>4. ASSUME NEW p \in Cleaner, NEW c \in Conn, CleanErase(p, c)
      PROVE  IsFiniteSet(conns') /\ IsFiniteSet(fresh')
  BY <1>1, <1>4, FS_RemoveElement DEF CleanErase
<1>5. ASSUME UNCHANGED <<conns, fresh>>
      PROVE  IsFiniteSet(conns') /\ IsFiniteSet(fresh')
  BY <1>1, <1>5
<1>6. \/ UNCHANGED <<conns, fresh>>
      \/ Push \/ \E c \in Conn : Accept(c)
      \/ \E p \in Cleaner, c \in Conn : CleanErase(p, c)
  <2>1. ASSUME NEW c \in Conn,
               \/ Process(c) \/ Register(c) \/ Deregister(c) \/ Crash(c) \/ AskTeardown(c)
        PROVE  UNCHANGED <<conns, fresh>>
    BY <2>1 DEF Process, Register, Update, Deregister, SendShutdown, Close, Crash, Cut,
                AskTeardown
  <2>2. ASSUME NEW w \in Conn, Worker(w)
        PROVE  UNCHANGED <<conns, fresh>>
    BY <2>2 DEF Worker, Receive, ParseNothing, ParseRegister, CountExpected, Alert,
                CleanWorker, ParseDeregister, ParseShutdown, ParseTeardown, BeginTeardown,
                SendTeardown, EndTeardown, CheckUpdate, GetClients, ResetUpdate, SendUpdate,
                KeepAlive
  <2>3. ASSUME NEW p \in Cleaner, CleanDone(p) \/ \E c \in Conn : PureCleanUp(p, c)
        PROVE  UNCHANGED <<conns, fresh>>
    BY <2>3 DEF CleanDone, PureCleanUp
  <2>4. ASSUME \/ CleanMain \/ Leave \/ BeginClose \/ LockAll \/ CloseDone
               \/ \E c \in Conn : CloseNext(c)
        PROVE  UNCHANGED <<conns, fresh>>
    BY <2>4 DEF CleanMain, Leave, BeginClose, LockAll, CloseDone, CloseNext
  <2>5. CASE UNCHANGED vars
    BY <2>5 DEF vars
  <2> QED
    BY <2>1, <2>2, <2>3, <2>4, <2>5 DEF Next, MainStep, Thread, Sweep, Cleaner
<1> QED
  BY <1>2, <1>3, <1>4, <1>5, <1>6

(* Every state is well typed. *)
LEMMA TypedInvariant == Spec => []Typed
<1>1. Typed /\ [Next]_vars => Typed'
  <2> SUFFICES ASSUME Typed, [Next]_vars
               PROVE  Typed'
    OBVIOUS
  <2>1. TypeOK'
    BY StepTypes DEF Typed
  <2>2. IsFiniteSet(conns)' /\ IsFiniteSet(fresh)'
    BY StepFinite
  <2> QED
    BY <2>1, <2>2 DEF Typed
<1> QED
  BY InitTyped, <1>1, PTL DEF Spec

(* Every variable has its type: in particular a worker's expected count is *)
(* the size of a finite set, and the list holds only registered addresses. *)
THEOREM ServerTypeCorrect == Spec => []TypeOK
<1>1. Typed => TypeOK
  BY DEF Typed
<1> QED
  BY TypedInvariant, <1>1, PTL

----------------------------------------------------------------------------
(* The connections of the port.  A connection is filed once, while its      *)
(* worker runs, and only those with a worker are visited; and the server   *)
(* is taken down only when it does not run.                                *)

Ports ==
  /\ mpc # "push" => fresh = {}
  /\ conns \cap fresh = {}
  /\ mpc \in {"exit", "purge", "close", "closing", "over"} => ~running
  /\ \A x \in Conn : /\ spc[x] = "none" => /\ x \notin conns \cup fresh
                                          /\ \A p \in Cleaner : x \notin scan[p]
                     /\ spc[x] \notin {"none", "done"} => x \in conns \cup fresh

(* Every step keeps the connections filed. *)
LEMMA StepPorts ==
  ASSUME Typed, Ports, [Next]_vars
  PROVE  Ports'
<1> USE DEF Ports, countVars, portVars, workVars, netVars, clientVars
<1>1. TypeOK
  BY DEF Typed
<1>2. ASSUME NEW w \in Conn, Worker(w)
      PROVE  Ports'
  <2>1. /\ spc[w] \notin {"none", "done"} /\ (spc[w])' # "none"
        /\ \A x \in Conn \ {w} : UNCHANGED spc[x]
        /\ UNCHANGED <<conns, mpc, fresh>>
    BY <1>1, <1>2 DEF Worker, Receive, ParseNothing, ParseRegister, CountExpected, Alert,
         CleanWorker, ParseDeregister, ParseShutdown, ParseTeardown, BeginTeardown,
         SendTeardown, EndTeardown, CheckUpdate, GetClients, ResetUpdate, SendUpdate,
         KeepAlive, AfterReceive, TypeOK
  <2>2. \A p \in Cleaner : (scan[p])' \subseteq scan[p] \cup conns
    BY <1>1, <1>2 DEF Worker, Receive, ParseNothing, ParseRegister, CountExpected, Alert,
         CleanWorker, ParseDeregister, ParseShutdown, ParseTeardown, BeginTeardown,
         SendTeardown, EndTeardown, CheckUpdate, GetClients, ResetUpdate, SendUpdate,
         KeepAlive, TypeOK
  <2>3. running' => running
    BY <1>2 DEF Worker, Receive, ParseNothing, ParseRegister, CountExpected, Alert,
         CleanWorker, ParseDeregister, ParseShutdown, ParseTeardown, BeginTeardown,
         SendTeardown, EndTeardown, CheckUpdate, GetClients, ResetUpdate, SendUpdate, KeepAlive
  <2> QED
    BY <2>1, <2>2, <2>3
<1>3. ASSUME NEW c \in Conn,
             \/ Process(c) \/ Register(c) \/ Deregister(c) \/ Crash(c) \/ AskTeardown(c)
      PROVE  Ports'
  BY <1>3 DEF Process, Register, Update, Deregister, SendShutdown, Close, Crash, Cut,
              AskTeardown
<1>4. ASSUME NEW c \in Conn, Accept(c)
      PROVE  Ports'
  BY <1>1, <1>4 DEF Accept, TypeOK
<1>5. ASSUME Push
      PROVE  Ports'
  BY <1>1, <1>5 DEF Push, TypeOK
<1>6. ASSUME CleanMain \/ Leave \/ BeginClose \/ LockAll \/ CloseDone
      PROVE  Ports'
  <2>1. /\ UNCHANGED <<conns, fresh, running, spc>> /\ mpc # "push" /\ mpc' # "push"
        /\ mpc' \in {"exit", "purge", "close", "closing", "over"} => ~running
    BY <1>6 DEF CleanMain, Leave, BeginClose, LockAll, CloseDone
  <2>2. \A p \in Cleaner : (scan[p])' \subseteq scan[p] \cup conns
    BY <1>1, <1>6 DEF CleanMain, Leave, BeginClose, LockAll, CloseDone, TypeOK
  <2> QED
    BY <2>1, <2>2
<1>7. ASSUME NEW p \in Cleaner, NEW c \in Conn, CleanErase(p, c)
      PROVE  Ports'
  <2>1. /\ UNCHANGED <<fresh, running, mpc, spc>> /\ spc[c] = "done" /\ conns' = conns \ {c}
        /\ scan' = [scan EXCEPT ![p] = @ \ {c}]
    BY <1>7 DEF CleanErase
  <2>2. \A q \in Cleaner : (scan[q])' \subseteq scan[q]
    BY <1>1, <2>1 DEF TypeOK
  <2> QED
    BY <2>1, <2>2
<1>8. ASSUME NEW p \in Cleaner, CleanDone(p)
      PROVE  Ports'
  <2>1. UNCHANGED <<conns, fresh, running, scan>>
    BY <1>8 DEF CleanDone
  <2>2. CASE p = Main
    BY <1>8, <2>1, <2>2 DEF CleanDone, Cleaning
  <2>3. CASE p # Main
    <3>1. /\ p \in Conn /\ spc[p] = "cleaning" /\ spc' = [spc EXCEPT ![p] = "count"]
          /\ UNCHANGED mpc
      BY <1>8, <2>3 DEF CleanDone, Cleaning, Cleaner
    <3> QED
      BY <1>1, <2>1, <3>1 DEF TypeOK
  <2> QED
    BY <2>2, <2>3
<1>9. CASE UNCHANGED vars
  BY <1>9 DEF vars
<1>10. ASSUME NEW c \in Conn, CloseNext(c)
       PROVE  Ports'
  <2>1. UNCHANGED <<conns, fresh, running, mpc, spc>> /\ scan' = [scan EXCEPT ![Main] = @ \ {c}]
    BY <1>10 DEF CloseNext
  <2>2. \A q \in Cleaner : (scan[q])' \subseteq scan[q]
    BY <1>1, <2>1 DEF TypeOK
  <2> QED
    BY <2>1, <2>2
<1>11. ASSUME NEW p \in Cleaner, NEW c \in Conn, PureCleanUp(p, c)
       PROVE  Ports'
  BY <1>11 DEF PureCleanUp, Destructing
<1> QED
  BY <1>2, <1>3, <1>4, <1>5, <1>6, <1>7, <1>8, <1>9, <1>10, <1>11
  DEF Next, MainStep, Thread, Sweep, Cleaner

(* Connections are filed from the start. *)
LEMMA InitPorts ==
  ASSUME Init
  PROVE  Ports
  BY DEF Init, Ports

----------------------------------------------------------------------------
(* The handshake of a connection: a REGISTER is the first packet of its     *)
(* client, and a worker that has not seen it knows no address.             *)

(* Only the first element can be a REGISTER. *)
FirstOnly(s) == \A i \in DOMAIN s : s[i] = "REGISTER" => i = 1

Handshake(x) ==
  /\ cst[x] = "unborn" => spc[x] = "none" /\ c2s[x] = <<>>
  /\ spc[x] = "none" => sbuf[x] = <<>> /\ ~finished[x] /\ ~last[x] /\ other[x] = NoAddr
  /\ "REGISTER" \in Elements(c2s[x]) =>
       spc[x] \in {"none", "loop"} /\ sbuf[x] = <<>> /\ other[x] = NoAddr
  /\ "REGISTER" \in Elements(sbuf[x]) => spc[x] = "parse" /\ other[x] = NoAddr
  /\ FirstOnly(c2s[x]) /\ FirstOnly(sbuf[x])

Greeted == Typed /\ Ports /\ \A x \in Conn : Handshake(x)

(* No packet, one packet. *)
LEMMA FirstOnlyShort ==
  /\ FirstOnly(<<>>) /\ Elements(<<>>) = {}
  /\ FirstOnly(<<"REGISTER">>) /\ Elements(<<"REGISTER">>) = {"REGISTER"}
BY DEF FirstOnly, Elements

(* After the first packet there is no REGISTER. *)
LEMMA FirstOnlyTail ==
  ASSUME NEW s \in Seq(PacketType), s # <<>>, FirstOnly(s)
  PROVE  /\ FirstOnly(Tail(s)) /\ "REGISTER" \notin Elements(Tail(s))
         /\ Head(s) \in Elements(s) /\ Elements(Tail(s)) \subseteq Elements(s)
<1>1. /\ Tail(s) \in Seq(PacketType) /\ Len(Tail(s)) = Len(s) - 1
      /\ \A i \in 1..Len(Tail(s)) : Tail(s)[i] = s[i + 1]
      /\ Len(s) \in Nat /\ DOMAIN s = 1..Len(s)
      /\ DOMAIN Tail(s) = 1..Len(Tail(s))
  <2>1. /\ Tail(s) \in Seq(PacketType) /\ Len(Tail(s)) = Len(s) - 1
        /\ \A i \in 1..Len(Tail(s)) : Tail(s)[i] = s[i + 1]
    BY HeadTailProperties
  <2> QED
    BY <2>1, LenProperties
<1>2. ASSUME NEW i \in 1..Len(Tail(s))
      PROVE  Tail(s)[i] # "REGISTER"
  <2>1. i + 1 \in DOMAIN s /\ i + 1 # 1 /\ Tail(s)[i] = s[i + 1]
    BY <1>1
  <2> QED
    BY <2>1 DEF FirstOnly
<1>3. FirstOnly(Tail(s))
  BY <1>1, <1>2 DEF FirstOnly
<1>4. Elements(Tail(s)) = {Tail(s)[i] : i \in 1..Len(Tail(s))}
  BY <1>1, ElementsType
<1>5. "REGISTER" \notin Elements(Tail(s))
  BY <1>2, <1>4
<1>6. Elements(s) = {Head(s)} \cup Elements(Tail(s))
  BY ElementsHeadTail
<1> QED
  BY <1>3, <1>5, <1>6

(* A later packet that is no REGISTER. *)
LEMMA FirstOnlyAppend ==
  ASSUME NEW s \in Seq(PacketType), NEW e \in PacketType, e # "REGISTER", FirstOnly(s)
  PROVE  FirstOnly(Append(s, e)) /\ Elements(Append(s, e)) = Elements(s) \cup {e}
<1>1. /\ Append(s, e) \in Seq(PacketType) /\ Len(Append(s, e)) = Len(s) + 1
      /\ \A i \in 1..Len(s) : Append(s, e)[i] = s[i]
      /\ Append(s, e)[Len(s) + 1] = e
  BY AppendProperties
<1>2. Len(s) \in Nat /\ DOMAIN s = 1..Len(s) /\ DOMAIN Append(s, e) = 1..(Len(s) + 1)
  <2>1. DOMAIN Append(s, e) = 1..Len(Append(s, e))
    BY <1>1, LenProperties
  <2> QED
    BY <2>1, <1>1, LenProperties
<1>3. FirstOnly(Append(s, e))
  <2> SUFFICES ASSUME NEW i \in 1..(Len(s) + 1), Append(s, e)[i] = "REGISTER"
               PROVE  i = 1
    BY <1>2 DEF FirstOnly
  <2>1. i \in 1..Len(s)
    BY <1>1, <1>2
  <2> QED
    BY <2>1, <1>1, <1>2 DEF FirstOnly
<1> QED
  BY <1>3, ElementsAppend

(* What was received after what is in the buffer. *)
LEMMA FirstOnlyConcat ==
  ASSUME NEW s \in Seq(PacketType), NEW u \in Seq(PacketType), FirstOnly(s), FirstOnly(u),
         "REGISTER" \in Elements(u) => s = <<>>
  PROVE  FirstOnly(s \o u) /\ Elements(s \o u) = Elements(s) \cup Elements(u)
<1>1. FirstOnly(s \o u)
  <2>1. CASE s = <<>>
    <3>1. s \o u = u
      BY <2>1, ConcatEmptySeq
    <3> QED
      BY <3>1, Zenon
  <2>2. CASE "REGISTER" \notin Elements(u)
    <3>1. /\ s \o u \in Seq(PacketType) /\ Len(s \o u) = Len(s) + Len(u)
          /\ \A i \in 1..(Len(s) + Len(u)) :
               (s \o u)[i] = IF i <= Len(s) THEN s[i] ELSE u[i - Len(s)]
      BY ConcatProperties
    <3>2. /\ Len(s) \in Nat /\ Len(u) \in Nat /\ DOMAIN s = 1..Len(s)
          /\ DOMAIN u = 1..Len(u)
      BY LenProperties
    <3>3. DOMAIN (s \o u) = 1..(Len(s) + Len(u))
      <4>1. DOMAIN (s \o u) = 1..Len(s \o u)
        BY <3>1, LenProperties
      <4> QED
        BY <4>1, <3>1, Zenon
    <3>4. \A j \in 1..Len(u) : u[j] # "REGISTER"
      BY <2>2, <3>2 DEF Elements
    <3>5. ASSUME NEW i \in 1..(Len(s) + Len(u)), (s \o u)[i] = "REGISTER"
          PROVE  i = 1
      <4>1. CASE i <= Len(s)
        <5>1. i \in DOMAIN s /\ s[i] = "REGISTER"
          BY <4>1, <3>1, <3>2, <3>5
        <5> QED
          BY <5>1 DEF FirstOnly
      <4>2. CASE ~(i <= Len(s))
        <5>1. i - Len(s) \in 1..Len(u)
          BY <4>2, <3>2
        <5>2. u[i - Len(s)] = "REGISTER"
          BY <4>2, <3>1, <3>5
        <5> QED
          BY <5>1, <5>2, <3>4
      <4> QED
        BY <4>1, <4>2
    <3> QED
      BY <3>3, <3>5 DEF FirstOnly
  <2> QED
    BY <2>1, <2>2
<1> QED
  BY <1>1, ElementsConcat

(* The packets of a typed state. *)
LEMMA PacketsTyped ==
  ASSUME TypeOK, NEW x \in Conn
  PROVE  sbuf[x] \in Seq(PacketType) /\ c2s[x] \in Seq(PacketType)
BY DEF TypeOK, PacketType

(* What does not concern a connection keeps its handshake. *)
LEMMA HandshakeFrame ==
  ASSUME NEW x \in Conn, Handshake(x),
         (cst[x] = "unborn")' => cst[x] = "unborn",
         finished'[x] => finished[x] \/ spc[x] # "none",
         UNCHANGED <<spc[x], last[x], other[x], sbuf[x], c2s[x]>>
  PROVE  Handshake(x)'
BY DEF Handshake

(* Every step of a client or of the main thread keeps every handshake. *)
LEMMA ClientHandshake ==
  ASSUME Greeted, NEW c \in Conn,
         \/ Process(c) \/ Register(c) \/ Deregister(c) \/ Crash(c) \/ AskTeardown(c)
         \/ Accept(c) \/ CloseNext(c)
         \/ Push \/ CleanMain \/ Leave \/ BeginClose \/ LockAll \/ CloseDone,
         NEW x \in Conn
  PROVE  Handshake(x)'
<1> USE DEF countVars, portVars, workVars, netVars, clientVars
<1>1. TypeOK /\ Handshake(x) /\ sbuf[x] \in Seq(PacketType) /\ c2s[x] \in Seq(PacketType)
  BY PacketsTyped DEF Greeted, Typed
<1>2. ASSUME Register(c)
      PROVE  Handshake(x)'
  <2>1. CASE x = c
    BY <1>1, <1>2, <2>1, FirstOnlyShort DEF Register, Handshake, TypeOK
  <2>2. CASE x # c
    BY <1>1, <1>2, <2>2, HandshakeFrame DEF Register, TypeOK
  <2> QED
    BY <2>1, <2>2
<1>3. ASSUME NEW p \in PacketType, p # "REGISTER", cst[c] # "unborn", cst'[c] # "unborn",
             \A d \in Conn : d # c => UNCHANGED cst[d],
             c2s' = [c2s EXCEPT ![c] = Append(@, p)], UNCHANGED workVars
      PROVE  Handshake(x)'
  <2>1. CASE x = c
    <3>1. FirstOnly(c2s[x]) /\ cst[x] # "unborn" /\ (cst[x])' # "unborn"
      BY <1>1, <1>3, <2>1 DEF Handshake
    <3>2. PICK s : s = Append(c2s[x], p)
      OBVIOUS
    <3>3. FirstOnly(s) /\ ("REGISTER" \in Elements(s) => "REGISTER" \in Elements(c2s[x]))
      BY <1>1, <1>3, <3>1, <3>2, FirstOnlyAppend
    <3>4. (c2s[x])' = s /\ UNCHANGED <<spc[x], last[x], finished[x], other[x], sbuf[x]>>
      BY <1>1, <1>3, <2>1, <3>2 DEF TypeOK
    <3> QED
      BY <1>1, <3>1, <3>3, <3>4 DEF Handshake
  <2>2. CASE x # c
    <3>1. UNCHANGED <<cst[x], spc[x], last[x], finished[x], other[x], sbuf[x], c2s[x]>>
      BY <1>1, <1>3, <2>2 DEF TypeOK
    <3> QED
      BY <1>1, <3>1, HandshakeFrame
  <2> QED
    BY <2>1, <2>2
<1>4. CASE Deregister(c)
  BY <1>1, <1>3, <1>4 DEF Deregister, TypeOK, PacketType
<1>5. CASE SendShutdown(c)
  BY <1>1, <1>3, <1>5 DEF SendShutdown, TypeOK, PacketType
<1>6. CASE Update(c) \/ Close(c) \/ Crash(c) \/ Cut(c)
  BY <1>1, <1>6, HandshakeFrame DEF Update, Close, Crash, Cut, TypeOK
<1>7. CASE Accept(c)
  <2>1. CASE x = c
    <3>1. /\ cst[x] # "unborn" /\ spc[x] = "none" /\ (spc[x])' = "loop"
          /\ UNCHANGED <<cst[x], last[x], finished[x], other[x], sbuf[x], c2s[x]>>
      BY <1>1, <1>7, <2>1 DEF Accept, TypeOK
    <3> QED
      BY <1>1, <3>1, FirstOnlyShort DEF Handshake
  <2>2. CASE x # c
    BY <1>1, <1>7, <2>2, HandshakeFrame DEF Accept, TypeOK
  <2> QED
    BY <2>1, <2>2
<1>8. CASE Push \/ CleanMain \/ Leave \/ BeginClose \/ LockAll \/ CloseDone
  BY <1>1, <1>8, HandshakeFrame DEF Push, CleanMain, Leave, BeginClose, LockAll, CloseDone
<1>9. CASE AskTeardown(c)
  BY <1>1, <1>3, <1>9 DEF AskTeardown, TypeOK, PacketType
<1>10. CASE CloseNext(c)
  <2>1. spc[c] # "none"
    BY <1>10 DEF CloseNext, Greeted, Ports, Cleaner
  <2>2. /\ UNCHANGED <<cst[x], spc[x], last[x], other[x], sbuf[x], c2s[x]>>
        /\ finished'[x] => finished[x] \/ x = c
    BY <1>1, <1>10 DEF CloseNext, TypeOK
  <2> QED
    BY <1>1, <2>1, <2>2, HandshakeFrame
<1> QED
  BY <1>2, <1>4, <1>5, <1>6, <1>7, <1>8, <1>9, <1>10 DEF Process

(* Every step of a worker or of a cleaning thread keeps every handshake. *)
LEMMA WorkerHandshake ==
  ASSUME Greeted, NEW w \in Conn, Worker(w), NEW x \in Conn
  PROVE  Handshake(x)'
<1> USE DEF countVars, portVars, workVars, netVars, clientVars
<1>1. /\ TypeOK /\ Handshake(x) /\ Handshake(w)
      /\ sbuf[x] \in Seq(PacketType) /\ c2s[x] \in Seq(PacketType)
  BY PacketsTyped DEF Greeted, Typed
<1>2. CASE x # w
  <2>1. UNCHANGED <<cst[x], spc[x], last[x], other[x], sbuf[x], c2s[x]>>
    BY <1>1, <1>2 DEF Worker, Receive, ParseNothing, ParseRegister, CountExpected, Alert,
         CleanWorker, ParseDeregister, ParseShutdown, ParseTeardown, BeginTeardown,
         SendTeardown, EndTeardown, CheckUpdate, GetClients, ResetUpdate, SendUpdate,
         KeepAlive, TypeOK
  <2>2. finished'[x] => finished[x] \/ spc[x] # "none"
    <3>1. CASE \E c \in Conn : SendTeardown(w, c)
      <4>1. PICK c \in Conn : SendTeardown(w, c)
        BY <3>1
      <4>2. spc[c] # "none"
        BY <4>1 DEF SendTeardown, Greeted, Ports, Cleaner
      <4> QED
        BY <1>1, <4>1, <4>2 DEF SendTeardown, TypeOK
    <3>2. CASE ~(\E c \in Conn : SendTeardown(w, c))
      BY <1>1, <1>2, <3>2 DEF Worker, Receive, ParseNothing, ParseRegister, CountExpected,
         Alert, CleanWorker, ParseDeregister, ParseShutdown, ParseTeardown, BeginTeardown,
         EndTeardown, CheckUpdate, GetClients, ResetUpdate, SendUpdate, KeepAlive, TypeOK
    <3> QED
      BY <3>1, <3>2
  <2> QED
    BY <1>1, <2>1, <2>2, HandshakeFrame
<1>3. SUFFICES ASSUME x = w
               PROVE  Handshake(x)'
  BY <1>2
<1>4. CASE Receive(w)
  <2>1. PICK s : s = sbuf[x] \o c2s[x]
    OBVIOUS
  <2>2. FirstOnly(s) /\ Elements(s) = Elements(sbuf[x]) \cup Elements(c2s[x])
    BY <1>1, <2>1, FirstOnlyConcat DEF Handshake
  <2>3. /\ spc[x] = "loop" /\ UNCHANGED <<cst[x], other[x]>> /\ (c2s[x])' = <<>>
        /\ \/ /\ (sbuf[x])' = s /\ (spc[x])' = "parse" /\ UNCHANGED finished[x]
           \/ /\ UNCHANGED sbuf[x] /\ (spc[x])' \in {"done", "check"}
    BY <1>1, <1>3, <1>4, <2>1 DEF Receive, TypeOK
  <2> QED
    BY <1>1, <2>2, <2>3, FirstOnlyShort DEF Handshake
<1>5. CASE ParseNothing(w)
  <2>1. /\ spc[x] = "parse" /\ sbuf[x] = <<>> /\ (spc[x])' \in {"done", "check"}
        /\ UNCHANGED <<cst[x], last[x], other[x], sbuf[x], c2s[x]>>
    BY <1>1, <1>3, <1>5 DEF ParseNothing, AfterReceive, TypeOK
  <2> QED
    BY <1>1, <2>1, FirstOnlyShort DEF Handshake
<1>6. ASSUME spc[x] = "parse", sbuf[x] # <<>>, sbuf' = [sbuf EXCEPT ![w] = Tail(@)],
             (spc[x])' \in {"done", "check", "clean", "ask"},
             UNCHANGED <<cst[x], last[x], c2s[x]>>
      PROVE  Handshake(x)'
  <2>1. PICK s : s = Tail(sbuf[x])
    OBVIOUS
  <2>2. FirstOnly(s) /\ "REGISTER" \notin Elements(s)
    BY <1>1, <1>6, <2>1, FirstOnlyTail DEF Handshake
  <2>3. (sbuf[x])' = s
    BY <1>1, <1>3, <1>6, <2>1 DEF TypeOK
  <2> QED
    BY <1>1, <1>6, <2>2, <2>3 DEF Handshake
<1>7. CASE ParseRegister(w)
  <2>1. /\ spc[x] = "parse" /\ sbuf[x] # <<>> /\ sbuf' = [sbuf EXCEPT ![w] = Tail(@)]
        /\ (spc[x])' = "clean" /\ UNCHANGED <<cst[x], last[x], c2s[x]>>
    BY <1>1, <1>3, <1>7 DEF ParseRegister, TypeOK
  <2> QED
    BY <1>6, <2>1
<1>8. CASE ParseDeregister(w)
  BY <1>1, <1>3, <1>6, <1>8 DEF ParseDeregister, AfterReceive, TypeOK
<1>9. CASE ParseShutdown(w)
  BY <1>1, <1>3, <1>6, <1>9 DEF ParseShutdown, AfterReceive, TypeOK
<1>10. CASE CleanWorker(w) \/ CountExpected(w)
  BY <1>1, <1>3, <1>10 DEF CleanWorker, CountExpected, Handshake, TypeOK
<1>11. CASE Alert(w)
  BY <1>1, <1>3, <1>11 DEF Alert, AfterReceive, Handshake, TypeOK
<1>14. CASE ParseTeardown(w)
  BY <1>1, <1>3, <1>6, <1>14 DEF ParseTeardown, TypeOK
<1>15. CASE BeginTeardown(w) \/ EndTeardown(w) \/ \E c \in Conn : SendTeardown(w, c)
  <2>1. /\ spc[x] \in {"ask", "telling"} /\ (spc[x])' \in {"telling", "done", "check"}
        /\ UNCHANGED <<cst[x], last[x], other[x], sbuf[x], c2s[x]>>
    BY <1>1, <1>3, <1>15 DEF BeginTeardown, EndTeardown, SendTeardown, AfterReceive, TypeOK
  <2> QED
    BY <1>1, <2>1 DEF Handshake
<1>12. CASE CheckUpdate(w) \/ GetClients(w) \/ ResetUpdate(w)
  BY <1>1, <1>3, <1>12 DEF CheckUpdate, GetClients, ResetUpdate, Handshake, TypeOK
<1>13. CASE SendUpdate(w) \/ KeepAlive(w)
  <2>1. /\ spc[x] \in {"send", "alive"} /\ (spc[x])' \in {"alive", "loop"}
        /\ UNCHANGED <<cst[x], finished[x], other[x], sbuf[x], c2s[x]>>
    BY <1>1, <1>3, <1>13 DEF SendUpdate, KeepAlive, TypeOK
  <2> QED
    BY <1>1, <2>1 DEF Handshake
<1> QED
  BY <1>4, <1>5, <1>7, <1>8, <1>9, <1>10, <1>11, <1>12, <1>13, <1>14, <1>15 DEF Worker

(* So does cleaning up. *)
LEMMA SweepHandshake ==
  ASSUME Greeted, NEW p \in Cleaner, Sweep(p), NEW x \in Conn
  PROVE  Handshake(x)'
<1> USE DEF countVars, portVars, workVars, netVars, clientVars
<1>1. TypeOK /\ Handshake(x)
  BY DEF Greeted, Typed
<1>2. CASE \E c \in Conn : CleanErase(p, c) \/ PureCleanUp(p, c)
  BY <1>1, <1>2, HandshakeFrame DEF CleanErase, PureCleanUp
<1>3. CASE CleanDone(p)
  <2>1. CASE x = p
    <3>1. /\ spc[x] = "cleaning" /\ (spc[x])' = "count"
          /\ UNCHANGED <<cst[x], last[x], finished[x], other[x], sbuf[x], c2s[x]>>
      BY <1>1, <1>3, <2>1, ConstAssumption DEF CleanDone, Cleaning, TypeOK
    <3> QED
      BY <1>1, <3>1 DEF Handshake
  <2>2. CASE x # p
    BY <1>1, <1>3, <2>2, HandshakeFrame DEF CleanDone, TypeOK, Cleaner
  <2> QED
    BY <2>1, <2>2
<1> QED
  BY <1>2, <1>3 DEF Sweep

(* Handshakes are kept from the start. *)
LEMMA GreetedInvariant == Spec => []Greeted
<1>1. Init => Greeted
  <2> SUFFICES ASSUME Init
               PROVE  Typed /\ Ports /\ \A x \in Conn : Handshake(x)
    BY DEF Greeted
  <2>1. \A x \in Conn : Handshake(x)
    BY FirstOnlyShort DEF Init, Handshake
  <2> QED
    BY <2>1, InitTyped, InitPorts
<1>2. Greeted /\ [Next]_vars => Greeted'
  <2> SUFFICES ASSUME Greeted, [Next]_vars
               PROVE  Greeted'
    OBVIOUS
  <2>1. Typed' /\ Ports'
    BY StepTypes, StepFinite, StepPorts DEF Greeted, Typed
  <2>2. ASSUME NEW x \in Conn
        PROVE  Handshake(x)'
    <3>1. ASSUME NEW c \in Conn,
                 \/ Process(c) \/ Register(c) \/ Deregister(c) \/ Crash(c) \/ AskTeardown(c)
                 \/ Accept(c) \/ CloseNext(c)
          PROVE  Handshake(x)'
      BY <3>1, ClientHandshake
    <3>2. CASE Push \/ CleanMain \/ Leave \/ BeginClose \/ LockAll \/ CloseDone
      BY <3>2, ClientHandshake
    <3>3. ASSUME NEW w \in Conn, Worker(w)
          PROVE  Handshake(x)'
      BY <3>3, WorkerHandshake
    <3>4. ASSUME NEW p \in Cleaner, Sweep(p)
          PROVE  Handshake(x)'
      BY <3>4, SweepHandshake
    <3>5. CASE UNCHANGED vars
      BY <3>5, HandshakeFrame DEF Greeted, vars, workVars, netVars, clientVars
    <3> QED
      BY <3>1, <3>2, <3>3, <3>4, <3>5 DEF Next, MainStep, Thread, Cleaner
  <2> QED
    BY <2>1, <2>2 DEF Greeted
<1> QED
  BY <1>1, <1>2, PTL DEF Spec

----------------------------------------------------------------------------
(* The parting of a connection.  That nobody who is joined wants            *)
(* _connections_mutex hangs on the order of packets: SHUTDOWN is the last  *)
(* packet of its client, so that a worker that has read it finds nothing   *)
(* that makes it want the mutex; other workers are asked to finish only by *)
(* a teardown, which holds the mutex until the server does not run.        *)

(* Only the last element can be a SHUTDOWN. *)
LastOnly(s) == \A i \in DOMAIN s : s[i] = "SHUTDOWN" => i = Len(s)

Wanting == {"clean", "cleaning", "count", "raise", "ask", "telling"}

(* No teardown is under way or over. *)
Quiet == running /\ \A w \in Conn : spc[w] # "telling"

Parting(x) ==
  /\ LastOnly(c2s[x]) /\ LastOnly(sbuf[x])
  /\ "SHUTDOWN" \in Elements(sbuf[x]) => c2s[x] = <<>>
  /\ "SHUTDOWN" \in Elements(c2s[x]) \cup Elements(sbuf[x]) => cst[x] \in {"closing", "ended"}
  /\ Quiet /\ finished[x] /\ spc[x] # "done" =>
       /\ cst[x] \in {"closing", "ended"}
       /\ c2s[x] = <<>> /\ sbuf[x] = <<>>
       /\ spc[x] \notin Wanting

(* _connections_mutex has one holder. *)
Holds(p) ==
  IF p = Main THEN mpc \in {"cleaning", "purge", "closing"}
              ELSE spc[p] \in {"cleaning", "raise", "telling"}

Exclusive == \A p, q \in Cleaner : Holds(p) /\ Holds(q) => p = q

(* No packet, one packet. *)
LEMMA LastOnlyShort ==
  LastOnly(<<>>) /\ LastOnly(<<"REGISTER">>)
BY DEF LastOnly

(* What was received after what is in the buffer. *)
LEMMA LastOnlyConcat ==
  ASSUME NEW s \in Seq(PacketType), NEW u \in Seq(PacketType), LastOnly(s), LastOnly(u),
         "SHUTDOWN" \in Elements(s) => u = <<>>
  PROVE  LastOnly(s \o u)
<1>1. CASE u = <<>>
  <2>1. s \o u = s
    BY <1>1, ConcatEmptySeq
  <2> QED
    BY <2>1, Zenon
<1>2. CASE "SHUTDOWN" \notin Elements(s)
  <2>1. /\ s \o u \in Seq(PacketType) /\ Len(s \o u) = Len(s) + Len(u)
        /\ \A i \in 1..(Len(s) + Len(u)) :
             (s \o u)[i] = IF i <= Len(s) THEN s[i] ELSE u[i - Len(s)]
    BY ConcatProperties
  <2>2. Len(s) \in Nat /\ Len(u) \in Nat /\ DOMAIN s = 1..Len(s) /\ DOMAIN u = 1..Len(u)
    BY LenProperties
  <2>3. DOMAIN (s \o u) = 1..(Len(s) + Len(u))
    <3>1. DOMAIN (s \o u) = 1..Len(s \o u)
      BY <2>1, LenProperties
    <3> QED
      BY <3>1, <2>1, Zenon
  <2>4. \A j \in 1..Len(s) : s[j] # "SHUTDOWN"
    BY <1>2, <2>2 DEF Elements
  <2>5. ASSUME NEW i \in 1..(Len(s) + Len(u)), (s \o u)[i] = "SHUTDOWN"
        PROVE  i = Len(s) + Len(u)
    <3>1. ~(i <= Len(s))
      BY <2>1, <2>2, <2>4, <2>5
    <3>2. i - Len(s) \in 1..Len(u)
      BY <3>1, <2>2
    <3>3. u[i - Len(s)] = "SHUTDOWN"
      BY <3>1, <2>1, <2>5
    <3>4. i - Len(s) = Len(u)
      BY <3>2, <3>3, <2>2 DEF LastOnly
    <3> QED
      BY <3>2, <3>4, <2>2
  <2> QED
    BY <2>1, <2>3, <2>5 DEF LastOnly
<1> QED
  BY <1>1, <1>2

(* A packet more, when there is no SHUTDOWN yet. *)
LEMMA LastOnlyAppend ==
  ASSUME NEW s \in Seq(PacketType), NEW e \in PacketType, "SHUTDOWN" \notin Elements(s)
  PROVE  LastOnly(Append(s, e)) /\ Elements(Append(s, e)) = Elements(s) \cup {e}
<1>1. /\ Append(s, e) \in Seq(PacketType) /\ Len(Append(s, e)) = Len(s) + 1
      /\ \A i \in 1..Len(s) : Append(s, e)[i] = s[i]
  BY AppendProperties
<1>2. Len(s) \in Nat /\ DOMAIN s = 1..Len(s) /\ DOMAIN Append(s, e) = 1..(Len(s) + 1)
  <2>1. DOMAIN Append(s, e) = 1..Len(Append(s, e))
    BY <1>1, LenProperties
  <2> QED
    BY <2>1, <1>1, LenProperties
<1>3. \A j \in 1..Len(s) : s[j] # "SHUTDOWN"
  BY <1>2 DEF Elements
<1>4. ASSUME NEW i \in 1..(Len(s) + 1), Append(s, e)[i] = "SHUTDOWN"
      PROVE  i = Len(s) + 1
  BY <1>1, <1>2, <1>3, <1>4
<1> QED
  BY <1>1, <1>2, <1>4, ElementsAppend DEF LastOnly

(* Before the last packet there is no SHUTDOWN. *)
LEMMA LastOnlyTail ==
  ASSUME NEW s \in Seq(PacketType), s # <<>>, LastOnly(s)
  PROVE  /\ LastOnly(Tail(s))
         /\ Head(s) = "SHUTDOWN" => Tail(s) = <<>>
<1>1. /\ Tail(s) \in Seq(PacketType) /\ Len(Tail(s)) = Len(s) - 1
      /\ \A i \in 1..Len(Tail(s)) : Tail(s)[i] = s[i + 1]
      /\ Len(s) \in Nat /\ Len(s) # 0 /\ DOMAIN s = 1..Len(s) /\ Head(s) = s[1]
      /\ DOMAIN Tail(s) = 1..Len(Tail(s))
  <2>1. /\ Tail(s) \in Seq(PacketType) /\ Len(Tail(s)) = Len(s) - 1
        /\ \A i \in 1..Len(Tail(s)) : Tail(s)[i] = s[i + 1]
    BY HeadTailProperties
  <2> QED
    BY <2>1, LenProperties, EmptySeq
<1>2. ASSUME NEW i \in 1..Len(Tail(s)), Tail(s)[i] = "SHUTDOWN"
      PROVE  i = Len(Tail(s))
  <2>1. i + 1 \in DOMAIN s /\ s[i + 1] = "SHUTDOWN"
    BY <1>1, <1>2
  <2>2. i + 1 = Len(s)
    BY <2>1 DEF LastOnly
  <2> QED
    BY <2>2, <1>1
<1>3. ASSUME Head(s) = "SHUTDOWN"
      PROVE  Tail(s) = <<>>
  <2>1. 1 \in DOMAIN s /\ s[1] = "SHUTDOWN"
    BY <1>1, <1>3
  <2>2. 1 = Len(s)
    BY <2>1 DEF LastOnly
  <2>3. Len(Tail(s)) = 0
    BY <2>2, <1>1
  <2> QED
    BY <2>3, <1>1, EmptySeq
<1> QED
  BY <1>1, <1>2, <1>3 DEF LastOnly

(* A teardown is never undone. *)
LEMMA StepQuiet ==
  ASSUME TypeOK, [Next]_vars, Quiet'
  PROVE  Quiet
<1> USE DEF countVars, portVars, workVars, netVars, clientVars
<1>1. ASSUME NEW w \in Conn, Worker(w)
      PROVE  Quiet
  <2>1. running' => running
    BY <1>1 DEF Worker, Receive, ParseNothing, ParseRegister, CountExpected, Alert,
       CleanWorker, ParseDeregister, ParseShutdown, ParseTeardown, BeginTeardown,
       SendTeardown, EndTeardown, CheckUpdate, GetClients, ResetUpdate, SendUpdate, KeepAlive
  <2>2. ASSUME NEW x \in Conn, spc[x] = "telling"
        PROVE  (spc[x])' = "telling" \/ ~running'
    BY <1>1, <2>2 DEF Worker, Receive, ParseNothing, ParseRegister, CountExpected, Alert,
       CleanWorker, ParseDeregister, ParseShutdown, ParseTeardown, BeginTeardown,
       SendTeardown, EndTeardown, CheckUpdate, GetClients, ResetUpdate, SendUpdate,
       KeepAlive, TypeOK
  <2> QED
    BY <2>1, <2>2 DEF Quiet
<1>2. ASSUME NEW p \in Cleaner, Sweep(p)
      PROVE  Quiet
  <2>1. running' = running
    BY <1>2 DEF Sweep, CleanDone, CleanErase, PureCleanUp
  <2>2. ASSUME NEW x \in Conn, spc[x] = "telling"
        PROVE  (spc[x])' = "telling"
    BY <1>2, <2>2 DEF Sweep, CleanDone, CleanErase, PureCleanUp, Cleaning, TypeOK
  <2> QED
    BY <2>1, <2>2 DEF Quiet
<1>3. ASSUME NEW c \in Conn,
             \/ Process(c) \/ Register(c) \/ Deregister(c) \/ Crash(c) \/ AskTeardown(c)
             \/ CloseNext(c)
      PROVE  Quiet
  <2>1. UNCHANGED <<running, spc>>
    BY <1>3 DEF Process, Register, Update, Deregister, SendShutdown, Close, Crash, Cut,
       AskTeardown, CloseNext
  <2> QED
    BY <2>1 DEF Quiet
<1>4. ASSUME NEW c \in Conn, Accept(c)
      PROVE  Quiet
  BY <1>4 DEF Accept, Quiet, TypeOK
<1>5. CASE Push \/ CleanMain \/ Leave \/ BeginClose \/ LockAll \/ CloseDone \/ UNCHANGED vars
  BY <1>5 DEF Push, CleanMain, Leave, BeginClose, LockAll, CloseDone, vars, Quiet
<1> QED
  BY <1>1, <1>2, <1>3, <1>4, <1>5 DEF Next, MainStep, Thread, Cleaner

Parted == Greeted /\ Exclusive /\ \A x \in Conn : Parting(x)

(* What does not concern a connection keeps its parting. *)
LEMMA PartingFrame ==
  ASSUME NEW x \in Conn, Parting(x), Quiet' => Quiet,
         cst[x] \in {"closing", "ended"} => (cst[x])' \in {"closing", "ended"},
         Quiet' /\ finished'[x] => finished[x],
         UNCHANGED <<spc[x], sbuf[x], c2s[x]>>
  PROVE  Parting(x)'
BY DEF Parting, Wanting, LastOnly, Elements

(* Every step of a client or of the main thread keeps every parting. *)
LEMMA ClientParting ==
  ASSUME Parted, Quiet' => Quiet, NEW c \in Conn,
         \/ Process(c) \/ Register(c) \/ Deregister(c) \/ Crash(c) \/ AskTeardown(c)
         \/ Accept(c) \/ CloseNext(c)
         \/ Push \/ CleanMain \/ Leave \/ BeginClose \/ LockAll \/ CloseDone,
         NEW x \in Conn
  PROVE  Parting(x)'
<1> USE DEF countVars, portVars, workVars, netVars, clientVars
<1>1. /\ TypeOK /\ Handshake(x) /\ Parting(x)
      /\ sbuf[x] \in Seq(PacketType) /\ c2s[x] \in Seq(PacketType)
  BY PacketsTyped DEF Parted, Greeted, Typed
<1>2. CASE Register(c)
  <2>1. CASE x = c
    <3>1. /\ cst[x] = "unborn" /\ (c2s[x])' = <<"REGISTER">> /\ UNCHANGED <<sbuf[x], spc[x], finished[x]>>
          /\ spc[x] = "none" /\ sbuf[x] = <<>> /\ ~finished[x]
      BY <1>1, <1>2, <2>1 DEF Register, Handshake, TypeOK
    <3> QED
      BY <3>1, LastOnlyShort, FirstOnlyShort DEF Parting, Wanting
  <2>2. CASE x # c
    BY <1>1, <1>2, <2>2, PartingFrame DEF Register, TypeOK
  <2> QED
    BY <2>1, <2>2
<1>3. ASSUME NEW p \in PacketType, cst[c] \notin {"closing", "ended"},
             p = "SHUTDOWN" => cst'[c] = "closing",
             \A d \in Conn : d # c => UNCHANGED cst[d],
             c2s' = [c2s EXCEPT ![c] = Append(@, p)], UNCHANGED workVars
      PROVE  Parting(x)'
  <2>1. CASE x = c
    <3>1. /\ "SHUTDOWN" \notin Elements(c2s[x]) \cup Elements(sbuf[x])
          /\ ~(Quiet /\ finished[x] /\ spc[x] # "done")
      BY <1>1, <1>3, <2>1 DEF Parting
    <3>2. PICK s : s = Append(c2s[x], p)
      OBVIOUS
    <3>3. LastOnly(s) /\ Elements(s) = Elements(c2s[x]) \cup {p}
      BY <1>1, <1>3, <3>1, <3>2, LastOnlyAppend
    <3>4. (c2s[x])' = s /\ UNCHANGED <<spc[x], finished[x], sbuf[x]>>
      BY <1>1, <1>3, <2>1, <3>2 DEF TypeOK
    <3>5. p = "SHUTDOWN" => (cst[x])' = "closing"
      BY <1>3, <2>1
    <3> QED
      BY <1>1, <3>1, <3>3, <3>4, <3>5 DEF Parting
  <2>2. CASE x # c
    <3>1. UNCHANGED <<cst[x], spc[x], finished[x], sbuf[x], c2s[x]>>
      BY <1>1, <1>3, <2>2 DEF TypeOK
    <3> QED
      BY <1>1, <3>1, PartingFrame
  <2> QED
    BY <2>1, <2>2
<1>4. CASE Deregister(c)
  BY <1>1, <1>3, <1>4 DEF Deregister, TypeOK, PacketType
<1>5. CASE SendShutdown(c)
  BY <1>1, <1>3, <1>5 DEF SendShutdown, TypeOK, PacketType
<1>6. CASE Update(c) \/ Close(c) \/ Crash(c) \/ Cut(c)
  BY <1>1, <1>6, PartingFrame DEF Update, Close, Crash, Cut, TypeOK
<1>7. CASE Accept(c)
  <2>1. CASE x = c
    <3>1. ~finished[x] /\ (spc[x])' = "loop" /\ UNCHANGED <<cst[x], finished[x], sbuf[x], c2s[x]>>
      BY <1>1, <1>7, <2>1 DEF Accept, Handshake, TypeOK
    <3> QED
      BY <1>1, <3>1 DEF Parting
  <2>2. CASE x # c
    BY <1>1, <1>7, <2>2, PartingFrame DEF Accept, TypeOK
  <2> QED
    BY <2>1, <2>2
<1>8. CASE Push \/ CleanMain \/ Leave \/ BeginClose \/ LockAll \/ CloseDone
  BY <1>1, <1>8, PartingFrame DEF Push, CleanMain, Leave, BeginClose, LockAll, CloseDone
<1>9. CASE AskTeardown(c)
  BY <1>1, <1>3, <1>9 DEF AskTeardown, TypeOK, PacketType
<1>10. CASE CloseNext(c)
  <2>1. ~running' /\ UNCHANGED <<cst, spc, sbuf, c2s>>
    BY <1>10 DEF CloseNext, Parted, Greeted, Ports
  <2> QED
    BY <1>1, <2>1, PartingFrame DEF Quiet
<1> QED
  BY <1>2, <1>4, <1>5, <1>6, <1>7, <1>8, <1>9, <1>10 DEF Process

(* So does every step of a worker. *)
LEMMA WorkerParting ==
  ASSUME Parted, Quiet' => Quiet, NEW w \in Conn, Worker(w), NEW x \in Conn
  PROVE  Parting(x)'
<1> USE DEF countVars, portVars, workVars, netVars, clientVars
<1>1. /\ TypeOK /\ Parting(x)
      /\ sbuf[x] \in Seq(PacketType) /\ c2s[x] \in Seq(PacketType)
  BY PacketsTyped DEF Parted, Greeted, Typed
<1>2. CASE \E c \in Conn : SendTeardown(w, c)
  <2>1. UNCHANGED <<spc, cst, sbuf, c2s>> /\ spc[w] = "telling"
    BY <1>2 DEF SendTeardown
  <2>2. ~Quiet
    BY <2>1 DEF Quiet
  <2> QED
    BY <1>1, <2>1, <2>2, PartingFrame
<1>3. CASE EndTeardown(w)
  <2>1. ~running' /\ UNCHANGED <<cst, sbuf, c2s>>
    BY <1>3 DEF EndTeardown
  <2> QED
    BY <1>1, <2>1 DEF Parting, Quiet
<1>4. CASE x # w /\ ~(\E c \in Conn : SendTeardown(w, c))
  <2>1. UNCHANGED <<cst[x], spc[x], finished[x], sbuf[x], c2s[x]>>
    BY <1>1, <1>4 DEF Worker, Receive, ParseNothing, ParseRegister, CountExpected, Alert,
         CleanWorker, ParseDeregister, ParseShutdown, ParseTeardown, BeginTeardown,
         EndTeardown, CheckUpdate, GetClients, ResetUpdate, SendUpdate, KeepAlive, TypeOK
  <2> QED
    BY <1>1, <2>1, PartingFrame
<1>5. SUFFICES ASSUME x = w
               PROVE  Parting(x)'
  BY <1>2, <1>4
<1>6. CASE Receive(w)
  <2>1. PICK s : s = sbuf[x] \o c2s[x]
    OBVIOUS
  <2>2. /\ LastOnly(s) /\ Elements(s) = Elements(sbuf[x]) \cup Elements(c2s[x])
        /\ c2s[x] = <<>> /\ sbuf[x] = <<>> => s = <<>>
    BY <1>1, <2>1, LastOnlyConcat, ElementsConcat DEF Parting
  <2>3. /\ spc[x] = "loop" /\ UNCHANGED cst[x] /\ (c2s[x])' = <<>>
        /\ \/ (sbuf[x])' = s /\ (spc[x])' = "parse" /\ UNCHANGED finished[x]
           \/ UNCHANGED sbuf[x] /\ (spc[x])' = IF (finished[x])' THEN "done" ELSE "check"
    BY <1>1, <1>5, <1>6, <2>1 DEF Receive, TypeOK
  <2> QED
    BY <1>1, <2>2, <2>3, LastOnlyShort, FirstOnlyShort DEF Parting, Wanting
<1>7. CASE ParseNothing(w) \/ Alert(w)
  <2>1. /\ spc[x] \in {"parse", "raise"} /\ UNCHANGED <<cst[x], sbuf[x], c2s[x]>>
        /\ (finished[x])' = (finished[x] \/ last[x])
        /\ (spc[x])' = IF last[x] THEN "done" ELSE "check"
    BY <1>1, <1>5, <1>7 DEF ParseNothing, Alert, AfterReceive, TypeOK
  <2> QED
    BY <1>1, <2>1 DEF Parting, Wanting
<1>8. CASE ParseRegister(w) \/ ParseTeardown(w)
  <2>1. /\ sbuf[x] # <<>> /\ sbuf' = [sbuf EXCEPT ![w] = Tail(@)] /\ spc[x] = "parse"
        /\ UNCHANGED <<cst[x], c2s[x], finished[x]>>
    BY <1>1, <1>5, <1>8 DEF ParseRegister, ParseTeardown, TypeOK
  <2>2. PICK s : s = Tail(sbuf[x])
    OBVIOUS
  <2>3. LastOnly(s) /\ Elements(s) \subseteq Elements(sbuf[x])
    BY <1>1, <2>1, <2>2, LastOnlyTail, ElementsHeadTail DEF Parting
  <2>4. (sbuf[x])' = s
    BY <1>1, <1>5, <2>1, <2>2 DEF TypeOK
  <2>5. ~(Quiet' /\ (finished[x])')
    BY <1>1, <2>1 DEF Parting
  <2> QED
    BY <1>1, <2>1, <2>3, <2>4, <2>5 DEF Parting
<1>9. CASE ParseDeregister(w)
  <2>1. /\ sbuf[x] # <<>> /\ sbuf' = [sbuf EXCEPT ![w] = Tail(@)] /\ spc[x] = "parse"
        /\ UNCHANGED <<cst[x], c2s[x]>>
        /\ (finished[x])' = (finished[x] \/ last[x])
        /\ (spc[x])' = IF last[x] THEN "done" ELSE "check"
    BY <1>1, <1>5, <1>9 DEF ParseDeregister, AfterReceive, TypeOK
  <2>2. PICK s : s = Tail(sbuf[x])
    OBVIOUS
  <2>3. LastOnly(s) /\ Elements(s) \subseteq Elements(sbuf[x])
    BY <1>1, <2>1, <2>2, LastOnlyTail, ElementsHeadTail DEF Parting
  <2>4. (sbuf[x])' = s
    BY <1>1, <1>5, <2>1, <2>2 DEF TypeOK
  <2>5. ~(Quiet' /\ (finished[x])' /\ (spc[x])' # "done")
    BY <1>1, <2>1 DEF Parting
  <2> QED
    BY <1>1, <2>1, <2>3, <2>4, <2>5 DEF Parting
<1>10. CASE ParseShutdown(w)
  <2>1. /\ sbuf[x] # <<>> /\ Head(sbuf[x]) = "SHUTDOWN"
        /\ sbuf' = [sbuf EXCEPT ![w] = Tail(@)]
        /\ UNCHANGED <<cst[x], c2s[x]>> /\ (spc[x])' \in {"done", "check"}
    BY <1>1, <1>5, <1>10 DEF ParseShutdown, AfterReceive, TypeOK
  <2>2. PICK s : s = Tail(sbuf[x])
    OBVIOUS
  <2>3. s = <<>> /\ "SHUTDOWN" \in Elements(sbuf[x])
    BY <1>1, <2>1, <2>2, LastOnlyTail, ElementsHeadTail DEF Parting
  <2>4. (sbuf[x])' = s
    BY <1>1, <1>5, <2>1, <2>2 DEF TypeOK
  <2>5. cst[x] \in {"closing", "ended"} /\ c2s[x] = <<>>
    BY <1>1, <2>3 DEF Parting
  <2> QED
    BY <2>1, <2>3, <2>4, <2>5, LastOnlyShort DEF Parting, Wanting
<1>11. CASE CleanWorker(w) \/ CountExpected(w) \/ BeginTeardown(w)
  <2>1. /\ spc[x] \in {"clean", "count", "ask"}
        /\ UNCHANGED <<cst[x], sbuf[x], c2s[x], finished[x]>>
    BY <1>1, <1>5, <1>11 DEF CleanWorker, CountExpected, BeginTeardown
  <2> QED
    BY <1>1, <2>1 DEF Parting, Wanting
<1>12. CASE CheckUpdate(w) \/ GetClients(w) \/ ResetUpdate(w) \/ SendUpdate(w) \/ KeepAlive(w)
  <2>1. /\ spc[x] \in {"check", "snap", "reset", "send", "alive"}
        /\ (spc[x])' \in {"snap", "alive", "reset", "send", "loop"}
        /\ UNCHANGED <<cst[x], sbuf[x], c2s[x], finished[x]>>
    BY <1>1, <1>5, <1>12 DEF CheckUpdate, GetClients, ResetUpdate, SendUpdate, KeepAlive, TypeOK
  <2> QED
    BY <1>1, <2>1 DEF Parting, Wanting
<1> QED
  BY <1>2, <1>3, <1>6, <1>7, <1>8, <1>9, <1>10, <1>11, <1>12 DEF Worker

(* And every step of a clean-up. *)
LEMMA SweepParting ==
  ASSUME Parted, Quiet' => Quiet, NEW p \in Cleaner, Sweep(p), NEW x \in Conn
  PROVE  Parting(x)'
<1> USE DEF countVars, portVars, workVars, netVars, clientVars
<1>1. TypeOK /\ Parting(x)
  BY DEF Parted, Greeted, Typed
<1>2. CASE \E c \in Conn : CleanErase(p, c) \/ PureCleanUp(p, c)
  BY <1>1, <1>2, PartingFrame DEF CleanErase, PureCleanUp
<1>3. CASE CleanDone(p)
  <2>1. CASE x = p
    <3>1. /\ spc[x] = "cleaning" /\ UNCHANGED <<cst[x], finished[x], sbuf[x], c2s[x]>>
      BY <1>1, <1>3, <2>1, ConstAssumption DEF CleanDone, Cleaning, TypeOK
    <3> QED
      BY <1>1, <3>1 DEF Parting, Wanting
  <2>2. CASE x # p
    BY <1>1, <1>3, <2>2, PartingFrame DEF CleanDone, TypeOK, Cleaner
  <2> QED
    BY <2>1, <2>2
<1> QED
  BY <1>2, <1>3 DEF Sweep

(* A step that takes the mutex finds it free. *)
LEMMA StepHolds ==
  ASSUME TypeOK, [Next]_vars
  PROVE  \/ \A q \in Cleaner : Holds(q)' => Holds(q)
         \/ /\ \A q \in Cleaner : ~Holds(q)
            /\ \E p \in Cleaner : \A q \in Cleaner : Holds(q)' => q = p
<1> USE DEF countVars, portVars, workVars, netVars, clientVars
<1>1. ConnMutexFree => \A q \in Cleaner : ~Holds(q)
  BY DEF ConnMutexFree, Holds, Cleaner
<1>2. ASSUME NEW w \in Conn, CleanWorker(w) \/ CountExpected(w) \/ BeginTeardown(w)
      PROVE  /\ \A q \in Cleaner : ~Holds(q)
             /\ \A q \in Cleaner : Holds(q)' => q = w
  <2>1. /\ ConnMutexFree /\ UNCHANGED mpc
        /\ \A x \in Conn : x # w => UNCHANGED spc[x]
    BY <1>2 DEF CleanWorker, CountExpected, BeginTeardown, TypeOK
  <2> QED
    BY <1>1, <2>1 DEF Holds, Cleaner
<1>3. ASSUME CleanMain \/ BeginClose \/ LockAll
      PROVE  /\ \A q \in Cleaner : ~Holds(q)
             /\ \A q \in Cleaner : Holds(q)' => q = Main
  <2>1. ConnMutexFree /\ UNCHANGED spc
    BY <1>3 DEF CleanMain, BeginClose, LockAll
  <2> QED
    BY <1>1, <2>1 DEF Holds, Cleaner
<1>4. ASSUME NEW w \in Conn, Worker(w), ~CleanWorker(w), ~CountExpected(w), ~BeginTeardown(w)
      PROVE  \A q \in Cleaner : Holds(q)' => Holds(q)
  <2>1. /\ UNCHANGED mpc
        /\ \A x \in Conn : (spc[x])' \in {"cleaning", "raise", "telling"} => UNCHANGED spc[x]
    BY <1>4 DEF Worker, Receive, ParseNothing, ParseRegister, Alert,
       ParseDeregister, ParseShutdown, ParseTeardown, SendTeardown, EndTeardown,
       CheckUpdate, GetClients, ResetUpdate, SendUpdate, KeepAlive, AfterReceive, TypeOK
  <2> QED
    BY <2>1 DEF Holds, Cleaner
<1>5. ASSUME NEW p \in Cleaner, Sweep(p)
      PROVE  \A q \in Cleaner : Holds(q)' => Holds(q)
  <2>1. /\ mpc' \in {"cleaning", "purge", "closing"} => UNCHANGED mpc
        /\ \A x \in Conn : (spc[x])' \in {"cleaning", "raise", "telling"} => UNCHANGED spc[x]
    BY <1>5 DEF Sweep, CleanDone, CleanErase, PureCleanUp, Cleaning, TypeOK
  <2> QED
    BY <2>1 DEF Holds, Cleaner
<1>6. ASSUME NEW c \in Conn,
             \/ Process(c) \/ Register(c) \/ Deregister(c) \/ Crash(c) \/ AskTeardown(c)
             \/ CloseNext(c)
      PROVE  \A q \in Cleaner : Holds(q)' => Holds(q)
  <2>1. UNCHANGED <<mpc, spc>>
    BY <1>6 DEF Process, Register, Update, Deregister, SendShutdown, Close, Crash, Cut,
       AskTeardown, CloseNext
  <2> QED
    BY <2>1 DEF Holds
<1>7. ASSUME NEW c \in Conn, Accept(c)
      PROVE  \A q \in Cleaner : Holds(q)' => Holds(q)
  BY <1>7 DEF Accept, Holds, Cleaner, TypeOK
<1>8. CASE Push \/ Leave \/ CloseDone \/ UNCHANGED vars
  BY <1>8 DEF Push, Leave, CloseDone, vars, Holds
<1> QED
  BY <1>2, <1>3, <1>4, <1>5, <1>6, <1>7, <1>8 DEF Next, MainStep, Thread, Cleaner

(* Every step keeps the mutex with one holder. *)
LEMMA StepExclusive ==
  ASSUME TypeOK, Exclusive, [Next]_vars
  PROVE  Exclusive'
<1> SUFFICES ASSUME NEW p \in Cleaner, NEW q \in Cleaner, Holds(p)', Holds(q)'
             PROVE  p = q
  BY DEF Exclusive, Cleaner
<1> QED
  BY StepHolds DEF Exclusive

(* Partings are kept from the start. *)
LEMMA PartedInvariant == Spec => []Parted
<1>1. Init => Exclusive /\ \A x \in Conn : Parting(x)
  <2> SUFFICES ASSUME Init
               PROVE  Exclusive /\ \A x \in Conn : Parting(x)
    OBVIOUS
  <2>1. Exclusive
    BY DEF Init, Exclusive, Holds, Cleaner
  <2>2. \A x \in Conn : Parting(x)
    BY LastOnlyShort, FirstOnlyShort DEF Init, Parting
  <2> QED
    BY <2>1, <2>2
<1>2. Greeted /\ Exclusive /\ (\A x \in Conn : Parting(x)) /\ [Next]_vars
        => (Exclusive /\ \A x \in Conn : Parting(x))'
  <2> SUFFICES ASSUME Greeted, Exclusive, \A x \in Conn : Parting(x), [Next]_vars
               PROVE  Exclusive' /\ \A x \in Conn : Parting(x)'
    OBVIOUS
  <2>1. Parted /\ TypeOK
    BY DEF Parted, Greeted, Typed
  <2>2. Exclusive' /\ (Quiet' => Quiet)
    BY <2>1, StepExclusive, StepQuiet
  <2>3. ASSUME NEW x \in Conn
        PROVE  Parting(x)'
    <3>1. ASSUME NEW c \in Conn,
                 \/ Process(c) \/ Register(c) \/ Deregister(c) \/ Crash(c) \/ AskTeardown(c)
                 \/ Accept(c) \/ CloseNext(c)
          PROVE  Parting(x)'
      BY <2>1, <2>2, <3>1, ClientParting
    <3>2. CASE Push \/ CleanMain \/ Leave \/ BeginClose \/ LockAll \/ CloseDone
      BY <2>1, <2>2, <3>2, ClientParting
    <3>3. ASSUME NEW w \in Conn, Worker(w)
          PROVE  Parting(x)'
      BY <2>1, <2>2, <3>3, WorkerParting
    <3>4. ASSUME NEW p \in Cleaner, Sweep(p)
          PROVE  Parting(x)'
      BY <2>1, <2>2, <3>4, SweepParting
    <3>5. CASE UNCHANGED vars
      BY <2>2, <3>5, PartingFrame DEF vars, workVars, netVars, clientVars
    <3> QED
      BY <3>1, <3>2, <3>3, <3>4, <3>5 DEF Next, MainStep, Thread, Cleaner
  <2> QED
    BY <2>2, <2>3
<1>3. Greeted /\ Exclusive /\ (\A x \in Conn : Parting(x)) => Parted
  BY DEF Parted
<1> QED
  BY GreetedInvariant, <1>1, <1>2, <1>3, PTL DEF Spec

(* While the server runs, nobody who holds _connections_mutex joins a       *)
(* worker that wants it, whatever the clients do and however many there    *)
(* are.                                                                    *)
THEOREM NeverJoinCycle == Spec => []NoJoinCycle
<1>1. Parted => NoJoinCycle
  <2> SUFFICES ASSUME Parted, running, NEW p \in Cleaner, Cleaning(p),
                      NEW c \in conns, finished[c]
               PROVE  spc[c] \notin Wanting
    BY DEF NoJoinCycle, Wanting
  <2>1. c \in Conn /\ Parting(c) /\ Holds(p) /\ Conn \subseteq Cleaner
    BY DEF Parted, Greeted, Typed, TypeOK, Cleaning, Holds, Cleaner
  <2>2. ASSUME NEW w \in Conn, spc[w] = "telling"
        PROVE  FALSE
    <3>1. Holds(w) /\ w # Main
      BY <2>2, ConstAssumption DEF Holds
    <3>2. w = p
      BY <2>1, <3>1 DEF Parted, Exclusive
    <3> QED
      BY <2>2, <3>1, <3>2 DEF Cleaning
  <2>3. Quiet
    BY <2>2 DEF Quiet
  <2> QED
    BY <2>1, <2>3 DEF Parting, Wanting
<1> QED
  BY PartedInvariant, <1>1, PTL

----------------------------------------------------------------------------
(* The list.  NoGhosts counts, so it needs to know that a connection is     *)
(* filed once, while its worker runs.                                      *)

(* The connections that count for an address. *)
Served(a) == {c \in conns \cup fresh : other[c] = a}

Counted == Greeted /\ NoGhosts

(* NoGhosts in the words of this module. *)
LEMMA NoGhostsMeans ==
  NoGhosts <=>
    \A a \in Client : Cardinality(Entries(clients, a)) <= Cardinality(Served(a))
BY DEF NoGhosts, Entries, Served

(* Served sets and lists are finite. *)
LEMMA ServedFinite ==
  ASSUME Typed, NEW a
  PROVE  /\ IsFiniteSet(Served(a)) /\ Cardinality(Served(a)) \in Nat
         /\ Cardinality(Entries(clients, a)) \in Nat
<1>1. IsFiniteSet(conns \cup fresh)
  BY FS_Union DEF Typed
<1>2. Served(a) \in SUBSET (conns \cup fresh)
  BY DEF Served
<1>3. IsFiniteSet(Served(a))
  BY <1>1, <1>2, FS_Subset
<1>4. clients \in Seq(Client)
  BY DEF Typed, TypeOK
<1> QED
  BY <1>3, <1>4, FS_CardinalityType, EntriesFinite

(* A step that changes neither the list nor who counts for an address. *)
LEMMA GhostsFrame ==
  ASSUME NoGhosts, UNCHANGED clients, \A a \in Client : UNCHANGED Served(a)
  PROVE  NoGhosts'
<1>1. \A a \in Client : Cardinality(Entries(clients, a)) <= Cardinality(Served(a))
  BY NoGhostsMeans
<1>2. ASSUME NEW a \in Client
      PROVE  Cardinality(Entries(clients, a))' <= Cardinality(Served(a))'
  <2>1. UNCHANGED Entries(clients, a)
    BY DEF Entries
  <2> QED
    BY <1>1, <2>1, Zenon
<1>3. (\A a \in Client : Cardinality(Entries(clients, a)) <= Cardinality(Served(a)))'
  BY <1>2
<1> QED
  BY <1>3, NoGhostsMeans, PTL

(* A registration adds one entry and one connection that counts for it. *)
LEMMA RegisterGhosts ==
  ASSUME Counted, NEW w \in Conn, ParseRegister(w)
  PROVE  NoGhosts'
<1>1. /\ Typed /\ TypeOK /\ Handshake(w) /\ clients \in Seq(Client) /\ Addr[w] \in Client
      /\ sbuf[w] \in Seq(PacketType)
      /\ \A a \in Client : Cardinality(Entries(clients, a)) <= Cardinality(Served(a))
  BY NoGhostsMeans, PacketsTyped, ConstAssumption DEF Counted, Greeted, Typed, TypeOK
<1>2. /\ other[w] = NoAddr /\ w \in conns \cup fresh
      /\ clients' = Append(clients, Addr[w]) /\ other' = [other EXCEPT ![w] = Addr[w]]
      /\ UNCHANGED <<conns, fresh>>
  <2>1. "REGISTER" \in Elements(sbuf[w])
    BY <1>1, FirstOnlyTail DEF ParseRegister, Handshake
  <2> QED
    BY <1>1, <2>1 DEF ParseRegister, Handshake, Counted, Greeted, Ports, portVars
<1>3. ASSUME NEW a \in Client
      PROVE  Cardinality(Entries(clients, a))' <= Cardinality(Served(a))'
  <2>1. PICK E : E = Entries(Append(clients, Addr[w]), a)
    OBVIOUS
  <2>2. Cardinality(E) = Cardinality(Entries(clients, a)) + (IF a = Addr[w] THEN 1 ELSE 0)
    BY <1>1, <2>1, EntriesAppend
  <2>3. Entries(clients, a)' = E
    BY <1>2, <2>1 DEF Entries
  <2>4. PICK S : S = Served(a)
    OBVIOUS
  <2>5. IsFiniteSet(S) /\ Cardinality(S) \in Nat /\ Cardinality(Entries(clients, a)) \in Nat
    BY <1>1, <2>4, ServedFinite
  <2>6. w \notin S /\ NoAddr # a
    BY <1>2, <2>4, ConstAssumption DEF Served
  <2>7. CASE a = Addr[w]
    <3>1. Served(a)' = S \cup {w}
      BY <1>1, <1>2, <2>4, <2>7 DEF Served, TypeOK
    <3>2. Cardinality(S \cup {w}) = Cardinality(S) + 1
      BY <2>5, <2>6, FS_AddElement
    <3>3. Cardinality(Served(a))' = Cardinality(S) + 1
      BY <3>1, <3>2, Zenon
    <3>4. Cardinality(Entries(clients, a))' = Cardinality(Entries(clients, a)) + 1
      BY <2>2, <2>3, <2>7
    <3> QED
      BY <1>1, <2>4, <2>5, <3>3, <3>4
  <2>8. CASE a # Addr[w]
    <3>1. Served(a)' = S
      BY <1>1, <1>2, <2>4, <2>6, <2>8 DEF Served, TypeOK
    <3>2. Cardinality(Served(a))' = Cardinality(S)
      BY <3>1, Zenon
    <3>3. Cardinality(Entries(clients, a))' = Cardinality(Entries(clients, a))
      BY <2>2, <2>3, <2>5, <2>8
    <3> QED
      BY <1>1, <2>4, <3>2, <3>3
  <2> QED
    BY <2>7, <2>8
<1>4. (\A a \in Client : Cardinality(Entries(clients, a)) <= Cardinality(Served(a)))'
  BY <1>3
<1> QED
  BY <1>4, NoGhostsMeans, PTL

(* remove_client only lowers the left side. *)
LEMMA DeregisterGhosts ==
  ASSUME Counted, NEW w \in Conn, ParseDeregister(w)
  PROVE  NoGhosts'
<1>1. /\ Typed /\ clients \in Seq(Client)
      /\ \A a \in Client : Cardinality(Entries(clients, a)) <= Cardinality(Served(a))
  BY NoGhostsMeans DEF Counted, Greeted, Typed, TypeOK
<1>2. clients' = Removed(clients, Addr[w]) /\ UNCHANGED <<conns, fresh, other>>
  BY DEF ParseDeregister, portVars
<1>3. ASSUME NEW a \in Client
      PROVE  Cardinality(Entries(clients, a))' <= Cardinality(Served(a))'
  <2>1. PICK R : R = Removed(clients, Addr[w])
    OBVIOUS
  <2>2. R \in Seq(Client) /\ Cardinality(Entries(R, a)) <= Cardinality(Entries(clients, a))
    BY <1>1, <2>1, RemovedProperties
  <2>3. Cardinality(Entries(R, a)) \in Nat
    BY <2>2, EntriesFinite
  <2>4. Entries(clients, a)' = Entries(R, a)
    BY <1>2, <2>1 DEF Entries
  <2>5. Served(a)' = Served(a)
    BY <1>2 DEF Served
  <2>6. Cardinality(Served(a)) \in Nat /\ Cardinality(Entries(clients, a)) \in Nat
    BY <1>1, ServedFinite
  <2>7. Cardinality(Entries(R, a)) <= Cardinality(Served(a))
    BY <1>1, <2>2, <2>3, <2>6
  <2> QED
    BY <2>4, <2>5, <2>7, Zenon
<1>4. (\A a \in Client : Cardinality(Entries(clients, a)) <= Cardinality(Served(a)))'
  BY <1>3
<1> QED
  BY <1>4, NoGhostsMeans, PTL

(* Cleaning up a connection takes its address off the list. *)
LEMMA EraseGhosts ==
  ASSUME Counted, NEW p \in Cleaner, NEW c \in Conn, CleanErase(p, c)
  PROVE  NoGhosts'
<1>1. /\ Typed /\ clients \in Seq(Client) /\ conns \cap fresh = {}
      /\ \A a \in Client : Cardinality(Entries(clients, a)) <= Cardinality(Served(a))
  BY NoGhostsMeans DEF Counted, Greeted, Typed, TypeOK, Ports
<1>2. /\ clients' = Removed(clients, other[c]) /\ c \in conns /\ conns' = conns \ {c}
      /\ UNCHANGED <<fresh, other>>
  BY DEF CleanErase, workVars
<1>3. ASSUME NEW a \in Client
      PROVE  Cardinality(Entries(clients, a))' <= Cardinality(Served(a))'
  <2>1. PICK R : R = Removed(clients, other[c])
    OBVIOUS
  <2>2. /\ R \in Seq(Client)
        /\ Cardinality(Entries(R, a)) <= Cardinality(Entries(clients, a))
        /\ a = other[c] /\ Cardinality(Entries(clients, a)) # 0
             => Cardinality(Entries(R, a)) <= Cardinality(Entries(clients, a)) - 1
    BY <1>1, <2>1, RemovedProperties
  <2>3. Cardinality(Entries(R, a)) \in Nat
    BY <2>2, EntriesFinite
  <2>4. Entries(clients, a)' = Entries(R, a)
    BY <1>2, <2>1 DEF Entries
  <2>5. PICK S : S = Served(a)
    OBVIOUS
  <2>6. /\ IsFiniteSet(S) /\ Cardinality(S) \in Nat
        /\ Cardinality(Entries(clients, a)) \in Nat
        /\ Cardinality(Entries(clients, a)) <= Cardinality(S)
    BY <1>1, <2>5, ServedFinite
  <2>7. Served(a)' = S \ {c}
    BY <1>1, <1>2, <2>5 DEF Served
  <2>8. c \in S <=> other[c] = a
    BY <1>2, <2>5 DEF Served
  <2>9. Cardinality(S \ {c}) = IF c \in S THEN Cardinality(S) - 1 ELSE Cardinality(S)
    BY <2>6, FS_RemoveElement
  <2>10. c \in S => Cardinality(S) # 0
    BY <2>6, FS_EmptySet
  <2>11. Cardinality(Entries(R, a)) <= Cardinality(S \ {c})
    BY <2>2, <2>3, <2>6, <2>8, <2>9, <2>10
  <2> QED
    BY <2>4, <2>7, <2>11, Zenon
<1>4. (\A a \in Client : Cardinality(Entries(clients, a)) <= Cardinality(Served(a)))'
  BY <1>3
<1> QED
  BY <1>4, NoGhostsMeans, PTL

(* Every other step leaves the list and the addresses as they are. *)
LEMMA StepGhosts ==
  ASSUME Counted, [Next]_vars
  PROVE  NoGhosts'
<1> USE DEF countVars, portVars, workVars, netVars, clientVars
<1>1. TypeOK /\ Ports /\ NoGhosts /\ \A x \in Conn : Handshake(x)
  BY DEF Counted, Greeted, Typed
<1>2. ASSUME UNCHANGED <<clients, conns, fresh, other>>
      PROVE  NoGhosts'
  BY <1>1, <1>2, GhostsFrame DEF Served
<1>3. ASSUME NEW w \in Conn, Worker(w)
      PROVE  NoGhosts'
  <2>1. CASE ParseRegister(w)
    BY <2>1, RegisterGhosts
  <2>2. CASE ParseDeregister(w)
    BY <2>2, DeregisterGhosts
  <2>3. ASSUME ~ParseRegister(w), ~ParseDeregister(w)
        PROVE  NoGhosts'
    BY <1>2, <1>3, <2>3 DEF Worker, Receive, ParseNothing, CountExpected, Alert,
         CleanWorker, ParseShutdown, ParseTeardown, BeginTeardown, SendTeardown, EndTeardown,
         CheckUpdate, GetClients, ResetUpdate, SendUpdate, KeepAlive
  <2> QED
    BY <2>1, <2>2, <2>3
<1>4. ASSUME NEW c \in Conn,
             \/ Process(c) \/ Register(c) \/ Deregister(c) \/ Crash(c) \/ AskTeardown(c)
             \/ CloseNext(c)
      PROVE  NoGhosts'
  BY <1>2, <1>4 DEF Process, Register, Update, Deregister, SendShutdown, Close, Crash, Cut,
                    AskTeardown, CloseNext
<1>5. ASSUME NEW c \in Conn, Accept(c)
      PROVE  NoGhosts'
  <2>1. /\ spc[c] = "none" /\ mpc = "accept" /\ fresh' = {c}
        /\ UNCHANGED <<clients, conns, other>>
    BY <1>5 DEF Accept
  <2>2. other[c] = NoAddr /\ fresh = {}
    BY <1>1, <2>1 DEF Handshake, Ports
  <2>3. \A a \in Client : a # NoAddr
    BY ConstAssumption
  <2>4. \A a \in Client : UNCHANGED Served(a)
    BY <2>1, <2>2, <2>3 DEF Served
  <2> QED
    BY <1>1, <2>1, <2>4, GhostsFrame
<1>6. CASE Push
  <2>1. UNCHANGED <<clients, other>> /\ conns' = conns \cup fresh /\ fresh' = {}
    BY <1>6 DEF Push
  <2>2. \A a \in Client : UNCHANGED Served(a)
    BY <2>1 DEF Served
  <2> QED
    BY <1>1, <2>1, <2>2, GhostsFrame
<1>7. CASE CleanMain \/ Leave \/ BeginClose \/ LockAll \/ CloseDone
  BY <1>2, <1>7 DEF CleanMain, Leave, BeginClose, LockAll, CloseDone
<1>8. ASSUME NEW p \in Cleaner, Sweep(p)
      PROVE  NoGhosts'
  BY <1>2, <1>8, EraseGhosts DEF Sweep, CleanDone, PureCleanUp
<1>9. CASE UNCHANGED vars
  BY <1>2, <1>9 DEF vars
<1> QED
  BY <1>3, <1>4, <1>5, <1>6, <1>7, <1>8, <1>9 DEF Next, MainStep, Thread, Cleaner

(* However its clients end, the server lists no address more often than it *)
(* has connections that registered it and are not cleaned up.              *)
THEOREM NoGhostsEver == Spec => []NoGhosts
<1>1. Init => NoGhosts
  <2> SUFFICES ASSUME Init
               PROVE  NoGhosts
    OBVIOUS
  <2>1. ASSUME NEW a \in Client
        PROVE  Cardinality(Entries(clients, a)) <= Cardinality(Served(a))
    <3>1. Entries(clients, a) = {} /\ Served(a) = {}
      BY DEF Init, Entries, Served
    <3>2. /\ Cardinality(Entries(clients, a)) = Cardinality({})
          /\ Cardinality(Served(a)) = Cardinality({})
      BY <3>1, Zenon
    <3> QED
      BY <3>2, FS_EmptySet
  <2> QED
    BY <2>1, NoGhostsMeans
<1>2. Greeted /\ NoGhosts /\ [Next]_vars => NoGhosts'
  BY StepGhosts DEF Counted
<1> QED
  BY GreetedInvariant, <1>1, <1>2, PTL DEF Spec

----------------------------------------------------------------------------
(* As long as the server runs, a client that runs stays on its list: that   *)
(* no two runs share an address keeps the clean-up of one connection from  *)
(* erasing the entry of another.                                           *)

(* While a client and the server run nothing it sent ends its connection,   *)
(* and a teardown finds the socket well.                                   *)
Alive(x) ==
  /\ other[x] \in {NoAddr, Addr[x]}
  /\ running /\ cst[x] = "running" =>
       /\ link[x] /\ ~last[x] /\ ~finished[x]
       /\ Elements(c2s[x]) \cup Elements(sbuf[x]) \subseteq {"REGISTER", "TEARDOWN"}

Standing == Greeted /\ \A x \in Conn : Alive(x)

(* What does not concern a connection leaves it alive. *)
LEMMA AliveFrame ==
  ASSUME NEW x \in Conn, Alive(x), running' => running,
         cst'[x] = "running" => cst[x] = "running",
         UNCHANGED <<link[x], last[x], finished[x], other[x], sbuf[x], c2s[x]>>
  PROVE  Alive(x)'
BY DEF Alive

(* Every step of a client, of the main thread or of a clean-up keeps it.   *)
LEMMA ClientAlive ==
  ASSUME Standing, NEW c \in Conn,
         \/ Process(c) \/ Register(c) \/ Deregister(c) \/ Crash(c) \/ AskTeardown(c)
         \/ Accept(c) \/ CloseNext(c)
         \/ Push \/ CleanMain \/ Leave \/ BeginClose \/ LockAll \/ CloseDone
         \/ \E p \in Cleaner : Sweep(p),
         NEW x \in Conn
  PROVE  Alive(x)'
<1> USE DEF countVars, portVars, workVars, netVars, clientVars
<1>1. TypeOK /\ Handshake(x) /\ Alive(x) /\ c2s[x] \in Seq(PacketType)
  BY PacketsTyped DEF Standing, Greeted, Typed
<1>2. CASE Register(c)
  <2>1. CASE x = c
    BY <1>1, <1>2, <2>1, FirstOnlyShort DEF Register, Handshake, Alive, TypeOK
  <2>2. CASE x # c
    BY <1>1, <1>2, <2>2, AliveFrame DEF Register, TypeOK
  <2> QED
    BY <2>1, <2>2
<1>3. CASE Deregister(c) \/ SendShutdown(c)
  <2>1. CASE x = c
    <3>1. (cst[x])' # "running" /\ UNCHANGED other[x]
      BY <1>1, <1>3, <2>1 DEF Deregister, SendShutdown, TypeOK
    <3> QED
      BY <1>1, <3>1 DEF Alive
  <2>2. CASE x # c
    <3>1. UNCHANGED <<running, cst[x], link[x], last[x], finished[x], other[x], sbuf[x], c2s[x]>>
      BY <1>1, <1>3, <2>2 DEF Deregister, SendShutdown, TypeOK
    <3> QED
      BY <1>1, <3>1, AliveFrame
  <2> QED
    BY <2>1, <2>2
<1>4. CASE Update(c) \/ Close(c) \/ Crash(c)
  <2>1. /\ UNCHANGED <<running, link[x], last[x], finished[x], other[x], sbuf[x], c2s[x]>>
        /\ (cst[x])' = "running" => cst[x] = "running"
    BY <1>1, <1>4 DEF Update, Close, Crash, TypeOK
  <2> QED
    BY <1>1, <2>1, AliveFrame
<1>5. CASE Cut(c)
  BY <1>1, <1>5 DEF Cut, Alive, TypeOK
<1>6. CASE \/ Accept(c) \/ Push \/ CleanMain \/ Leave \/ BeginClose \/ LockAll \/ CloseDone
           \/ \E p \in Cleaner : Sweep(p)
  BY <1>1, <1>6, AliveFrame DEF Accept, Push, CleanMain, Leave, BeginClose, LockAll,
     CloseDone, Sweep, CleanDone, CleanErase, PureCleanUp
<1>7. CASE AskTeardown(c)
  <2>1. CASE x = c
    <3>1. PICK s : s = Append(c2s[x], "TEARDOWN")
      OBVIOUS
    <3>2. Elements(s) = Elements(c2s[x]) \cup {"TEARDOWN"}
      BY <1>1, <3>1, ElementsAppend DEF PacketType
    <3>3. /\ (c2s[x])' = s
          /\ UNCHANGED <<running, cst[x], link[x], last[x], finished[x], other[x], sbuf[x]>>
      BY <1>1, <1>7, <2>1, <3>1 DEF AskTeardown, TypeOK
    <3> QED
      BY <1>1, <3>2, <3>3 DEF Alive
  <2>2. CASE x # c
    BY <1>1, <1>7, <2>2, AliveFrame DEF AskTeardown, TypeOK
  <2> QED
    BY <2>1, <2>2
<1>8. CASE CloseNext(c)
  <2>1. ~running' /\ UNCHANGED other
    BY <1>8 DEF CloseNext, Standing, Greeted, Ports
  <2> QED
    BY <1>1, <2>1 DEF Alive
<1> QED
  BY <1>2, <1>3, <1>4, <1>5, <1>6, <1>7, <1>8 DEF Process

(* So does every step of a worker. *)
LEMMA WorkerAlive ==
  ASSUME Standing, NEW w \in Conn, Worker(w), NEW x \in Conn
  PROVE  Alive(x)'
<1> USE DEF countVars, portVars, workVars, netVars, clientVars
<1>1. /\ TypeOK /\ Handshake(x) /\ Alive(x)
      /\ sbuf[x] \in Seq(PacketType) /\ c2s[x] \in Seq(PacketType)
  BY PacketsTyped DEF Standing, Greeted, Typed
<1>2. CASE \E c \in Conn : SendTeardown(w, c)
  <2>1. PICK c \in Conn : SendTeardown(w, c)
    BY <1>2
  <2>2. /\ UNCHANGED <<running, cst, link, last, other, sbuf, c2s>>
        /\ (finished[x])' = (finished[x] \/ (x = c /\ ~link[x]))
    BY <1>1, <2>1 DEF SendTeardown, TypeOK
  <2> QED
    BY <1>1, <2>2 DEF Alive
<1>3. CASE EndTeardown(w)
  <2>1. ~running' /\ UNCHANGED other
    BY <1>3 DEF EndTeardown
  <2> QED
    BY <1>1, <2>1 DEF Alive
<1>4. CASE x # w /\ ~(\E c \in Conn : SendTeardown(w, c)) /\ ~EndTeardown(w)
  <2>1. UNCHANGED <<running, cst[x], link[x], last[x], finished[x], other[x], sbuf[x], c2s[x]>>
    BY <1>1, <1>4 DEF Worker, Receive, ParseNothing, ParseRegister, CountExpected, Alert,
         CleanWorker, ParseDeregister, ParseShutdown, ParseTeardown, BeginTeardown,
         CheckUpdate, GetClients, ResetUpdate, SendUpdate, KeepAlive, TypeOK
  <2> QED
    BY <1>1, <2>1, AliveFrame
<1>5. SUFFICES ASSUME x = w
               PROVE  Alive(x)'
  BY <1>4, <1>2, <1>3
<1>6. CASE Receive(w)
  <2>1. PICK s : s = sbuf[x] \o c2s[x]
    OBVIOUS
  <2>2. Elements(s) = Elements(sbuf[x]) \cup Elements(c2s[x])
    BY <1>1, <2>1, ElementsConcat
  <2>3. /\ UNCHANGED <<running, cst[x], link[x], other[x]>> /\ (c2s[x])' = <<>>
        /\ (last[x])' = (last[x] \/ finished[x])
        /\ UNCHANGED finished[x] \/ (finished[x])' = (last[x] \/ finished[x])
        /\ UNCHANGED sbuf[x] \/ (sbuf[x])' = s
    BY <1>1, <1>5, <1>6, <2>1 DEF Receive, TypeOK
  <2> QED
    BY <1>1, <2>2, <2>3, FirstOnlyShort DEF Alive
<1>7. CASE ParseNothing(w) \/ Alert(w)
  <2>1. /\ UNCHANGED <<running, cst[x], link[x], last[x], other[x], c2s[x], sbuf[x]>>
        /\ (finished[x])' = (finished[x] \/ last[x])
    BY <1>1, <1>5, <1>7 DEF ParseNothing, Alert, TypeOK
  <2> QED
    BY <1>1, <2>1 DEF Alive
<1>8. CASE ParseRegister(w) \/ ParseDeregister(w) \/ ParseShutdown(w) \/ ParseTeardown(w)
  <2>1. /\ sbuf[x] # <<>> /\ sbuf' = [sbuf EXCEPT ![w] = Tail(@)]
        /\ UNCHANGED <<running, cst[x], link[x], last[x], c2s[x]>>
        /\ (other[x])' \in {other[x], Addr[x]}
        /\ \/ (finished[x])' = (finished[x] \/ last[x]) \/ UNCHANGED finished[x]
           \/ Head(sbuf[x]) = "SHUTDOWN"
    BY <1>1, <1>5, <1>8 DEF ParseRegister, ParseDeregister, ParseShutdown, ParseTeardown,
                            TypeOK
  <2>2. PICK s : s = Tail(sbuf[x])
    OBVIOUS
  <2>3. Elements(s) \subseteq Elements(sbuf[x]) /\ Head(sbuf[x]) \in Elements(sbuf[x])
    BY <1>1, <2>1, <2>2, FirstOnlyTail DEF Handshake
  <2>4. (sbuf[x])' = s
    BY <1>1, <1>5, <2>1, <2>2 DEF TypeOK
  <2> QED
    BY <1>1, <2>1, <2>3, <2>4 DEF Alive
<1>9. CASE \/ CleanWorker(w) \/ CountExpected(w) \/ BeginTeardown(w)
           \/ CheckUpdate(w) \/ GetClients(w) \/ ResetUpdate(w)
  BY <1>1, <1>9, AliveFrame DEF CleanWorker, CountExpected, BeginTeardown, CheckUpdate,
                                GetClients, ResetUpdate
<1>10. CASE SendUpdate(w) \/ KeepAlive(w)
  <2>1. /\ UNCHANGED <<running, cst[x], link[x], finished[x], other[x], sbuf[x], c2s[x]>>
        /\ (last[x])' = ~link[x]
    BY <1>1, <1>5, <1>10 DEF SendUpdate, KeepAlive, TypeOK
  <2> QED
    BY <1>1, <2>1 DEF Alive
<1> QED
  BY <1>6, <1>7, <1>8, <1>9, <1>10, <1>2, <1>3 DEF Worker

(* Nobody erases the address of a client that runs. *)
LEMMA StepListed ==
  ASSUME Standing, ListedWhileRunning, [Next]_vars
  PROVE  ListedWhileRunning'
<1> USE DEF countVars, portVars, workVars, netVars, clientVars
<1>1. /\ TypeOK /\ clients \in Seq(Client)
      /\ \A x \in Conn : /\ Handshake(x) /\ Alive(x) /\ Addr[x] \in Client /\ Addr[x] # NoAddr
                        /\ sbuf[x] \in Seq(PacketType)
  BY PacketsTyped, ConstAssumption DEF Standing, Greeted, Typed, TypeOK
<1>1a. \A c, d \in Conn : Addr[c] = Addr[d] => c = d
  BY ConstAssumption
<1>2. ASSUME UNCHANGED <<clients, other>>, running' => running,
             \A x \in Conn : (cst[x])' = "running" => cst[x] = "running"
      PROVE  ListedWhileRunning'
  <2> SUFFICES ASSUME running', NEW x \in Conn, (cst[x])' = "running", (other[x])' # NoAddr
               PROVE  Addr[x] \in Elements(clients)'
    BY DEF ListedWhileRunning
  <2>1. Addr[x] \in Elements(clients)
    BY <1>2 DEF ListedWhileRunning
  <2> QED
    BY <1>2, <2>1 DEF Elements
<1>3. ASSUME NEW d \in Conn, running => cst[d] # "running", UNCHANGED <<running, other, cst>>,
             NEW a \in {NoAddr, Addr[d]}, clients' = Removed(clients, a)
      PROVE  ListedWhileRunning'
  <2> SUFFICES ASSUME running', NEW x \in Conn, (cst[x])' = "running", (other[x])' # NoAddr
               PROVE  Addr[x] \in Elements(clients)'
    BY DEF ListedWhileRunning
  <2>1. Addr[x] \in Elements(clients) /\ x # d
    BY <1>3 DEF ListedWhileRunning
  <2>2. Addr[x] # a
    BY <1>1, <1>1a, <2>1
  <2>3. Addr[x] \in Elements(Removed(clients, a))
    BY <1>1, <2>1, <2>2, RemovedProperties
  <2> QED
    BY <1>3, <2>3 DEF Elements
<1>4. ASSUME NEW w \in Conn, ParseRegister(w)
      PROVE  ListedWhileRunning'
  <2>1. /\ clients' = Append(clients, Addr[w]) /\ other' = [other EXCEPT ![w] = Addr[w]]
        /\ UNCHANGED <<running, cst>>
    BY <1>4 DEF ParseRegister
  <2>2. PICK s : s = Append(clients, Addr[w])
    OBVIOUS
  <2>3. Elements(s) = Elements(clients) \cup {Addr[w]}
    BY <1>1, <2>2, ElementsAppend
  <2> SUFFICES ASSUME running', NEW x \in Conn, (cst[x])' = "running", (other[x])' # NoAddr
               PROVE  Addr[x] \in Elements(clients)'
    BY DEF ListedWhileRunning
  <2>4. Addr[x] \in Elements(s)
    BY <1>1, <2>1, <2>3 DEF ListedWhileRunning, TypeOK
  <2> QED
    BY <2>1, <2>2, <2>4 DEF Elements
<1>5. ASSUME NEW w \in Conn, ParseDeregister(w)
      PROVE  ListedWhileRunning'
  <2>1. "DEREGISTER" \in Elements(sbuf[w])
    BY <1>1, <1>5, FirstOnlyTail DEF ParseDeregister, Handshake
  <2>2. running => cst[w] # "running"
    BY <1>1, <2>1 DEF Alive
  <2> QED
    BY <1>3, <1>5, <2>2 DEF ParseDeregister
<1>6. ASSUME NEW p \in Cleaner, NEW c \in Conn, CleanErase(p, c)
      PROVE  ListedWhileRunning'
  <2>1. (running => cst[c] # "running") /\ other[c] \in {NoAddr, Addr[c]}
    BY <1>1, <1>6 DEF CleanErase, Alive
  <2> QED
    BY <1>3, <1>6, <2>1 DEF CleanErase
<1>7. ASSUME NEW c \in Conn, Register(c)
      PROVE  ListedWhileRunning'
  <2>1. UNCHANGED <<clients, other, running>> /\ cst' = [cst EXCEPT ![c] = "running"]
    BY <1>7 DEF Register
  <2>2. other[c] = NoAddr
    BY <1>1, <1>7 DEF Register, Handshake
  <2> SUFFICES ASSUME running', NEW x \in Conn, (cst[x])' = "running", (other[x])' # NoAddr
               PROVE  Addr[x] \in Elements(clients)'
    BY DEF ListedWhileRunning
  <2>3. Addr[x] \in Elements(clients)
    BY <1>1, <2>1, <2>2 DEF ListedWhileRunning, TypeOK
  <2> QED
    BY <2>1, <2>3 DEF Elements
<1>8. ASSUME NEW c \in Conn,
             \/ Process(c) \/ Deregister(c) \/ Crash(c) \/ AskTeardown(c)
             \/ Accept(c) \/ CloseNext(c)
      PROVE  ListedWhileRunning'
  <2>1. UNCHANGED <<clients, other, running>>
    BY <1>8 DEF Process, Update, Deregister, SendShutdown, Close, Crash, Cut, AskTeardown,
                Accept, CloseNext
  <2>2. \A x \in Conn : (cst[x])' = "running" => cst[x] = "running"
    BY <1>1, <1>8 DEF Process, Update, Deregister, SendShutdown, Close, Crash, Cut,
                      AskTeardown, Accept, CloseNext, TypeOK
  <2> QED
    BY <1>2, <2>1, <2>2
<1>9. ASSUME \/ Push \/ CleanMain \/ Leave \/ BeginClose \/ LockAll \/ CloseDone
             \/ \E p \in Cleaner : CleanDone(p) \/ \E c \in Conn : PureCleanUp(p, c)
      PROVE  ListedWhileRunning'
  BY <1>2, <1>9 DEF Push, CleanMain, Leave, BeginClose, LockAll, CloseDone, CleanDone,
                    PureCleanUp
<1>10. ASSUME NEW w \in Conn, Worker(w), ~ParseRegister(w), ~ParseDeregister(w)
       PROVE  ListedWhileRunning'
  <2>1. UNCHANGED <<clients, other, cst>>
    BY <1>10 DEF Worker, Receive, ParseNothing, CountExpected, Alert, CleanWorker,
       ParseShutdown, ParseTeardown, BeginTeardown, SendTeardown, EndTeardown, CheckUpdate,
       GetClients, ResetUpdate, SendUpdate, KeepAlive
  <2>2. running' => running
    BY <1>10 DEF Worker, Receive, ParseNothing, CountExpected, Alert, CleanWorker,
       ParseShutdown, ParseTeardown, BeginTeardown, SendTeardown, EndTeardown, CheckUpdate,
       GetClients, ResetUpdate, SendUpdate, KeepAlive
  <2> QED
    BY <1>2, <2>1, <2>2
<1>11. CASE UNCHANGED vars
  BY <1>2, <1>11 DEF vars
<1> QED
  BY <1>4, <1>5, <1>6, <1>7, <1>8, <1>9, <1>10, <1>11
     DEF Next, MainStep, Thread, Sweep, Cleaner

(* As long as the server runs, a client that runs and whose REGISTER was   *)
(* taken is on the list: no clean-up, of whichever connection and by       *)
(* whichever thread, takes it off.                                         *)
THEOREM ListedAlways == Spec => []ListedWhileRunning
<1>1. Init => (\A x \in Conn : Alive(x)) /\ ListedWhileRunning
  BY DEF Init, Alive, ListedWhileRunning
<1>2. Greeted /\ (\A x \in Conn : Alive(x)) /\ ListedWhileRunning /\ [Next]_vars
        => ((\A x \in Conn : Alive(x)) /\ ListedWhileRunning)'
  <2> SUFFICES ASSUME Greeted, \A x \in Conn : Alive(x), ListedWhileRunning, [Next]_vars
               PROVE  (\A x \in Conn : Alive(x)') /\ ListedWhileRunning'
    OBVIOUS
  <2>1. Standing
    BY DEF Standing
  <2>2. ASSUME NEW x \in Conn
        PROVE  Alive(x)'
    <3>1. ASSUME NEW c \in Conn,
                 \/ Process(c) \/ Register(c) \/ Deregister(c) \/ Crash(c) \/ AskTeardown(c)
                 \/ Accept(c) \/ CloseNext(c)
          PROVE  Alive(x)'
      BY <2>1, <3>1, ClientAlive
    <3>2. CASE \/ Push \/ CleanMain \/ Leave \/ BeginClose \/ LockAll \/ CloseDone
               \/ \E p \in Cleaner : Sweep(p)
      BY <2>1, <3>2, ClientAlive
    <3>3. ASSUME NEW w \in Conn, Worker(w)
          PROVE  Alive(x)'
      BY <2>1, <3>3, WorkerAlive
    <3>4. CASE UNCHANGED vars
      BY <3>4, AliveFrame DEF vars, portVars, workVars, netVars, clientVars
    <3> QED
      BY <3>1, <3>2, <3>3, <3>4 DEF Next, MainStep, Thread, Cleaner
  <2>3. ListedWhileRunning'
    BY <2>1, StepListed
  <2> QED
    BY <2>2, <2>3
<1> QED
  BY GreetedInvariant, <1>1, <1>2, PTL DEF Spec

============================================================================
