--------------------------- MODULE InductionLemmas ---------------------------
(***************************************************************************)
(* Induction on the naturals, over a set instead of a predicate, and what  *)
(* it shows of folds and of concatenations.                                *)
(*                                                                         *)
(* The lemma about folds is for any operator Combine, by instantiation:    *)
(* with F == INSTANCE InductionLemmas WITH Combine <- Step, F!Fold(base,   *)
(* seq) is FoldLeft(Step, base, seq) and F!FoldUnfolds says what that is.  *)
(***************************************************************************)
EXTENDS Integers, Sequences, WellFoundedInduction, TLAPS

CONSTANT Combine(_, _)

----------------------------------------------------------------------------
(* The naturals. *)

(* A nonempty set of naturals has a least element. *)
LEMMA LeastNat ==
  ASSUME NEW T, T \subseteq Nat, T # {}
  PROVE  \E x \in T : \A y \in T : x <= y
<1>1. PICK x \in T : \A y \in T : ~(<<y, x>> \in OpToRel(<, Nat))
  BY NatLessThanWellFounded, WFMin
<1>2. ASSUME NEW y \in T
      PROVE  x <= y
  <2>1. x \in Nat /\ y \in Nat
    OBVIOUS
  <2>2. ~(y < x)
    BY <1>1, <2>1 DEF OpToRel
  <2> QED
    BY <2>1, <2>2
<1> QED
  BY <1>2

(* A set that holds 0 and with every natural its successor holds them all. *)
LEMMA NatInductive ==
  ASSUME NEW T, 0 \in T, \A n \in Nat : n \in T => n + 1 \in T
  PROVE  \A n \in Nat : n \in T
<1> SUFFICES ASSUME Nat \ T # {}
             PROVE  FALSE
  OBVIOUS
<1>1. PICK x \in Nat \ T : \A y \in Nat \ T : x <= y
  BY LeastNat
<1>2. x - 1 \in Nat /\ (x - 1) + 1 = x /\ ~(x <= x - 1)
  BY <1>1
<1>3. x - 1 \in T
  BY <1>1, <1>2
<1>4. x \in T
  BY <1>2, <1>3
<1> QED
  BY <1>1, <1>4

----------------------------------------------------------------------------
(* Folds. *)

(* The greatest of a set of numbers. *)
Top(s) == CHOOSE x \in s : \A y \in s : x >= y

(* What FoldLeft(Combine, base, seq) of SequencesExt is by definition.      *)
Fold(base, seq) ==
  LET iter[s \in SUBSET (DOMAIN seq)] ==
        IF s = {} THEN base ELSE LET x == Top(s) IN Combine(iter[s \ {x}], seq[x])
  IN  iter[DOMAIN seq]

Iterates(f, n, base, seq) ==
  f = [s \in SUBSET (1..n) |-> IF s = {} THEN base
                                ELSE LET x == Top(s) IN Combine(f[s \ {x}], seq[x])]

(* The greatest of some of 1..n+1 is n+1, if that is among them. *)
LEMMA TopOfSome ==
  ASSUME NEW n \in Nat, NEW s \in SUBSET (1..(n + 1)), n + 1 \in s
  PROVE  Top(s) = n + 1
<1>1. \A y \in s : n + 1 >= y
  OBVIOUS
<1>2. Top(s) \in s /\ \A y \in s : Top(s) >= y
  BY <1>1 DEF Top
<1> HIDE DEF Top
<1>3. Top(s) \in 1..(n + 1) /\ Top(s) >= n + 1
  BY <1>2
<1> QED
  BY <1>3

(* The equation of a fold has a solution. *)
LEMMA IteratesExists ==
  ASSUME NEW base, NEW seq, NEW n \in Nat
  PROVE  \E f : Iterates(f, n, base, seq)
<1> DEFINE T == {m \in Nat : \E f : Iterates(f, m, base, seq)}
<1>1. 0 \in T
  <2> DEFINE f == [s \in SUBSET (1..0) |-> base]
  <2>1. f = [s \in SUBSET (1..0) |-> IF s = {} THEN base
                                ELSE LET x == Top(s) IN Combine(f[s \ {x}], seq[x])]
    <3>1. \A s \in SUBSET (1..0) : s = {}
      OBVIOUS
    <3> QED
      BY <3>1
  <2> QED
    BY <2>1 DEF Iterates
<1>2. ASSUME NEW m \in Nat, m \in T
      PROVE  m + 1 \in T
  <2>1. PICK f : Iterates(f, m, base, seq)
    BY <1>2
  <2> DEFINE g == [s \in SUBSET (1..(m + 1)) |-> IF m + 1 \in s THEN Combine(f[s \ {m + 1}], seq[m + 1])
                                                 ELSE f[s]]
             E(s) == IF s = {} THEN base
                     ELSE LET x == Top(s) IN Combine(g[s \ {x}], seq[x])
  <2>2. ASSUME NEW s \in SUBSET (1..m)
        PROVE  g[s] = f[s] /\ s \in SUBSET (1..(m + 1))
    OBVIOUS
  <2>3. ASSUME NEW s \in SUBSET (1..(m + 1))
        PROVE  g[s] = E(s)
    <3>1. CASE m + 1 \in s
      <4>1. Top(s) = m + 1 /\ s # {}
        BY <3>1, TopOfSome
      <4>2. s \ {m + 1} \in SUBSET (1..m)
        OBVIOUS
      <4>3. g[s \ {m + 1}] = f[s \ {m + 1}]
        BY <2>2, <4>2
      <4>4. g[s] = Combine(f[s \ {m + 1}], seq[m + 1])
        BY <3>1
      <4> HIDE DEF g
      <4> QED
        BY <4>1, <4>3, <4>4
    <3>2. CASE m + 1 \notin s
      <4>1. s \in SUBSET (1..m)
        BY <3>2
      <4>2. g[s] = f[s]
        BY <2>2, <4>1
      <4>3. f[s] = IF s = {} THEN base ELSE LET x == Top(s) IN Combine(f[s \ {x}], seq[x])
        BY <2>1, <4>1 DEF Iterates
      <4>4. s # {} => g[s \ {Top(s)}] = f[s \ {Top(s)}]
        <5>1. s \ {Top(s)} \in SUBSET (1..m)
          BY <4>1
        <5> QED
          BY <2>2, <5>1
      <4> HIDE DEF g
      <4> QED
        BY <4>2, <4>3, <4>4
    <3> QED
      BY <3>1, <3>2
  <2>4. g = [s \in SUBSET (1..(m + 1)) |-> E(s)]
    <3>1. g = [s \in SUBSET (1..(m + 1)) |-> g[s]]
      OBVIOUS
    <3> HIDE DEF g, E
    <3> QED
      BY <2>3, <3>1
  <2>5. Iterates(g, m + 1, base, seq)
    <3> HIDE DEF g
    <3> QED
    BY <2>4 DEF Iterates
  <2> QED
    BY <2>5
<1>3. n \in T
  <2> HIDE DEF T
  <2> QED
    BY <1>1, <1>2, NatInductive
<1> QED
  BY <1>3

(* A fold is the last of a sequence of results, each made from the one      *)
(* before it by one application of Combine.                                 *)
LEMMA FoldUnfolds ==
  ASSUME NEW base, NEW n \in Nat, NEW seq, DOMAIN seq = 1..n
  PROVE  \E h : /\ h[0] = base
                /\ \A k \in 1..n : h[k] = Combine(h[k - 1], seq[k])
                /\ Fold(base, seq) = h[n]
<1> DEFINE f == CHOOSE f : Iterates(f, n, base, seq)
<1>1. Fold(base, seq) = f[1..n]
  BY DEF Fold, Iterates
<1>2. Iterates(f, n, base, seq)
  BY IteratesExists
<1> HIDE DEF f
<1> DEFINE h == [k \in 0..n |-> f[1..k]]
<1>3. h[0] = base
  BY <1>2 DEF Iterates
<1>4. ASSUME NEW k \in 1..n
      PROVE  h[k] = Combine(h[k - 1], seq[k])
  <2>1. PICK m \in Nat : k = m + 1 /\ m \in 0..n /\ k \in 0..n
    <3>1. k - 1 \in Nat /\ k = (k - 1) + 1 /\ k - 1 \in 0..n /\ k \in 0..n
      OBVIOUS
    <3> QED
      BY <3>1
  <2>2. 1..(m + 1) \in SUBSET (1..(m + 1)) /\ m + 1 \in 1..(m + 1) /\ 1..(m + 1) # {}
    <3>1. m + 1 \in 1..(m + 1)
      OBVIOUS
    <3> QED
      BY <3>1
  <2>3. Top(1..(m + 1)) = m + 1
    BY <2>2, TopOfSome
  <2>4. (1..(m + 1)) \ {m + 1} = 1..m
    OBVIOUS
  <2>5. 1..(m + 1) \in SUBSET (1..n)
    BY <2>1
  <2>6. f[1..(m + 1)] = Combine(f[1..m], seq[m + 1])
    BY <1>2, <2>2, <2>3, <2>4, <2>5 DEF Iterates
  <2> QED
    BY <2>1, <2>6
<1>5. h[n] = f[1..n]
  OBVIOUS
<1> HIDE DEF h
<1> QED
  BY <1>1, <1>3, <1>4, <1>5

(* The same, for provers that need the results as one fact.                 *)
Folding(h, base, seq, n) == h[0] = base /\ \A k \in 1..n : h[k] = Combine(h[k - 1], seq[k])

LEMMA FoldSteps ==
  ASSUME NEW base, NEW n \in Nat, NEW seq, DOMAIN seq = 1..n
  PROVE  \E h : Folding(h, base, seq, n) /\ Fold(base, seq) = h[n]
<1>1. PICK h : /\ h[0] = base
               /\ \A k \in 1..n : h[k] = Combine(h[k - 1], seq[k])
               /\ Fold(base, seq) = h[n]
  BY FoldUnfolds
<1> QED
  BY <1>1 DEF Folding

----------------------------------------------------------------------------
(* Concatenations. *)

(* The sequences that parts add up to. *)
Nothing == <<>>
Sums(h, parts, n) == h[0] = Nothing /\ \A k \in 1..n : h[k] = h[k - 1] \o parts[k]

(* Every partial concatenation is a sequence of the elements. *)
LEMMA SumsAreSequences ==
  ASSUME NEW S, NEW n \in Nat, NEW parts, \A k \in 1..n : parts[k] \in Seq(S),
         NEW h, Sums(h, parts, n)
  PROVE  \A k \in 0..n : h[k] \in Seq(S)
<1> DEFINE T == {k \in Nat : k <= n => h[k] \in Seq(S)}
<1>1. 0 \in T
  <2>1. h[0] \in Seq(S)
    BY DEF Sums, Nothing
  <2> QED
    BY <2>1
<1>2. ASSUME NEW k \in Nat, k \in T
      PROVE  k + 1 \in T
  <2>1. CASE k + 1 <= n
    <3>1. k + 1 \in 1..n /\ (k + 1) - 1 = k /\ k <= n
      BY <2>1
    <3>2. h[k] \in Seq(S) /\ h[k + 1] = h[k] \o parts[k + 1] /\ parts[k + 1] \in Seq(S)
      BY <1>2, <3>1 DEF Sums
    <3>3. h[k + 1] \in Seq(S)
      BY <3>2
    <3> QED
      BY <3>3
  <2> QED
    BY <2>1
<1>3. \A k \in Nat : k \in T
  <2> HIDE DEF T
  <2> QED
    BY <1>1, <1>2, NatInductive
<1> QED
  BY <1>3

(* Partial concatenations exist. *)
LEMMA SumsExist ==
  ASSUME NEW n \in Nat, NEW parts
  PROVE  \E h : Sums(h, parts, n)
<1> DEFINE T == {m \in Nat : \E h : Sums(h, parts, m)}
<1>1. 0 \in T
  <2>1. PICK h : h = [k \in {0} |-> Nothing]
    OBVIOUS
  <2>2. Sums(h, parts, 0)
    BY <2>1 DEF Sums
  <2> QED
    BY <2>2
<1>2. ASSUME NEW m \in Nat, m \in T
      PROVE  m + 1 \in T
  <2>1. PICK h : Sums(h, parts, m)
    BY <1>2
  <2>2. PICK next : next = h[m] \o parts[m + 1]
    OBVIOUS
  <2>3. PICK g : g = [k \in 0..(m + 1) |-> IF k = m + 1 THEN next ELSE h[k]]
    OBVIOUS
  <2>4. g[m + 1] = next /\ g[0] = h[0] /\ \A k \in 0..m : g[k] = h[k]
    BY <2>3
  <2>5. ASSUME NEW k \in 1..(m + 1)
        PROVE  g[k] = g[k - 1] \o parts[k]
    <3>1. CASE k = m + 1
      <4>1. k - 1 = m /\ m \in 0..m
        BY <3>1
      <4> QED
        BY <2>2, <2>4, <3>1, <4>1
    <3>2. CASE k # m + 1
      <4>1. k \in 1..m /\ k \in 0..m /\ k - 1 \in 0..m
        BY <3>2
      <4>2. h[k] = h[k - 1] \o parts[k]
        BY <2>1, <4>1 DEF Sums
      <4> QED
        BY <2>4, <4>1, <4>2
    <3> QED
      BY <3>1, <3>2
  <2>6. Sums(g, parts, m + 1)
    BY <2>1, <2>4, <2>5 DEF Sums
  <2> QED
    BY <2>6
<1>3. \A m \in Nat : m \in T
  <2> HIDE DEF T
  <2> QED
    BY <1>1, <1>2, NatInductive
<1> QED
  BY <1>3

(* What FlattenSeq(parts) of SequencesExt is by definition. *)
Flatten(parts) ==
  IF Len(parts) = 0 THEN parts
  ELSE LET flatten[i \in 1..Len(parts)] == IF i = 1 THEN parts[i] ELSE flatten[i - 1] \o parts[i]
       IN  flatten[Len(parts)]

(* It adds up its parts. *)
LEMMA FlattenUnfolds ==
  ASSUME NEW S, NEW parts \in Seq(Seq(S)), NEW n, n = Len(parts)
  PROVE  \E h : Sums(h, parts, n) /\ Flatten(parts) = h[n]
<1>1. n \in Nat /\ DOMAIN parts = 1..n
  OBVIOUS
<1>2. CASE n = 0
  <2>1. parts = Nothing
    <3>1. PICK e : e = Nothing
      OBVIOUS
    <3>2. e \in Seq(Seq(S)) /\ Len(e) = 0
      BY <3>1 DEF Nothing
    <3>3. DOMAIN e = {} /\ DOMAIN parts = {}
      BY <1>1, <1>2, <3>2
    <3>4. parts = [i \in {} |-> parts[i]] /\ e = [i \in {} |-> e[i]]
      BY <3>2, <3>3
    <3>5. parts = e
      BY <3>4
    <3> QED
      BY <3>1, <3>5
  <2>2. Flatten(parts) = Nothing
    BY <1>2, <2>1 DEF Flatten
  <2>3. \A k \in 1..0 : FALSE
    OBVIOUS
  <2>4. PICK h : h = [k \in {0} |-> Nothing]
    OBVIOUS
  <2>5. h[0] = Nothing
    BY <2>4
  <2>6. Sums(h, parts, n) /\ Flatten(parts) = h[n]
    BY <1>2, <2>2, <2>3, <2>5 DEF Sums
  <2> QED
    BY <2>6
<1>3. CASE n # 0
  <2> DEFINE Flat(f) == f = [i \in 1..n |-> IF i = 1 THEN parts[i] ELSE f[i - 1] \o parts[i]]
  <2>1. \E f : Flat(f)
    <3>1. PICK h : Sums(h, parts, n)
      BY <1>1, SumsExist
    <3>2. h[1] = parts[1]
      <4>1. 1 \in 1..n /\ 1 - 1 = 0
        BY <1>1, <1>3
      <4>2. h[1] = Nothing \o parts[1]
        BY <3>1, <4>1 DEF Sums
      <4>3. parts[1] \in Seq(S)
        BY <1>1, <4>1
      <4> QED
        BY <4>2, <4>3 DEF Nothing
    <3> DEFINE f == [i \in 1..n |-> h[i]]
    <3>3. ASSUME NEW i \in 1..n
          PROVE  f[i] = IF i = 1 THEN parts[i] ELSE f[i - 1] \o parts[i]
      <4>1. CASE i = 1
        BY <3>2, <4>1
      <4>2. CASE i # 1
        <5>1. i - 1 \in 1..n
          BY <1>1, <4>2
        <5> QED
          BY <3>1, <4>2, <5>1 DEF Sums
      <4> QED
        BY <4>1, <4>2
    <3>4. f = [i \in 1..n |-> f[i]]
      OBVIOUS
    <3>5. Flat(f)
      <4> HIDE DEF f
      <4> QED
        BY <3>3, <3>4
    <3> HIDE DEF Flat
    <3> QED
      BY <3>5
  <2>2. PICK f : f = CHOOSE g : Flat(g)
    OBVIOUS
  <2>3. Flat(f)
    <3> HIDE DEF Flat
    <3> QED
      BY <2>1, <2>2
  <2>4. Flatten(parts) = f[n]
    BY <1>3, <2>2 DEF Flatten
  <2> DEFINE h == [k \in 0..n |-> IF k = 0 THEN Nothing ELSE f[k]]
  <2>5. h[0] = Nothing /\ h[n] = f[n]
    BY <1>1, <1>3
  <2>6. ASSUME NEW k \in 1..n
        PROVE  h[k] = h[k - 1] \o parts[k]
    <3>1. CASE k = 1
      <4>1. h[k] = parts[1] /\ h[k - 1] = Nothing /\ parts[k] = parts[1]
        BY <2>3, <3>1
      <4>2. Nothing \o parts[1] = parts[1]
        <5>1. parts[1] \in Seq(S)
          BY <1>1, <3>1
        <5> QED
          BY <5>1 DEF Nothing
      <4> QED
        BY <4>1, <4>2
    <3>2. CASE k # 1
      <4>1. k - 1 \in 1..n /\ k - 1 \in 0..n /\ k - 1 # 0 /\ k \in 0..n /\ k # 0
        BY <1>1, <3>2
      <4>2. h[k] = f[k] /\ h[k - 1] = f[k - 1]
        BY <4>1
      <4>3. f[k] = f[k - 1] \o parts[k]
        BY <2>3, <3>2
      <4> QED
        BY <4>2, <4>3
    <3> QED
      BY <3>1, <3>2
  <2>7. Sums(h, parts, n)
    <3> HIDE DEF h
    <3> QED
      BY <2>5, <2>6 DEF Sums
  <2> HIDE DEF h
  <2> QED
    BY <2>4, <2>5, <2>7
<1> QED
  BY <1>1, <1>2, <1>3

=============================================================================
