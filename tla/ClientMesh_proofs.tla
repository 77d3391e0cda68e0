-------------------------- MODULE ClientMesh_proofs --------------------------
(***************************************************************************)
(* Proofs about ClientMesh, for any number of clients, applications, keys, *)
(* TCP connections and losses.                                             *)
(***************************************************************************)
EXTENDS ClientMesh, FiniteSetTheorems, SequenceTheorems, InductionLemmas, TLAPS

----------------------------------------------------------------------------
(* The elements of a sequence, and what erasing some of them leaves. *)

(* The ends in a list are finitely many, of the list's type.                *)
LEMMA ToSetType ==
  ASSUME NEW S, NEW s \in Seq(S)
  PROVE  /\ ToSet(s) = {s[i] : i \in 1..Len(s)} /\ ToSet(s) \subseteq S
         /\ IsFiniteSet(ToSet(s))
<1>1. Len(s) \in Nat /\ DOMAIN s = 1..Len(s) /\ \A i \in 1..Len(s) : s[i] \in S
  BY LenProperties, ElementOfSeq
<1>2. ToSet(s) = {s[i] : i \in 1..Len(s)}
  BY <1>1, Zenon DEF ToSet
<1>3. ToSet(s) \subseteq S
  BY <1>1, <1>2
<1>4. IsFiniteSet(1..Len(s))
  BY <1>1, FS_Interval
<1>5. IsFiniteSet({s[i] : i \in 1..Len(s)})
  <2> DEFINE F == [i \in 1..Len(s) |-> s[i]]
             R == {F[i] : i \in 1..Len(s)}
  <2>1. R = {s[i] : i \in 1..Len(s)}
    OBVIOUS
  <2>2. F \in Surjection(1..Len(s), R)
    BY DEF Surjection
  <2> HIDE DEF F, R
  <2>3. IsFiniteSet(R)
    BY <1>4, <2>2, FS_Surjection
  <2> QED
    BY <2>1, <2>3
<1> QED
  BY <1>2, <1>3, <1>5, Zenon

(* Appending adds one element.                                              *)
LEMMA ToSetAppend ==
  ASSUME NEW S, NEW s \in Seq(S), NEW e \in S
  PROVE  Append(s, e) \in Seq(S) /\ ToSet(Append(s, e)) = ToSet(s) \cup {e}
<1>1. PICK u : u = Append(s, e)
  OBVIOUS
<1>2. /\ u \in Seq(S) /\ Len(u) = Len(s) + 1 /\ \A i \in 1..Len(s) : u[i] = s[i]
      /\ u[Len(s) + 1] = e /\ Len(s) \in Nat
  BY <1>1, AppendProperties, LenProperties
<1>3. ToSet(u) = {u[i] : i \in 1..Len(u)} /\ ToSet(s) = {s[i] : i \in 1..Len(s)}
  BY <1>2, ToSetType
<1>4. ToSet(u) \subseteq ToSet(s) \cup {e}
  <2> SUFFICES ASSUME NEW i \in 1..Len(u)
               PROVE  u[i] \in ToSet(s) \cup {e}
    BY <1>3
  <2>1. i \in 1..Len(s) \/ i = Len(s) + 1
    BY <1>2
  <2> QED
    BY <1>2, <1>3, <2>1
<1>5. ToSet(s) \cup {e} \subseteq ToSet(u)
  <2>1. \A i \in 1..Len(s) : i \in 1..Len(u)
    BY <1>2
  <2>2. Len(s) + 1 \in 1..Len(u)
    BY <1>2
  <2> QED
    BY <1>2, <1>3, <2>1, <2>2
<1>6. ToSet(u) = ToSet(s) \cup {e}
  BY <1>4, <1>5
<1> QED
  BY <1>1, <1>2, <1>6, Zenon

(* The recursive function in Kept.                                         *)
Keeps(f, s, done, m) ==
  f = [i \in 0..m |-> IF i = 0 THEN <<>>
                      ELSE IF s[i] \in done THEN f[i - 1] ELSE Append(f[i - 1], s[i])]

(* CleanUp's recursion has a value on every list.                           *)
LEMMA KeepExists ==
  ASSUME NEW s, NEW done, NEW m \in Nat
  PROVE  \E f : Keeps(f, s, done, m)
<1> DEFINE T == {n \in Nat : \E f : Keeps(f, s, done, n)}
<1>1. 0 \in T
  <2>1. Keeps([i \in 0..0 |-> <<>>], s, done, 0)
    BY DEF Keeps
  <2> QED
    BY <2>1
<1>2. ASSUME NEW n \in Nat, n \in T
      PROVE  n + 1 \in T
  <2>1. PICK f : Keeps(f, s, done, n)
    BY <1>2
  <2> DEFINE end == IF s[n + 1] \in done THEN f[n] ELSE Append(f[n], s[n + 1])
             g == [i \in 0..(n + 1) |-> IF i = n + 1 THEN end ELSE f[i]]
  <2>2. ASSUME NEW i \in 0..(n + 1)
        PROVE  g[i] = IF i = 0 THEN <<>>
                      ELSE IF s[i] \in done THEN g[i - 1] ELSE Append(g[i - 1], s[i])
    <3>1. CASE i = n + 1
      <4>1. i # 0 /\ i - 1 \in 0..(n + 1) /\ i - 1 # n + 1 /\ i - 1 = n
        BY <3>1
      <4>2. g[i - 1] = f[n] /\ g[i] = end
        BY <3>1, <4>1
      <4> QED
        BY <3>1, <4>1, <4>2
    <3>2. CASE i # n + 1
      <4>1. i \in 0..n /\ g[i] = f[i]
        BY <3>2
      <4>2. f[i] = IF i = 0 THEN <<>>
                   ELSE IF s[i] \in done THEN f[i - 1] ELSE Append(f[i - 1], s[i])
        BY <2>1, <4>1 DEF Keeps
      <4>3. i # 0 => i - 1 \in 0..(n + 1) /\ i - 1 # n + 1
        BY <4>1
      <4>4. i # 0 => g[i - 1] = f[i - 1]
        BY <4>3
      <4> QED
        BY <4>1, <4>2, <4>4
    <3> QED
      BY <3>1, <3>2
  <2>3. g = [i \in 0..(n + 1) |-> g[i]]
    OBVIOUS
  <2> HIDE DEF g
  <2>4. Keeps(g, s, done, n + 1)
    BY <2>2, <2>3 DEF Keeps
  <2> QED
    BY <2>4
<1> HIDE DEF T
<1>3. m \in T
  BY <1>1, <1>2, NatInductive
<1> QED
  BY <1>3 DEF T

(* Erasing keeps exactly the others.                                       *)
LEMMA KeptProperties ==
  ASSUME NEW S, NEW s \in Seq(S), NEW done
  PROVE  Kept(s, done) \in Seq(S) /\ ToSet(Kept(s, done)) = ToSet(s) \ done
<1>1. Len(s) \in Nat /\ \A i \in 1..Len(s) : s[i] \in S
  BY LenProperties, ElementOfSeq
<1> DEFINE F[i \in 0..Len(s)] ==
             IF i = 0 THEN <<>>
             ELSE IF s[i] \in done THEN F[i - 1] ELSE Append(F[i - 1], s[i])
<1>2. F = CHOOSE f : Keeps(f, s, done, Len(s))
  BY DEF Keeps
<1>3. Kept(s, done) = F[Len(s)]
  BY DEF Kept
<1> HIDE DEF F
<1>4. Keeps(F, s, done, Len(s))
  BY <1>1, <1>2, KeepExists
<1>5. \A i \in 0..Len(s) : F[i] = IF i = 0 THEN <<>>
                                  ELSE IF s[i] \in done THEN F[i - 1] ELSE Append(F[i - 1], s[i])
  BY <1>4 DEF Keeps
<1> DEFINE First(k) == {s[i] : i \in 1..k}
           T == {k \in Nat : k <= Len(s) => F[k] \in Seq(S) /\ ToSet(F[k]) = First(k) \ done}
<1>6. 0 \in T
  <2>1. F[0] = <<>>
    BY <1>1, <1>5
  <2>2. <<>> \in Seq(S) /\ ToSet(<<>>) = {}
    BY EmptySeq DEF ToSet
  <2>3. First(0) = {}
    OBVIOUS
  <2> QED
    BY <2>1, <2>2, <2>3
<1>7. ASSUME NEW k \in Nat, k \in T
      PROVE  k + 1 \in T
  <2> SUFFICES ASSUME k + 1 <= Len(s)
               PROVE  F[k + 1] \in Seq(S) /\ ToSet(F[k + 1]) = First(k + 1) \ done
    OBVIOUS
  <2>1. k <= Len(s) /\ k + 1 \in 0..Len(s) /\ k + 1 # 0 /\ (k + 1) - 1 = k /\ k + 1 \in 1..Len(s)
    BY <1>1
  <2>2. F[k] \in Seq(S) /\ ToSet(F[k]) = First(k) \ done
    BY <1>7, <2>1
  <2>3. First(k + 1) = First(k) \cup {s[k + 1]}
    <3>1. \A i \in 1..(k + 1) : i \in 1..k \/ i = k + 1
      OBVIOUS
    <3>2. k + 1 \in 1..(k + 1) /\ \A i \in 1..k : i \in 1..(k + 1)
      OBVIOUS
    <3> QED
      BY <3>1, <3>2
  <2> HIDE DEF First
  <2>4. PICK a, e : a = F[k] /\ e = s[k + 1]
    OBVIOUS
  <2>5. F[k + 1] = IF e \in done THEN a ELSE Append(a, e)
    <3>1. F[k + 1] = IF s[k + 1] \in done THEN F[(k + 1) - 1] ELSE Append(F[(k + 1) - 1], s[k + 1])
      BY <1>5, <2>1
    <3> QED
      BY <2>1, <2>4, <3>1
  <2>6. a \in Seq(S) /\ e \in S /\ ToSet(a) = First(k) \ done
    BY <1>1, <2>1, <2>2, <2>4
  <2>7. CASE e \in done
    <3>1. F[k + 1] = a
      BY <2>5, <2>7
    <3>2. First(k + 1) \ done = First(k) \ done
      BY <2>3, <2>4, <2>7
    <3> QED
      BY <2>6, <3>1, <3>2, Zenon
  <2>8. CASE e \notin done
    <3>1. F[k + 1] = Append(a, e)
      BY <2>5, <2>8, Zenon
    <3>2. First(k + 1) \ done = (First(k) \ done) \cup {e}
      BY <2>3, <2>4, <2>8
    <3>3. Append(a, e) \in Seq(S) /\ ToSet(Append(a, e)) = ToSet(a) \cup {e}
      BY <2>6, ToSetAppend
    <3> QED
      BY <2>6, <3>1, <3>2, <3>3, Zenon
  <2> QED
    BY <2>7, <2>8
<1>8. First(Len(s)) = ToSet(s)
  BY ToSetType
<1> HIDE DEF T, First
<1>9. Len(s) \in T
  BY <1>1, <1>6, <1>7, NatInductive
<1>10. F[Len(s)] \in Seq(S) /\ ToSet(F[Len(s)]) = First(Len(s)) \ done
  BY <1>1, <1>9 DEF T
<1> QED
  BY <1>3, <1>8, <1>10, Zenon

----------------------------------------------------------------------------
(* The types, and how ends, links and connections belong together. *)

Doing == {"none", "connect", "backlog", "run", "stuck", "finished", "closed"}
Life == {"listening", "main", "over", "closing", "exited", "crashed", "terminated"}
Place == {"accept", "idle", "clean", "check", "connect", "search", "wait", "done"}

LinksTyped ==
  /\ from \in [Link -> Node \cup {None}] /\ to \in [Link -> Node \cup {None}]
  /\ worker \in [End -> Doing]

Typed ==
  /\ mode \in [Node -> Life]
  /\ step \in [Node -> [Thread -> Place]]
  /\ todo \in [Node -> [Thread -> SUBSET Node]]
  /\ listed \in [Node -> SUBSET Node]
  /\ LinksTyped
  /\ conns \in [Node -> Seq(End)]
  /\ closing \in [Node -> Nat]
  /\ losses \in Nat

(* At and Other, of given links.                                           *)
AtIn(f, t, e) == IF e[2] = "out" THEN f[e[1]] ELSE t[e[1]]
OtherIn(t, e) == IF e[2] = "out" THEN t[e[1]] ELSE e

(* An end that exists belongs to a link between two clients; a connection  *)
(* is an end of its client's, and its descriptor is open.                  *)
LinksWired(f, t) == \A l \in Link : f[l] # None => t[l] \in Node

EndsWired(f, w) ==
  \A e \in End :
    /\ w[e] # "none" => f[e[1]] # None
    /\ w[e] = "connect" => e[2] = "out"
    /\ w[e] = "backlog" => e[2] = "in"

ConnsWired(f, t, w, c) ==
  \A n \in Node : \A e \in ToSet(c[n]) : AtIn(f, t, e) = n /\ w[e] \notin {"none", "closed"}

Wired == LinksWired(from, to) /\ EndsWired(from, worker) /\ ConnsWired(from, to, worker, conns)

(* Without an application there is no second thread.                       *)
Alone == \A n \in Node \ budget.apps : step[n]["app"] = "done" /\ todo[n]["app"] = {}

(* An end is a link with a direction, and the other end of the other end.   *)
LEMMA EndForm ==
  ASSUME NEW e \in End
  PROVE  /\ e[1] \in Link /\ e[2] \in {"out", "in"} /\ e = <<e[1], e[2]>>
         /\ Peer(e) \in End /\ Peer(e)[1] = e[1] /\ Peer(e) # e /\ Peer(Peer(e)) = e
  BY DEF End, Peer

(* Every link has its two ends.                                             *)
LEMMA LinkEnds ==
  ASSUME NEW l \in Link
  PROVE  <<l, "out">> \in End /\ <<l, "in">> \in End
  BY DEF End

(* _connections holds ends.                                                 *)
LEMMA ConnsInEnds ==
  ASSUME Typed, NEW n \in Node
  PROVE  conns[n] \in Seq(End) /\ ToSet(conns[n]) \subseteq End
<1>1. conns[n] \in Seq(End)
  BY DEF Typed
<1> QED
  BY <1>1, ToSetType

----------------------------------------------------------------------------
(* Close: an end that stays open keeps its link. *)

(* Closing sockets removes links or leaves them as they are, and no worker  *)
(* of a link that is left changes but to see it closed.                     *)
LEMMA CloseProperties ==
  ASSUME LinksTyped, NEW es, Close(es)
  PROVE  /\ from' \in [Link -> Node \cup {None}] /\ to' \in [Link -> Node \cup {None}]
         /\ worker' \in [End -> Doing]
         /\ broken' \subseteq broken
         /\ \A l \in Link : from'[l] = None \/ (from'[l] = from[l] /\ to'[l] = to[l])
         /\ \A e \in End : worker'[e] # "none" =>
              /\ from'[e[1]] = from[e[1]] /\ to'[e[1]] = to[e[1]]
              /\ worker'[e] = IF e \in es THEN "closed" ELSE worker[e]
         /\ \A e \in End : e \notin es /\ worker[e] \notin {"none", "closed"} => worker'[e] = worker[e]
<1> DEFINE closed == [e \in End |-> IF e \in es THEN "closed" ELSE worker[e]]
           Free(l) == \A e \in {<<l, "out">>, <<l, "in">>} : closed[e] \in {"none", "closed"}
<1>1. /\ worker' = [e \in End |-> IF Free(e[1]) THEN "none" ELSE closed[e]]
      /\ from' = [l \in Link |-> IF Free(l) THEN None ELSE from[l]]
      /\ to' = [l \in Link |-> IF Free(l) THEN None ELSE to[l]]
      /\ broken' = {l \in broken : ~Free(l)}
  BY DEF Close
<1>2. \A e \in End : closed[e] = IF e \in es THEN "closed" ELSE worker[e]
  OBVIOUS
<1>3. \A e \in End : closed[e] \in Doing
  BY <1>2 DEF LinksTyped, Doing
<1>4. \A e \in End : Free(e[1]) => closed[e] \in {"none", "closed"}
  <2> SUFFICES ASSUME NEW e \in End, Free(e[1])
               PROVE  closed[e] \in {"none", "closed"}
    OBVIOUS
  <2>1. e = <<e[1], "out">> \/ e = <<e[1], "in">>
    BY EndForm
  <2> QED
    BY <2>1
<1> HIDE DEF closed, Free
<1>5. from' \in [Link -> Node \cup {None}] /\ to' \in [Link -> Node \cup {None}]
  BY <1>1 DEF LinksTyped
<1>6. worker' \in [End -> Doing]
  BY <1>1, <1>3 DEF Doing
<1>7. broken' \subseteq broken
  BY <1>1
<1>8. \A l \in Link : from'[l] = None \/ (from'[l] = from[l] /\ to'[l] = to[l])
  BY <1>1
<1>9. \A e \in End : e[1] \in Link
  BY EndForm
<1>10. ASSUME NEW e \in End, worker'[e] # "none"
       PROVE  /\ from'[e[1]] = from[e[1]] /\ to'[e[1]] = to[e[1]]
              /\ worker'[e] = IF e \in es THEN "closed" ELSE worker[e]
  <2>1. ~Free(e[1])
    BY <1>1, <1>10
  <2>2. worker'[e] = closed[e]
    BY <1>1, <2>1
  <2> QED
    BY <1>1, <1>2, <1>9, <2>1, <2>2
<1>11. ASSUME NEW e \in End, e \notin es, worker[e] \notin {"none", "closed"}
       PROVE  worker'[e] = worker[e]
  <2>1. closed[e] = worker[e]
    BY <1>2, <1>11
  <2>2. ~Free(e[1])
    BY <1>4, <1>11, <2>1
  <2> QED
    BY <1>1, <2>1, <2>2
<1> QED
  BY <1>5, <1>6, <1>7, <1>8, <1>10, <1>11

----------------------------------------------------------------------------
(* The steps, one by one. *)

(* Every step is one of these, or a stutter.                               *)
LEMMA NextSpelled ==
  ASSUME [Next]_vars
  PROVE  \/ \E n \in Node : Initial(n) \/ Teardown(n) \/ MainLoopEnds(n) \/ BeginCloseAll(n)
                            \/ AskAndJoin(n) \/ EndCloseAll(n)
         \/ \E n \in Node : ClientUpdate(n) \/ RequestTeardown(n) \/ Accept(n) \/ Get(n) \/ Search(n)
                            \/ Answered(n) \/ Finish(n)
         \/ \E n \in Node, t \in Thread : CleanUp(n, t) \/ CheckUpdates(n, t) \/ Connect(n, t)
         \/ \E e \in End : Connected(e) \/ Unjam(e) \/ Leave(e) \/ KeyList(e) \/ Jam(e)
         \/ \E l \in Link : Loss(l)
         \/ UNCHANGED vars
  BY DEF Next, Lives, ThreadStep, Works

(* The bounds hold for a whole behaviour.                                   *)
LEMMA BudgetKept ==
  ASSUME [Next]_vars
  PROVE  budget' = budget
<1>1. \A n \in Node : Initial(n) \/ Teardown(n) \/ MainLoopEnds(n) \/ BeginCloseAll(n)
                     \/ AskAndJoin(n) \/ EndCloseAll(n) => budget' = budget
  BY DEF Initial, Teardown, MainLoopEnds, BeginCloseAll, AskAndJoin, EndCloseAll
<1>2. \A n \in Node : ClientUpdate(n) \/ RequestTeardown(n) \/ Accept(n) \/ Get(n) \/ Search(n)
                     \/ Answered(n) \/ Finish(n) => budget' = budget
  BY DEF ClientUpdate, RequestTeardown, Accept, Get, Search, Answered, Finish
<1>3. \A n \in Node, t \in Thread : CleanUp(n, t) \/ CheckUpdates(n, t) \/ Connect(n, t) => budget' = budget
  BY DEF CleanUp, CheckUpdates, Connect
<1>4. \A e \in End : Connected(e) \/ Unjam(e) \/ Leave(e) \/ KeyList(e) \/ Jam(e) => budget' = budget
  BY DEF Connected, Unjam, Leave, KeyList, Jam
<1>5. \A l \in Link : Loss(l) => budget' = budget
  BY DEF Loss
<1>6. UNCHANGED vars => budget' = budget
  BY DEF vars
<1> QED
  BY <1>1, <1>2, <1>3, <1>4, <1>5, <1>6, NextSpelled

(* One thread of one client goes on.                                        *)
LEMMA GotoProperties ==
  ASSUME Typed, NEW n \in Node, NEW t \in Thread, NEW s \in Place, Goto(n, t, s)
  PROVE  /\ step' \in [Node -> [Thread -> Place]]
         /\ \A m \in Node, u \in Thread : <<m, u>> # <<n, t>> => step'[m][u] = step[m][u]
  BY DEF Goto, Typed

(* One worker changes.                                                      *)
LEMMA RunProperties ==
  ASSUME LinksTyped, NEW e \in End, NEW s \in Doing, Run(e, s)
  PROVE  /\ worker' \in [End -> Doing] /\ worker'[e] = s
         /\ \A x \in End : x # e => worker'[x] = worker[x]
  BY DEF Run, LinksTyped

(* What Die does to the links, for the ends it closes.                     *)
LEMMA DieProperties ==
  ASSUME Typed, NEW n \in Node, NEW how \in {"exited", "crashed", "terminated"}, Die(n, how)
  PROVE  /\ mode' = [mode EXCEPT ![n] = how] /\ mode' \in [Node -> Life]
         /\ conns' = [conns EXCEPT ![n] = <<>>] /\ conns' \in [Node -> Seq(End)]
         /\ closing' = [closing EXCEPT ![n] = 0] /\ closing' \in [Node -> Nat]
         /\ LinksTyped'
         /\ Close(EndsOf(n))
<1>1. /\ mode' = [mode EXCEPT ![n] = how] /\ conns' = [conns EXCEPT ![n] = <<>>]
      /\ closing' = [closing EXCEPT ![n] = 0] /\ Close(EndsOf(n))
  BY Zenon DEF Die
<1>2. mode' \in [Node -> Life]
  BY <1>1 DEF Typed, Life
<1>3. conns' \in [Node -> Seq(End)]
  BY <1>1, EmptySeq DEF Typed
<1>4. closing' \in [Node -> Nat]
  BY <1>1 DEF Typed
<1>5. PICK es : es = EndsOf(n)
  OBVIOUS
<1>6. Close(es)
  BY <1>1, <1>5, Zenon DEF Close
<1>7. LinksTyped
  BY Zenon DEF Typed
<1>8. from' \in [Link -> Node \cup {None}] /\ to' \in [Link -> Node \cup {None}]
      /\ worker' \in [End -> Doing]
  BY <1>6, <1>7, CloseProperties
<1>9. LinksTyped'
  BY <1>8 DEF LinksTyped
<1> QED
  BY <1>1, <1>2, <1>3, <1>4, <1>9

(* What CleanUp does, for the connections it erases and those of them it   *)
(* closes.                                                                 *)
LEMMA CleanUpProperties ==
  ASSUME Typed, NEW n \in Node, NEW t \in Thread, CleanUp(n, t)
  PROVE  \E done, es :
           /\ \A e : e \in done <=> e \in ToSet(conns[n]) /\ worker[e] = "finished"
           /\ conns' \in [Node -> Seq(End)]
           /\ ToSet(conns'[n]) = ToSet(conns[n]) \ done
           /\ \A m \in Node : m # n => conns'[m] = conns[m]
           /\ es \subseteq done /\ Close(es) /\ LinksTyped'
<1>1. PICK done, es : done = {e \in ToSet(conns[n]) : worker[e] = "finished"} /\ es = done \ Held(n)
  OBVIOUS
<1>2. conns' = [conns EXCEPT ![n] = Kept(@, done)] /\ Close(es)
  BY <1>1, Zenon DEF CleanUp, Close
<1>3. PICK s : s = conns[n]
  OBVIOUS
<1>4. s \in Seq(End)
  BY <1>3 DEF Typed
<1>5. PICK u : u = Kept(s, done)
  OBVIOUS
<1>6. u \in Seq(End) /\ ToSet(u) = ToSet(s) \ done
  BY <1>4, <1>5, KeptProperties
<1>7. conns' = [conns EXCEPT ![n] = u]
  BY <1>2, <1>3, <1>5, Zenon
<1>8. conns' \in [Node -> Seq(End)] /\ conns'[n] = u /\ \A m \in Node : m # n => conns'[m] = conns[m]
  BY <1>6, <1>7 DEF Typed
<1>9. LinksTyped
  BY Zenon DEF Typed
<1>10. from' \in [Link -> Node \cup {None}] /\ to' \in [Link -> Node \cup {None}]
       /\ worker' \in [End -> Doing]
  BY <1>2, <1>9, CloseProperties
<1>11. LinksTyped'
  BY <1>10 DEF LinksTyped
<1>12. \A e : e \in done <=> e \in ToSet(conns[n]) /\ worker[e] = "finished"
  BY <1>1
<1>13. es \subseteq done
  BY <1>1
<1> QED
  BY <1>2, <1>3, <1>6, <1>8, <1>11, <1>12, <1>13, Zenon

(* What Connect does, for the link and the client it connects to.          *)
Opens(n, t, m, l) ==
  /\ m \in todo[n][t] /\ from[l] = None
  /\ from' = [from EXCEPT ![l] = n] /\ to' = [to EXCEPT ![l] = m]
  /\ LinksTyped'
  /\ worker'[<<l, "out">>] = "connect"
  /\ \A e \in End : e # <<l, "out">> => worker'[e] = worker[e]
  /\ conns' \in [Node -> Seq(End)]
  /\ ToSet(conns'[n]) = ToSet(conns[n]) \cup {<<l, "out">>}
  /\ \A x \in Node : x # n => conns'[x] = conns[x]
  /\ todo' = [todo EXCEPT ![n][t] = @ \ {m}]
  /\ step' \in [Node -> [Thread -> Place]]
  /\ \A x \in Node, u \in Thread : <<x, u>> # <<n, t>> => step'[x][u] = step[x][u]

(* _connect_to_client, where it opens a link, is Opens.                     *)
LEMMA ConnectProperties ==
  ASSUME Typed, NEW n \in Node, NEW t \in Thread, Connect(n, t)
  PROVE  \E m \in Node, l \in Link : Opens(n, t, m, l)
<1>1. PICK m \in todo[n][t], l \in Link :
        /\ from[l] = None
        /\ from' = [from EXCEPT ![l] = n] /\ to' = [to EXCEPT ![l] = m]
        /\ Run(<<l, "out">>, "connect")
        /\ conns' = [conns EXCEPT ![n] = Append(@, <<l, "out">>)]
        /\ todo' = [todo EXCEPT ![n][t] = @ \ {m}]
        /\ Goto(n, t, IF todo'[n][t] = {} THEN Again(t) ELSE "connect")
  BY Zenon DEF Connect
<1>2. m \in Node
  BY DEF Typed
<1>3. PICK e : e = <<l, "out">>
  OBVIOUS
<1>4. e \in End
  BY <1>3, LinkEnds
<1>5. LinksTyped
  BY Zenon DEF Typed
<1>6. Run(e, "connect")
  BY <1>1, <1>3, Zenon DEF Run
<1>7. worker' \in [End -> Doing] /\ worker'[e] = "connect" /\ \A x \in End : x # e => worker'[x] = worker[x]
  <2>1. "connect" \in Doing
    BY DEF Doing
  <2> QED
    BY <1>4, <1>5, <1>6, <2>1, RunProperties
<1>8. from' \in [Link -> Node \cup {None}] /\ to' \in [Link -> Node \cup {None}]
  BY <1>1, <1>2, <1>5 DEF LinksTyped
<1>9. LinksTyped'
  BY <1>7, <1>8 DEF LinksTyped
<1>10. PICK s, u : s = conns[n] /\ u = Append(s, e)
  OBVIOUS
<1>11. s \in Seq(End)
  BY <1>10 DEF Typed
<1>12. u \in Seq(End) /\ ToSet(u) = ToSet(s) \cup {e}
  BY <1>4, <1>10, <1>11, ToSetAppend
<1>13. conns' = [conns EXCEPT ![n] = u]
  BY <1>1, <1>3, <1>10, Zenon
<1>14. conns' \in [Node -> Seq(End)] /\ conns'[n] = u /\ \A x \in Node : x # n => conns'[x] = conns[x]
  BY <1>12, <1>13 DEF Typed
<1>15. PICK p : p = IF todo'[n][t] = {} THEN Again(t) ELSE "connect"
  OBVIOUS
<1>16. p \in Place
  BY <1>15 DEF Again, Place
<1>17. Goto(n, t, p)
  BY <1>1, <1>15, Zenon DEF Goto
<1>18. /\ step' \in [Node -> [Thread -> Place]]
       /\ \A x \in Node, v \in Thread : <<x, v>> # <<n, t>> => step'[x][v] = step[x][v]
  BY <1>16, <1>17, GotoProperties
<1>19. ToSet(conns'[n]) = ToSet(conns[n]) \cup {<<l, "out">>}
  BY <1>3, <1>10, <1>12, <1>14, Zenon
<1>20. Opens(n, t, m, l)
  BY <1>1, <1>3, <1>7, <1>9, <1>14, <1>18, <1>19, Zenon DEF Opens
<1> QED
  BY <1>2, <1>20

(* What Accept does, for the connection it accepts.                        *)
LEMMA AcceptProperties ==
  ASSUME Typed, NEW n \in Node, Accept(n)
  PROVE  \/ UNCHANGED <<from, to, worker, conns>>
         \/ \E e \in End :
              /\ worker[e] = "backlog" /\ AtIn(from, to, e) = n
              /\ worker' = [worker EXCEPT ![e] = "run"]
              /\ conns' \in [Node -> Seq(End)]
              /\ ToSet(conns'[n]) = ToSet(conns[n]) \cup {e}
              /\ \A x \in Node : x # n => conns'[x] = conns[x]
              /\ from' = from /\ to' = to
<1>1. CASE UNCHANGED <<worker, conns>>
  BY <1>1 DEF Accept
<1>2. CASE \E e \in End : /\ worker[e] = "backlog" /\ At(e) = n
                          /\ Run(e, "run") /\ conns' = [conns EXCEPT ![n] = Append(@, e)]
  <2>1. PICK e \in End : /\ worker[e] = "backlog" /\ At(e) = n
                         /\ Run(e, "run") /\ conns' = [conns EXCEPT ![n] = Append(@, e)]
    BY <1>2
  <2>2. PICK s, u : s = conns[n] /\ u = Append(s, e)
    OBVIOUS
  <2>3. s \in Seq(End)
    BY <2>2 DEF Typed
  <2>4. u \in Seq(End) /\ ToSet(u) = ToSet(s) \cup {e}
    BY <2>2, <2>3, ToSetAppend
  <2>5. conns' = [conns EXCEPT ![n] = u]
    BY <2>1, <2>2, Zenon
  <2>6. conns' \in [Node -> Seq(End)] /\ conns'[n] = u /\ \A x \in Node : x # n => conns'[x] = conns[x]
    BY <2>4, <2>5 DEF Typed
  <2>7. ToSet(conns'[n]) = ToSet(conns[n]) \cup {e}
    BY <2>2, <2>4, <2>6, Zenon
  <2>8. from' = from /\ to' = to
    BY DEF Accept
  <2>9. AtIn(from, to, e) = n
    BY <2>1 DEF At, AtIn
  <2> QED
    BY <2>1, <2>6, <2>7, <2>8, <2>9 DEF Run
<1> QED
  BY <1>1, <1>2 DEF Accept

----------------------------------------------------------------------------
(* Types. *)

(* The search of get_value kills the process, or ends, or goes on to wait. *)
LEMMA SearchOutcomes ==
  ASSUME NEW n \in Node, Search(n)
  PROVE  /\ mode[n] \in {"main", "over"} /\ step[n]["app"] = "search" /\ UNCHANGED <<todo, losses>>
         /\ \/ Die(n, "crashed") /\ UNCHANGED step
            \/ UNCHANGED <<mode, links, closing>> /\ (Goto(n, "app", "idle") \/ Goto(n, "app", "wait"))
  BY Zenon DEF Search, Active, links

(* Steps of a worker other than Connected.                                 *)
LEMMA WorkerProperties ==
  ASSUME LinksTyped, NEW e \in End, Unjam(e) \/ Leave(e) \/ Jam(e)
  PROVE  /\ \E s \in {"run", "stuck", "finished"} : worker' = [worker EXCEPT ![e] = s]
         /\ worker[e] \in {"run", "stuck"}
         /\ UNCHANGED <<life, threads, listed, from, to, conns, broken, losses, closing, where, budget>>
<1>1. CASE Unjam(e)
  BY <1>1 DEF Unjam, Run
<1>2. CASE Leave(e)
  BY <1>2 DEF Leave, Run
<1>3. CASE Jam(e)
  BY <1>3 DEF Jam, Run
<1> QED
  BY <1>1, <1>2, <1>3

(* connect_to_target fails, or its worker runs and the peer has an entry in *)
(* its backlog.                                                             *)
LEMMA ConnectedProperties ==
  ASSUME LinksTyped, NEW e \in End, Connected(e)
  PROVE  /\ worker[e] = "connect" /\ worker' \in [End -> Doing]
         /\ \A x \in End : x # e /\ x # Peer(e) => worker'[x] = worker[x]
         /\ \/ /\ Ended(to[e[1]]) \/ e[1] \in broken
               /\ worker'[e] = "finished" /\ worker'[Peer(e)] = worker[Peer(e)]
            \/ /\ ~Ended(to[e[1]])
               /\ worker'[e] = "run" /\ worker'[Peer(e)] = "backlog"
         /\ UNCHANGED <<life, threads, listed, from, to, conns, broken, losses, closing, where, budget>>
<1>1. PICK p : p = Peer(e)
  OBVIOUS
<1>2. p \in End /\ p # e
  BY <1>1, EndForm
<1>3. CASE Run(e, "finished") /\ (Ended(to[e[1]]) \/ e[1] \in broken)
  <2>1. worker' = [worker EXCEPT ![e] = "finished"]
    BY <1>3 DEF Run
  <2>2. worker' \in [End -> Doing] /\ worker'[e] = "finished" /\ \A x \in End : x # e => worker'[x] = worker[x]
    BY <2>1 DEF LinksTyped, Doing
  <2>3. worker'[p] = worker[p]
    BY <1>2, <2>2
  <2> QED
    BY <1>1, <1>3, <2>2, <2>3 DEF Connected
<1>4. CASE worker' = [worker EXCEPT ![e] = "run", ![Peer(e)] = "backlog"] /\ ~Ended(to[e[1]])
  <2>1. worker' = [worker EXCEPT ![e] = "run", ![p] = "backlog"]
    BY <1>1, <1>4, Zenon
  <2>2. worker' \in [End -> Doing] /\ worker'[e] = "run" /\ worker'[p] = "backlog"
        /\ \A x \in End : x # e /\ x # p => worker'[x] = worker[x]
    BY <1>2, <2>1 DEF LinksTyped, Doing
  <2> QED
    BY <1>1, <1>4, <2>2 DEF Connected
<1> QED
  BY <1>3, <1>4 DEF Connected

(* Every step keeps the types.                                              *)
LEMMA TypedStep == Typed /\ [Next]_vars => Typed'
<1> SUFFICES ASSUME Typed, [Next]_vars
             PROVE  Typed'
  OBVIOUS
<1> USE DEF life, threads, links
<1>0. LinksTyped
  BY Zenon DEF Typed
<1>1. ASSUME NEW n \in Node, Initial(n)
      PROVE  Typed'
  BY <1>1 DEF Initial, Typed, LinksTyped, Life
<1>2. ASSUME NEW n \in Node, Teardown(n)
      PROVE  Typed'
  BY <1>2 DEF Teardown, Typed, LinksTyped
<1>3. ASSUME NEW n \in Node, MainLoopEnds(n)
      PROVE  Typed'
  BY <1>3 DEF MainLoopEnds, Typed, LinksTyped, Life
<1>4. ASSUME NEW n \in Node, BeginCloseAll(n)
      PROVE  Typed'
  <2>1. UNCHANGED <<running, told, threads, listed, losses, where, budget>>
    BY <1>4 DEF BeginCloseAll
  <2>2. CASE Die(n, "terminated")
    <3>1. mode' \in [Node -> Life] /\ conns' \in [Node -> Seq(End)] /\ closing' \in [Node -> Nat] /\ LinksTyped'
      BY <2>2, DieProperties
    <3> QED
      BY <2>1, <3>1 DEF Typed
  <2>3. CASE mode' = [mode EXCEPT ![n] = "closing"] /\ UNCHANGED <<from, to, worker, conns, broken, closing>>
    BY <2>1, <2>3 DEF Typed, LinksTyped, Life
  <2> QED
    BY <1>4, <2>2, <2>3 DEF BeginCloseAll
<1>5. ASSUME NEW n \in Node, AskAndJoin(n)
      PROVE  Typed'
  <2>1. closing' \in [Node -> Nat]
    BY <1>5 DEF AskAndJoin, Typed
  <2> QED
    BY <1>5, <2>1 DEF AskAndJoin, Typed, LinksTyped
<1>6. ASSUME NEW n \in Node, EndCloseAll(n)
      PROVE  Typed'
  <2>1. UNCHANGED <<running, told, threads, listed, losses, where, budget>> /\ Die(n, "exited")
    BY <1>6 DEF EndCloseAll
  <2>2. mode' \in [Node -> Life] /\ conns' \in [Node -> Seq(End)] /\ closing' \in [Node -> Nat] /\ LinksTyped'
    BY <2>1, DieProperties
  <2> QED
    BY <2>1, <2>2 DEF Typed
<1>7. ASSUME NEW n \in Node, ClientUpdate(n)
      PROVE  Typed'
  <2>1. listed' \in [Node -> SUBSET Node]
    BY <1>7 DEF ClientUpdate, Typed
  <2> QED
    BY <1>7, <2>1 DEF ClientUpdate, Typed, LinksTyped
<1>8. ASSUME NEW n \in Node, RequestTeardown(n)
      PROVE  Typed'
  <2>1. UNCHANGED <<running, todo, listed, losses>> /\ Goto(n, "app", "done")
    BY <1>8 DEF RequestTeardown
  <2>2. step' \in [Node -> [Thread -> Place]]
    <3>1. "app" \in Thread /\ "done" \in Place
      BY DEF Thread, Place
    <3> QED
      BY <2>1, <3>1, GotoProperties
  <2>3. CASE Die(n, "crashed")
    <3>1. mode' \in [Node -> Life] /\ conns' \in [Node -> Seq(End)] /\ closing' \in [Node -> Nat] /\ LinksTyped'
      BY <2>3, DieProperties
    <3> QED
      BY <2>1, <2>2, <3>1 DEF Typed
  <2>4. CASE UNCHANGED <<mode, from, to, worker, conns, broken, closing>>
    BY <2>1, <2>2, <2>4 DEF Typed, LinksTyped
  <2> QED
    BY <1>8, <2>3, <2>4 DEF RequestTeardown
<1>9. ASSUME NEW n \in Node, Accept(n)
      PROVE  Typed'
  <2>1. UNCHANGED <<life, todo, listed, from, to, broken, losses, closing>>
        /\ Goto(n, "main", "clean")
    BY <1>9 DEF Accept
  <2>2. step' \in [Node -> [Thread -> Place]]
    <3>1. "main" \in Thread /\ "clean" \in Place
      BY DEF Thread, Place
    <3> QED
      BY <2>1, <3>1, GotoProperties
  <2>3. conns' \in [Node -> Seq(End)] /\ worker' \in [End -> Doing]
    <3>1. CASE UNCHANGED <<from, to, worker, conns>>
      BY <3>1 DEF Typed, LinksTyped
    <3>2. CASE \E e \in End : worker' = [worker EXCEPT ![e] = "run"] /\ conns' \in [Node -> Seq(End)]
      BY <3>2 DEF Typed, LinksTyped, Doing
    <3> QED
      BY <1>9, <3>1, <3>2, AcceptProperties
  <2> QED
    BY <2>1, <2>2, <2>3 DEF Typed, LinksTyped
<1>10. ASSUME NEW n \in Node, Get(n) \/ Answered(n) \/ Finish(n)
       PROVE  Typed'
  <2>1. UNCHANGED <<life, todo, listed, links, closing>>
        /\ \E s \in {"clean", "idle", "done"} : Goto(n, "app", s)
    BY <1>10 DEF Get, Answered, Finish
  <2>2. step' \in [Node -> [Thread -> Place]]
    <3>1. "app" \in Thread /\ {"clean", "idle", "done"} \subseteq Place
      BY DEF Thread, Place
    <3> QED
      BY <2>1, <3>1, GotoProperties
  <2> QED
    BY <2>1, <2>2 DEF Typed, LinksTyped
<1>11. ASSUME NEW n \in Node, NEW t \in Thread, CleanUp(n, t)
       PROVE  Typed'
  <2>1. UNCHANGED <<life, todo, listed, losses, closing>> /\ Goto(n, t, "check")
    BY <1>11 DEF CleanUp
  <2>2. step' \in [Node -> [Thread -> Place]]
    <3>1. "check" \in Place
      BY DEF Place
    <3> QED
      BY <2>1, <3>1, GotoProperties
  <2>3. conns' \in [Node -> Seq(End)] /\ LinksTyped'
    BY <1>11, CleanUpProperties
  <2> QED
    BY <2>1, <2>2, <2>3 DEF Typed
<1>12. ASSUME NEW n \in Node, NEW t \in Thread, CheckUpdates(n, t)
       PROVE  Typed'
  <2>1. PICK p : p = IF todo'[n][t] = {} THEN Again(t) ELSE "connect"
    OBVIOUS
  <2>2. p \in Place
    BY <2>1 DEF Again, Place
  <2>3. Goto(n, t, p)
    BY <1>12, <2>1, Zenon DEF CheckUpdates, Goto
  <2>4. step' \in [Node -> [Thread -> Place]]
    BY <2>2, <2>3, GotoProperties
  <2>5. PICK ms : ms = {m \in listed[n] : \A e \in ToSet(conns[n]) : Other(e) # m}
    OBVIOUS
  <2>6. ms \subseteq Node
    BY <2>5 DEF Typed
  <2>7. todo' = [todo EXCEPT ![n][t] = ms]
    BY <1>12, <2>5, Zenon DEF CheckUpdates
  <2>8. todo' \in [Node -> [Thread -> SUBSET Node]]
    BY <2>6, <2>7 DEF Typed
  <2>9. UNCHANGED <<life, listed, links, closing>>
    BY <1>12 DEF CheckUpdates
  <2> QED
    BY <2>4, <2>8, <2>9 DEF Typed, LinksTyped
<1>13. ASSUME NEW n \in Node, NEW t \in Thread, Connect(n, t)
       PROVE  Typed'
  <2>1. PICK m \in Node, l \in Link : Opens(n, t, m, l)
    BY <1>13, ConnectProperties
  <2>2. LinksTyped' /\ conns' \in [Node -> Seq(End)] /\ step' \in [Node -> [Thread -> Place]]
    BY <2>1 DEF Opens
  <2>3. todo' \in [Node -> [Thread -> SUBSET Node]]
    BY <2>1 DEF Typed, Opens
  <2>4. UNCHANGED <<life, listed, broken, losses, closing>>
    BY <1>13 DEF Connect
  <2> QED
    BY <2>2, <2>3, <2>4 DEF Typed
<1>14. ASSUME NEW e \in End, Connected(e)
       PROVE  Typed'
  <2>1. worker' \in [End -> Doing]
        /\ UNCHANGED <<life, threads, listed, from, to, conns, broken, losses, closing, where, budget>>
    BY <1>0, <1>14, ConnectedProperties
  <2> QED
    BY <2>1 DEF Typed, LinksTyped
<1>15. ASSUME NEW e \in End, Unjam(e) \/ Leave(e) \/ Jam(e)
       PROVE  Typed'
  <2>1. PICK s \in {"run", "stuck", "finished"} : worker' = [worker EXCEPT ![e] = s]
    BY <1>0, <1>15, WorkerProperties
  <2>2. UNCHANGED <<life, threads, listed, from, to, conns, broken, losses, closing, where, budget>>
    BY <1>0, <1>15, WorkerProperties
  <2>3. worker' \in [End -> Doing]
    BY <1>0, <2>1 DEF LinksTyped, Doing
  <2> QED
    BY <2>2, <2>3 DEF Typed, LinksTyped
<1>16. ASSUME NEW e \in End, KeyList(e)
       PROVE  Typed'
  BY <1>16 DEF KeyList, Typed, LinksTyped
<1>17. ASSUME NEW l \in Link, Loss(l)
       PROVE  Typed'
  BY <1>17 DEF Loss, Typed, LinksTyped
<1>18. CASE UNCHANGED vars
  BY <1>18 DEF vars, Typed, LinksTyped
<1>19. ASSUME NEW n \in Node, Search(n)
       PROVE  Typed'
  <2>1. UNCHANGED <<running, todo, listed>>
    BY <1>19 DEF Search
  <2>2. CASE Die(n, "crashed") /\ UNCHANGED <<step, losses>>
    <3>1. mode' \in [Node -> Life] /\ conns' \in [Node -> Seq(End)] /\ closing' \in [Node -> Nat] /\ LinksTyped'
      BY <2>2, DieProperties
    <3> QED
      BY <2>1, <2>2, <3>1 DEF Typed
  <2>3. CASE UNCHANGED <<mode, links, closing>> /\ (Goto(n, "app", "idle") \/ Goto(n, "app", "wait"))
    <3>1. "app" \in Thread /\ {"idle", "wait"} \subseteq Place
      BY DEF Thread, Place
    <3>2. step' \in [Node -> [Thread -> Place]]
      BY <2>3, <3>1, GotoProperties
    <3> QED
      BY <2>1, <2>3, <3>2 DEF Typed, LinksTyped
  <2> QED
    BY <1>19, <2>2, <2>3, SearchOutcomes
<1> HIDE DEF life, threads, links
<1> QED
  BY <1>1, <1>2, <1>3, <1>4, <1>5, <1>6, <1>7, <1>8, <1>9, <1>10, <1>11, <1>12, <1>13, <1>14,
     <1>15, <1>16, <1>17, <1>18, <1>19, NextSpelled

----------------------------------------------------------------------------
(* How ends, links and connections belong together. *)

(* Ends are closed, those of the connections that stay not among them.     *)
Prunes(es) ==
  /\ Close(es) /\ \A e \in es : worker[e] # "none"
  /\ \A x \in Node : \A e \in ToSet(conns'[x]) : e \in ToSet(conns[x]) /\ e \notin es

(* A process that dies closes no end of another.                           *)
LEMMA DiePrunes ==
  ASSUME Typed, Wired, NEW n \in Node, NEW how \in {"exited", "crashed", "terminated"}, Die(n, how)
  PROVE  \E es : Prunes(es)
<1>1. conns' = [conns EXCEPT ![n] = <<>>] /\ conns \in [Node -> Seq(End)] /\ Close(EndsOf(n))
  BY DieProperties DEF Typed
<1>2. conns'[n] = <<>> /\ \A x \in Node : x # n => conns'[x] = conns[x]
  BY <1>1
<1>3. ToSet(<<>>) = {}
  BY DEF ToSet
<1>4. PICK es : es = EndsOf(n)
  OBVIOUS
<1>5. Close(es)
  BY <1>1, <1>4, Zenon DEF Close
<1>6. ASSUME NEW x \in Node, NEW e \in ToSet(conns'[x])
      PROVE  e \in ToSet(conns[x]) /\ e \notin es
  <2>1. x # n
    BY <1>2, <1>3, <1>6
  <2>2. e \in ToSet(conns[x])
    BY <1>2, <1>6, <2>1
  <2>3. AtIn(from, to, e) = x
    BY <2>2 DEF Wired, ConnsWired
  <2>4. e \notin es
    BY <1>4, <2>1, <2>3 DEF EndsOf, At, AtIn
  <2> QED
    BY <2>2, <2>4
<1>7. \A e \in es : worker[e] # "none"
  BY <1>4 DEF EndsOf
<1>8. Prunes(es)
  BY <1>5, <1>6, <1>7, Zenon DEF Prunes
<1> QED
  BY <1>8

(* Nor does a client that cleans up.                                       *)
LEMMA CleanUpPrunes ==
  ASSUME Typed, Wired, NEW n \in Node, NEW t \in Thread, CleanUp(n, t)
  PROVE  \E es : Prunes(es)
<1>1. PICK done, es :
        /\ \A e : e \in done <=> e \in ToSet(conns[n]) /\ worker[e] = "finished"
        /\ ToSet(conns'[n]) = ToSet(conns[n]) \ done
        /\ \A m \in Node : m # n => conns'[m] = conns[m]
        /\ es \subseteq done /\ Close(es)
  BY CleanUpProperties, Zenon
<1>2. ASSUME NEW x \in Node, NEW e \in ToSet(conns'[x])
      PROVE  e \in ToSet(conns[x]) /\ e \notin es
  <2>1. CASE x = n
    BY <1>1, <1>2, <2>1
  <2>2. CASE x # n
    <3>1. e \in ToSet(conns[x])
      BY <1>1, <1>2, <2>2
    <3>2. AtIn(from, to, e) = x
      BY <3>1 DEF Wired, ConnsWired
    <3>3. e \in ToSet(conns[n]) => AtIn(from, to, e) = n
      BY DEF Wired, ConnsWired
    <3> QED
      BY <1>1, <2>2, <3>1, <3>2, <3>3
  <2> QED
    BY <2>1, <2>2
<1>3. \A e \in es : worker[e] # "none"
  BY <1>1
<1>4. Prunes(es)
  BY <1>1, <1>2, <1>3, Zenon DEF Prunes
<1> QED
  BY <1>4

(* What a step does to the links, the connections and to_connect.          *)
LEMMA LinkSteps ==
  ASSUME Typed, Wired, [Next]_vars
  PROVE  \/ UNCHANGED <<from, to, worker, conns, todo>>
         \/ UNCHANGED <<from, to, worker, conns>> /\ \E n \in Node, t \in Thread : CheckUpdates(n, t)
         \/ UNCHANGED todo /\ \E es : Prunes(es)
         \/ UNCHANGED todo /\ \E e \in End : Connected(e) \/ Unjam(e) \/ Leave(e) \/ Jam(e)
         \/ UNCHANGED todo /\ \E n \in Node : Accept(n)
         \/ \E n \in Node, t \in Thread : Connect(n, t)
<1> DEFINE G == \/ UNCHANGED <<from, to, worker, conns, todo>>
                \/ UNCHANGED <<from, to, worker, conns>> /\ \E n \in Node, t \in Thread : CheckUpdates(n, t)
                \/ UNCHANGED todo /\ \E es : Prunes(es)
                \/ UNCHANGED todo /\ \E e \in End : Connected(e) \/ Unjam(e) \/ Leave(e) \/ Jam(e)
                \/ UNCHANGED todo /\ \E n \in Node : Accept(n)
                \/ \E n \in Node, t \in Thread : Connect(n, t)
<1>1. ASSUME NEW n \in Node, Initial(n) \/ Teardown(n) \/ MainLoopEnds(n) \/ AskAndJoin(n)
                             \/ ClientUpdate(n) \/ Get(n) \/ Answered(n) \/ Finish(n)
      PROVE  G
  <2>1. UNCHANGED <<from, to, worker, conns, todo>>
    BY <1>1 DEF Initial, Teardown, MainLoopEnds, AskAndJoin, ClientUpdate, Get, Answered, Finish, threads, links
  <2> QED
    BY <2>1
<1>2. ASSUME NEW n \in Node, BeginCloseAll(n)
      PROVE  G
  <2>1. UNCHANGED todo
    BY <1>2 DEF BeginCloseAll, threads
  <2>2. CASE Die(n, "terminated")
    BY <2>1, <2>2, DiePrunes
  <2>3. CASE UNCHANGED <<from, to, worker, conns>>
    BY <2>1, <2>3
  <2> QED
    BY <1>2, <2>2, <2>3 DEF BeginCloseAll
<1>3. ASSUME NEW n \in Node, EndCloseAll(n)
      PROVE  G
  <2>1. UNCHANGED todo /\ Die(n, "exited")
    BY <1>3 DEF EndCloseAll, threads
  <2> QED
    BY <2>1, DiePrunes
<1>4. ASSUME NEW n \in Node, RequestTeardown(n)
      PROVE  G
  <2>1. UNCHANGED todo
    BY <1>4 DEF RequestTeardown
  <2>2. CASE Die(n, "crashed")
    BY <2>1, <2>2, DiePrunes
  <2>3. CASE UNCHANGED <<from, to, worker, conns>>
    BY <2>1, <2>3
  <2> QED
    BY <1>4, <2>2, <2>3 DEF RequestTeardown
<1>5. ASSUME NEW n \in Node, Accept(n)
      PROVE  G
  <2>1. UNCHANGED todo
    BY <1>5 DEF Accept
  <2> QED
    BY <1>5, <2>1
<1>6. ASSUME NEW n \in Node, NEW t \in Thread, CleanUp(n, t)
      PROVE  G
  <2>1. UNCHANGED todo
    BY <1>6 DEF CleanUp
  <2>2. \E es : Prunes(es)
    BY <1>6, CleanUpPrunes
  <2> QED
    BY <2>1, <2>2
<1>7. ASSUME NEW n \in Node, NEW t \in Thread, CheckUpdates(n, t)
      PROVE  G
  <2>1. UNCHANGED <<from, to, worker, conns>>
    BY <1>7 DEF CheckUpdates, links
  <2> QED
    BY <1>7, <2>1
<1>8. ASSUME NEW n \in Node, NEW t \in Thread, Connect(n, t)
      PROVE  G
  BY <1>8
<1>9. ASSUME NEW e \in End, Connected(e) \/ Unjam(e) \/ Leave(e) \/ Jam(e)
      PROVE  G
  <2>1. UNCHANGED todo
    BY <1>9 DEF Connected, Unjam, Leave, Jam, threads
  <2> QED
    BY <1>9, <2>1
<1>10. ASSUME NEW e \in End, KeyList(e)
       PROVE  G
  <2>1. UNCHANGED <<from, to, worker, conns, todo>>
    BY <1>10 DEF KeyList, threads, links
  <2> QED
    BY <2>1
<1>11. ASSUME NEW l \in Link, Loss(l)
       PROVE  G
  <2>1. UNCHANGED <<from, to, worker, conns, todo>>
    BY <1>11 DEF Loss, threads
  <2> QED
    BY <2>1
<1>12. ASSUME UNCHANGED vars
       PROVE  G
  <2>1. UNCHANGED <<from, to, worker, conns, todo>>
    BY <1>12 DEF vars, threads, links
  <2> QED
    BY <2>1
<1>13. ASSUME NEW n \in Node, Search(n)
       PROVE  G
  <2>1. UNCHANGED todo /\ (Die(n, "crashed") \/ UNCHANGED links)
    BY <1>13, SearchOutcomes
  <2>2. CASE Die(n, "crashed")
    BY <2>1, <2>2, DiePrunes
  <2>3. CASE UNCHANGED links
    BY <2>1, <2>3 DEF links
  <2> QED
    BY <2>1, <2>2, <2>3
<1> HIDE DEF G
<1>14. G
  BY <1>1, <1>2, <1>3, <1>4, <1>5, <1>6, <1>7, <1>8, <1>9, <1>10, <1>11, <1>12, <1>13, NextSpelled
<1> QED
  BY <1>14 DEF G


(* Every step keeps links, ends and _connections in agreement.              *)
LEMMA WiredStep == Typed /\ Typed' /\ Wired /\ [Next]_vars => Wired'
<1> SUFFICES ASSUME Typed, Typed', Wired, [Next]_vars
             PROVE  LinksWired(from', to') /\ EndsWired(from', worker') /\ ConnsWired(from', to', worker', conns')
  BY DEF Wired
<1> DEFINE G == LinksWired(from', to') /\ EndsWired(from', worker') /\ ConnsWired(from', to', worker', conns')
<1>1. LinksWired(from, to) /\ EndsWired(from, worker) /\ ConnsWired(from, to, worker, conns)
  BY Zenon DEF Wired
<1>2. LinksTyped /\ LinksTyped' /\ \A x \in Node : ToSet(conns[x]) \subseteq End
  BY ConnsInEnds DEF Typed
<1>3. ASSUME UNCHANGED <<from, to, worker, conns>>
      PROVE  G
  BY <1>1, <1>3
<1>4. ASSUME NEW es, Prunes(es)
      PROVE  G
  <2>1. /\ \A l \in Link : from'[l] = None \/ (from'[l] = from[l] /\ to'[l] = to[l])
        /\ \A e \in End : worker'[e] # "none" =>
              /\ from'[e[1]] = from[e[1]] /\ to'[e[1]] = to[e[1]]
              /\ worker'[e] = IF e \in es THEN "closed" ELSE worker[e]
        /\ \A e \in End : e \notin es /\ worker[e] \notin {"none", "closed"} => worker'[e] = worker[e]
    BY <1>2, <1>4, CloseProperties DEF Prunes
  <2>2. LinksWired(from', to')
    BY <1>1, <2>1 DEF LinksWired
  <2>3. EndsWired(from', worker')
    <3> SUFFICES ASSUME NEW e \in End
                 PROVE  /\ worker'[e] # "none" => from'[e[1]] # None
                        /\ worker'[e] = "connect" => e[2] = "out"
                        /\ worker'[e] = "backlog" => e[2] = "in"
      BY DEF EndsWired
    <3>1. CASE worker'[e] = "none"
      BY <3>1
    <3>2. CASE worker'[e] # "none" /\ e \in es
      <4>1. worker'[e] = "closed" /\ from'[e[1]] = from[e[1]] /\ worker[e] # "none"
        BY <1>4, <2>1, <3>2 DEF Prunes
      <4> QED
        BY <1>1, <4>1 DEF EndsWired
    <3>3. CASE worker'[e] # "none" /\ e \notin es
      BY <1>1, <2>1, <3>3 DEF EndsWired
    <3> QED
      BY <3>1, <3>2, <3>3
  <2>4. ConnsWired(from', to', worker', conns')
    <3> SUFFICES ASSUME NEW x \in Node, NEW e \in ToSet(conns'[x])
                 PROVE  AtIn(from', to', e) = x /\ worker'[e] \notin {"none", "closed"}
      BY DEF ConnsWired
    <3>1. e \in ToSet(conns[x]) /\ e \notin es
      BY <1>4 DEF Prunes
    <3>2. e \in End /\ AtIn(from, to, e) = x /\ worker[e] \notin {"none", "closed"}
      BY <1>1, <1>2, <3>1 DEF ConnsWired
    <3>3. worker'[e] = worker[e]
      BY <2>1, <3>1, <3>2
    <3>4. from'[e[1]] = from[e[1]] /\ to'[e[1]] = to[e[1]]
      BY <2>1, <3>2, <3>3
    <3> QED
      BY <3>2, <3>3, <3>4 DEF AtIn
  <2> QED
    BY <2>2, <2>3, <2>4
<1>5. ASSUME NEW e \in End, Connected(e)
      PROVE  G
  <2>1. /\ worker[e] = "connect"
        /\ \A x \in End : x # e /\ x # Peer(e) => worker'[x] = worker[x]
        /\ worker'[e] \in {"run", "finished"}
        /\ worker'[Peer(e)] \in {"backlog", worker[Peer(e)]}
        /\ UNCHANGED <<from, to, conns>>
    <3>1. UNCHANGED <<from, to, conns>>
      BY <1>2, <1>5, ConnectedProperties
    <3>2. worker[e] = "connect" /\ \A x \in End : x # e /\ x # Peer(e) => worker'[x] = worker[x]
      BY <1>2, <1>5, ConnectedProperties
    <3>3. worker'[e] \in {"run", "finished"} /\ worker'[Peer(e)] \in {"backlog", worker[Peer(e)]}
      BY <1>2, <1>5, ConnectedProperties
    <3> QED
      BY <3>1, <3>2, <3>3
  <2>2. LinksWired(from', to')
    BY <1>1, <2>1
  <2>3. PICK p : p = Peer(e)
    OBVIOUS
  <2>4. p \in End /\ p # e /\ p[1] = e[1] /\ e[2] = "out" /\ p[2] = "in" /\ from[e[1]] # None
    BY <1>1, <2>1, <2>3, EndForm DEF EndsWired, Peer
  <2>5. EndsWired(from', worker')
    <3> SUFFICES ASSUME NEW x \in End
                 PROVE  /\ worker'[x] # "none" => from[x[1]] # None
                        /\ worker'[x] = "connect" => x[2] = "out"
                        /\ worker'[x] = "backlog" => x[2] = "in"
      BY <2>1 DEF EndsWired
    <3>1. CASE x = e
      BY <2>1, <2>4, <3>1
    <3>2. CASE x = p
      <4>1. worker'[x] = "backlog" \/ worker'[x] = worker[x]
        BY <2>1, <2>3, <3>2
      <4> QED
        BY <1>1, <2>4, <3>2, <4>1 DEF EndsWired
    <3>3. CASE x # e /\ x # p
      BY <1>1, <2>1, <2>3, <3>3 DEF EndsWired
    <3> QED
      BY <3>1, <3>2, <3>3
  <2>6. ConnsWired(from', to', worker', conns')
    <3> SUFFICES ASSUME NEW n \in Node, NEW x \in ToSet(conns[n])
                 PROVE  AtIn(from, to, x) = n /\ worker'[x] \notin {"none", "closed"}
      BY <2>1 DEF ConnsWired
    <3>1. x \in End /\ AtIn(from, to, x) = n /\ worker[x] \notin {"none", "closed"}
      BY <1>1, <1>2 DEF ConnsWired
    <3>2. worker'[x] \in {"run", "finished", "backlog", worker[x]}
      BY <2>1, <2>3, <3>1
    <3> QED
      BY <3>1, <3>2
  <2> QED
    BY <2>2, <2>5, <2>6
<1>6. ASSUME NEW e \in End, Unjam(e) \/ Leave(e) \/ Jam(e)
      PROVE  G
  <2>1. PICK s \in {"run", "stuck", "finished"} : worker' = [worker EXCEPT ![e] = s]
    BY <1>2, <1>6, WorkerProperties
  <2>2. worker[e] \in {"run", "stuck"} /\ UNCHANGED <<from, to, conns>>
    BY <1>2, <1>6, WorkerProperties
  <2>3. worker'[e] = s /\ \A x \in End : x # e => worker'[x] = worker[x]
    BY <1>2, <2>1 DEF LinksTyped
  <2>4. EndsWired(from', worker')
    BY <1>1, <2>2, <2>3 DEF EndsWired
  <2>5. ConnsWired(from', to', worker', conns')
    <3> SUFFICES ASSUME NEW n \in Node, NEW x \in ToSet(conns[n])
                 PROVE  AtIn(from, to, x) = n /\ worker'[x] \notin {"none", "closed"}
      BY <2>2 DEF ConnsWired
    <3>1. x \in End /\ AtIn(from, to, x) = n /\ worker[x] \notin {"none", "closed"}
      BY <1>1, <1>2 DEF ConnsWired
    <3> QED
      BY <2>3, <3>1
  <2> QED
    BY <1>1, <2>2, <2>4, <2>5
<1>7. ASSUME NEW n \in Node, Accept(n)
      PROVE  G
  <2>1. CASE UNCHANGED <<from, to, worker, conns>>
    BY <1>3, <2>1
  <2>2. ASSUME NEW e \in End,
               worker[e] = "backlog" /\ AtIn(from, to, e) = n /\ worker' = [worker EXCEPT ![e] = "run"],
               ToSet(conns'[n]) = ToSet(conns[n]) \cup {e},
               \A x \in Node : x # n => conns'[x] = conns[x],
               from' = from /\ to' = to
        PROVE  G
    <3>1. worker'[e] = "run" /\ \A x \in End : x # e => worker'[x] = worker[x]
      BY <1>2, <2>2 DEF LinksTyped
    <3>2. EndsWired(from', worker')
      BY <1>1, <2>2, <3>1 DEF EndsWired
    <3>3. ConnsWired(from', to', worker', conns')
      <4> SUFFICES ASSUME NEW y \in Node, NEW x \in ToSet(conns'[y])
                   PROVE  AtIn(from, to, x) = y /\ worker'[x] \notin {"none", "closed"}
        BY <2>2 DEF ConnsWired
      <4>1. x \in ToSet(conns[y]) \/ (y = n /\ x = e)
        BY <2>2
      <4>2. CASE x \in ToSet(conns[y])
        <5>1. x \in End /\ AtIn(from, to, x) = y /\ worker[x] \notin {"none", "closed"}
          BY <1>1, <1>2, <4>2 DEF ConnsWired
        <5> QED
          BY <3>1, <5>1
      <4>3. CASE y = n /\ x = e
        BY <2>2, <3>1, <4>3
      <4> QED
        BY <4>1, <4>2, <4>3
    <3> QED
      BY <1>1, <2>2, <3>2, <3>3
  <2> HIDE DEF G
  <2> QED
    BY <1>7, <2>1, <2>2, AcceptProperties
<1>8. ASSUME NEW n \in Node, NEW t \in Thread, Connect(n, t)
      PROVE  G
  <2>0. PICK m \in Node, l \in Link : Opens(n, t, m, l)
    BY <1>8, ConnectProperties
  <2>1. /\ from[l] = None
        /\ from' = [from EXCEPT ![l] = n] /\ to' = [to EXCEPT ![l] = m]
        /\ worker'[<<l, "out">>] = "connect"
        /\ \A e \in End : e # <<l, "out">> => worker'[e] = worker[e]
        /\ ToSet(conns'[n]) = ToSet(conns[n]) \cup {<<l, "out">>}
        /\ \A x \in Node : x # n => conns'[x] = conns[x]
    BY <2>0, Zenon DEF Opens
  <2>2. PICK e : e = <<l, "out">>
    OBVIOUS
  <2>3. e \in End /\ e[1] = l /\ e[2] = "out"
    BY <2>2, LinkEnds
  <2>4. from'[l] = n /\ to'[l] = m /\ \A k \in Link : k # l => from'[k] = from[k] /\ to'[k] = to[k]
    BY <1>2, <2>1 DEF LinksTyped
  <2>5. n # None
    BY MeshAssumption
  <2>6. LinksWired(from', to')
    BY <1>1, <2>1, <2>4 DEF LinksWired
  <2>7. EndsWired(from', worker')
    <3> SUFFICES ASSUME NEW x \in End
                 PROVE  /\ worker'[x] # "none" => from'[x[1]] # None
                        /\ worker'[x] = "connect" => x[2] = "out"
                        /\ worker'[x] = "backlog" => x[2] = "in"
      BY DEF EndsWired
    <3>1. CASE x = e
      BY <2>1, <2>2, <2>3, <2>4, <2>5, <3>1
    <3>2. CASE x # e
      <4>1. worker'[x] = worker[x] /\ x[1] \in Link
        BY <2>1, <2>2, <3>2, EndForm
      <4>2. worker[x] # "none" => from[x[1]] # None
        BY <1>1 DEF EndsWired
      <4>3. from[x[1]] # None => from'[x[1]] # None
        BY <2>1, <2>4, <4>1
      <4> QED
        BY <1>1, <4>1, <4>2, <4>3 DEF EndsWired
    <3> QED
      BY <3>1, <3>2
  <2>8. ConnsWired(from', to', worker', conns')
    <3> SUFFICES ASSUME NEW y \in Node, NEW x \in ToSet(conns'[y])
                 PROVE  AtIn(from', to', x) = y /\ worker'[x] \notin {"none", "closed"}
      BY DEF ConnsWired
    <3>1. x \in ToSet(conns[y]) \/ (y = n /\ x = e)
      BY <2>1, <2>2
    <3>2. CASE x \in ToSet(conns[y])
      <4>1. x \in End /\ AtIn(from, to, x) = y /\ worker[x] \notin {"none", "closed"}
        BY <1>1, <1>2, <3>2 DEF ConnsWired
      <4>2. from[x[1]] # None
        BY <1>1, <4>1 DEF EndsWired
      <4>3. x[1] \in Link /\ x[1] # l /\ x # e
        BY <2>1, <2>3, <4>1, <4>2, EndForm
      <4>4. worker'[x] = worker[x] /\ from'[x[1]] = from[x[1]] /\ to'[x[1]] = to[x[1]]
        BY <2>1, <2>2, <2>4, <4>1, <4>3
      <4> QED
        BY <4>1, <4>4 DEF AtIn
    <3>3. CASE y = n /\ x = e
      BY <2>1, <2>2, <2>3, <2>4, <3>3 DEF AtIn
    <3> QED
      BY <3>1, <3>2, <3>3
  <2> QED
    BY <2>6, <2>7, <2>8
<1> HIDE DEF G
<1>9. G
  <2>1. UNCHANGED <<from, to, worker, conns, todo>> => UNCHANGED <<from, to, worker, conns>>
    OBVIOUS
  <2> QED
    BY <1>3, <1>4, <1>5, <1>6, <1>7, <1>8, <2>1, LinkSteps
<1> QED
  BY <1>9 DEF G

----------------------------------------------------------------------------
(* A client without an application looks for connections with one thread.  *)

(* No step gives a client without an application a second thread.           *)
LEMMA AloneStep == Typed /\ Alone /\ [Next]_vars => Alone'
<1> SUFFICES ASSUME Typed, Alone, [Next]_vars, NEW x \in Node \ budget.apps
             PROVE  step'[x]["app"] = "done" /\ todo'[x]["app"] = {}
  BY BudgetKept DEF Alone
<1> DEFINE G == step'[x]["app"] = "done" /\ todo'[x]["app"] = {}
<1>0. step[x]["app"] = "done" /\ todo[x]["app"] = {} /\ "app" \in Thread /\ "main" \in Thread
  BY DEF Alone, Thread
<1>1. ASSUME UNCHANGED <<step, todo>>
      PROVE  G
  BY <1>0, <1>1
<1>2. ASSUME NEW n \in Node, Initial(n) \/ Teardown(n) \/ MainLoopEnds(n) \/ BeginCloseAll(n)
                             \/ AskAndJoin(n) \/ EndCloseAll(n) \/ ClientUpdate(n)
      PROVE  G
  <2>1. UNCHANGED <<step, todo>>
    BY <1>2 DEF Initial, Teardown, MainLoopEnds, BeginCloseAll, AskAndJoin, EndCloseAll, ClientUpdate, threads
  <2> QED
    BY <1>1, <2>1
<1>3. ASSUME NEW e \in End, Connected(e) \/ Unjam(e) \/ Leave(e) \/ KeyList(e) \/ Jam(e)
      PROVE  G
  <2>1. UNCHANGED <<step, todo>>
    BY <1>3 DEF Connected, Unjam, Leave, KeyList, Jam, threads
  <2> QED
    BY <1>1, <2>1
<1>4. ASSUME NEW l \in Link, Loss(l)
      PROVE  G
  <2>1. UNCHANGED <<step, todo>>
    BY <1>4 DEF Loss, threads
  <2> QED
    BY <1>1, <2>1
<1>5. ASSUME NEW n \in Node, RequestTeardown(n) \/ Get(n) \/ Search(n) \/ Answered(n) \/ Finish(n)
      PROVE  G
  <2>1. /\ step[n]["app"] \in {"idle", "search", "wait"} /\ UNCHANGED todo
        /\ UNCHANGED step \/ \E s \in Place : Goto(n, "app", s)
    <3>1. CASE RequestTeardown(n) \/ Get(n) \/ Finish(n)
      BY <3>1 DEF RequestTeardown, Get, Finish, Place
    <3>2. CASE Search(n)
      BY <3>2, SearchOutcomes DEF Place
    <3>3. CASE Answered(n)
      BY <3>3 DEF Answered, Held, Place
    <3> QED
      BY <1>5, <3>1, <3>2, <3>3
  <2>2. n # x
    BY <1>0, <2>1
  <2>3. step'[x] = step[x]
    BY <2>1, <2>2 DEF Goto, Typed
  <2> QED
    BY <1>0, <2>1, <2>3
<1>6. ASSUME NEW n \in Node, Accept(n)
      PROVE  G
  <2>1. UNCHANGED todo /\ Goto(n, "main", "clean") /\ "clean" \in Place
    BY <1>6 DEF Accept, Place
  <2>2. step'[x]["app"] = step[x]["app"]
    BY <1>0, <2>1, GotoProperties
  <2> QED
    BY <1>0, <2>1, <2>2
<1>7. ASSUME NEW n \in Node, NEW t \in Thread, step[n][t] \in {"clean", "check", "connect"}
      PROVE  n # x \/ t = "main"
  BY <1>0, <1>7 DEF Thread
<1>8. ASSUME NEW n \in Node, NEW t \in Thread, CleanUp(n, t)
      PROVE  G
  <2>1. UNCHANGED todo /\ Goto(n, t, "check") /\ "check" \in Place /\ step[n][t] = "clean"
    BY <1>8 DEF CleanUp, Place
  <2>2. step'[x]["app"] = step[x]["app"]
    BY <1>0, <1>7, <2>1, GotoProperties
  <2> QED
    BY <1>0, <2>1, <2>2
<1>9. ASSUME NEW n \in Node, NEW t \in Thread, CheckUpdates(n, t)
      PROVE  G
  <2>1. PICK p, ms : /\ p = (IF todo'[n][t] = {} THEN Again(t) ELSE "connect")
                     /\ ms = {m \in listed[n] : \A e \in ToSet(conns[n]) : Other(e) # m}
    OBVIOUS
  <2>2. p \in Place
    BY <2>1 DEF Again, Place
  <2>3. Goto(n, t, p) /\ step[n][t] = "check"
    BY <1>9, <2>1, Zenon DEF CheckUpdates, Goto
  <2>4. todo' = [todo EXCEPT ![n][t] = ms]
    BY <1>9, <2>1, Zenon DEF CheckUpdates
  <2>5. n # x \/ t = "main"
    BY <1>7, <2>3
  <2>6. step'[x]["app"] = step[x]["app"]
    BY <1>0, <2>2, <2>3, <2>5, GotoProperties
  <2>7. todo'[x]["app"] = todo[x]["app"]
    BY <1>0, <2>4, <2>5 DEF Typed
  <2> QED
    BY <1>0, <2>6, <2>7
<1>10. ASSUME NEW n \in Node, NEW t \in Thread, Connect(n, t)
       PROVE  G
  <2>1. PICK m \in Node, l \in Link : Opens(n, t, m, l)
    BY <1>10, ConnectProperties
  <2>2. n # x \/ t = "main"
    BY <1>7, <1>10 DEF Connect
  <2>3. step'[x]["app"] = step[x]["app"]
    BY <1>0, <2>1, <2>2 DEF Opens
  <2>4. todo'[x]["app"] = todo[x]["app"]
    BY <1>0, <2>1, <2>2 DEF Opens, Typed
  <2> QED
    BY <1>0, <2>3, <2>4
<1>11. UNCHANGED vars => UNCHANGED <<step, todo>>
  BY DEF vars, threads
<1> HIDE DEF G
<1>12. G
  BY <1>1, <1>2, <1>3, <1>4, <1>5, <1>6, <1>8, <1>9, <1>10, <1>11, NextSpelled
<1> QED
  BY <1>12 DEF G

----------------------------------------------------------------------------
(* How many connections to a client there are, and are about to be. *)

(* The connections cs whose Other is m, and the threads about to open one. *)
ConnsTo(cs, t, m) == {e \in ToSet(cs) : OtherIn(t, e) = m}
Finders(td, m) == {u \in Thread : m \in td[u]}
Limit(n) == IF n \in budget.apps THEN 2 ELSE 1

Bounded ==
  \A n, m \in Node :
    Cardinality(ConnsTo(conns[n], to, m)) + Cardinality(Finders(todo[n], m)) <= Limit(n)

(* Bounded is the property with the count of threads spelled out.           *)
LEMMA BoundedIsDuplicatesBounded == Bounded <=> DuplicatesBounded
<1>1. \A n, m \in Node : ConnsTo(conns[n], to, m) = {e \in ToSet(conns[n]) : Other(e) = m}
  BY DEF ConnsTo, Other, OtherIn
<1>2. \A n, m \in Node : Finders(todo[n], m) = {u \in Thread : m \in todo[n][u]}
  BY DEF Finders
<1> QED
  BY <1>1, <1>2, Zenon DEF Bounded, DuplicatesBounded, Limit

(* At most the two threads of a client look for connections, and one if     *)
(* only one has the peer on its list.                                       *)
LEMMA FindersFew ==
  ASSUME NEW td, NEW m
  PROVE  /\ IsFiniteSet(Finders(td, m)) /\ Cardinality(Finders(td, m)) \in Nat
         /\ Cardinality(Finders(td, m)) <= 2
         /\ m \notin td["app"] => Cardinality(Finders(td, m)) <= 1
<1>1. IsFiniteSet({"main"}) /\ Cardinality({"main"}) = 1
  BY FS_Singleton
<1>2. IsFiniteSet({"main"} \cup {"app"}) /\ Cardinality({"main"} \cup {"app"}) = 2
  <2>1. Cardinality({"main"} \cup {"app"}) = Cardinality({"main"}) + 1
    BY <1>1, FS_AddElement
  <2> QED
    BY <1>1, <2>1, FS_AddElement
<1>3. Finders(td, m) \subseteq {"main"} \cup {"app"}
  BY DEF Finders, Thread
<1>4. IsFiniteSet(Finders(td, m)) /\ Cardinality(Finders(td, m)) <= 2
  BY <1>2, <1>3, FS_Subset
<1>5. Cardinality(Finders(td, m)) \in Nat
  BY <1>4, FS_CardinalityType
<1>6. ASSUME m \notin td["app"]
      PROVE  Cardinality(Finders(td, m)) <= 1
  <2>1. Finders(td, m) \subseteq {"main"}
    BY <1>6 DEF Finders, Thread
  <2> QED
    BY <1>1, <2>1, FS_Subset
<1> QED
  BY <1>4, <1>5, <1>6

(* A client has finitely many connections to another one.                   *)
LEMMA ConnsToFinite ==
  ASSUME Typed, NEW n \in Node, NEW m
  PROVE  IsFiniteSet(ConnsTo(conns[n], to, m)) /\ Cardinality(ConnsTo(conns[n], to, m)) \in Nat
<1>1. conns[n] \in Seq(End)
  BY DEF Typed
<1>2. IsFiniteSet(ToSet(conns[n]))
  BY <1>1, ToSetType
<1>3. ConnsTo(conns[n], to, m) \subseteq ToSet(conns[n])
  BY DEF ConnsTo
<1>4. IsFiniteSet(ConnsTo(conns[n], to, m))
  BY <1>2, <1>3, FS_Subset
<1> QED
  BY <1>4, FS_CardinalityType

(* Fewer connections and no more threads, or the other way round.          *)
LEMMA Fewer ==
  ASSUME NEW C, NEW F, NEW D, NEW H, IsFiniteSet(C), IsFiniteSet(F), NEW k \in Nat,
         Cardinality(C) + Cardinality(F) <= k, D \subseteq C, H \subseteq F
  PROVE  Cardinality(D) + Cardinality(H) <= k
<1>1. IsFiniteSet(D) /\ Cardinality(D) <= Cardinality(C)
  BY FS_Subset
<1>2. IsFiniteSet(H) /\ Cardinality(H) <= Cardinality(F)
  BY FS_Subset
<1>3. Cardinality(C) \in Nat /\ Cardinality(D) \in Nat /\ Cardinality(F) \in Nat /\ Cardinality(H) \in Nat
  BY <1>1, <1>2, FS_CardinalityType
<1> QED
  BY <1>1, <1>2, <1>3

(* A thread that was about to open a connection has opened it.             *)
LEMMA OneForOne ==
  ASSUME NEW C, NEW F, IsFiniteSet(C), IsFiniteSet(F), NEW c, NEW f \in F, NEW k \in Nat,
         Cardinality(C) + Cardinality(F) <= k
  PROVE  Cardinality(C \cup {c}) + Cardinality(F \ {f}) <= k
<1>1. Cardinality(C \cup {c}) <= Cardinality(C) + 1 /\ IsFiniteSet(C \cup {c})
  <2>1. CASE c \in C
    <3>1. C \cup {c} = C
      BY <2>1
    <3>2. Cardinality(C) \in Nat
      BY FS_CardinalityType
    <3> QED
      BY <3>1, <3>2
  <2>2. CASE c \notin C
    <3>1. Cardinality(C \cup {c}) = Cardinality(C) + 1 /\ IsFiniteSet(C \cup {c})
      BY <2>2, FS_AddElement
    <3>2. Cardinality(C) \in Nat
      BY FS_CardinalityType
    <3> QED
      BY <3>1, <3>2
  <2> QED
    BY <2>1, <2>2
<1>2. Cardinality(F \ {f}) = Cardinality(F) - 1 /\ IsFiniteSet(F \ {f})
  BY FS_RemoveElement
<1>3. Cardinality(C) \in Nat /\ Cardinality(F) \in Nat /\ Cardinality(C \cup {c}) \in Nat
      /\ Cardinality(F \ {f}) \in Nat
  BY <1>1, <1>2, FS_CardinalityType
<1> QED
  BY <1>1, <1>2, <1>3


(* Every step keeps the bound: what a thread opens it had been counted for, *)
(* and CheckUpdates counts a peer only if nothing leads to it.              *)
LEMMA BoundedStep == Typed /\ Wired /\ Alone /\ Bounded /\ [Next]_vars => Bounded'
<1> SUFFICES ASSUME Typed, Wired, Alone, Bounded, [Next]_vars, NEW n \in Node, NEW m \in Node
             PROVE  Cardinality(ConnsTo(conns'[n], to', m)) + Cardinality(Finders(todo'[n], m)) <= Limit(n)
  BY BudgetKept DEF Bounded, Limit
<1> DEFINE C == ConnsTo(conns[n], to, m)
           F == Finders(todo[n], m)
           D == ConnsTo(conns'[n], to', m)
           H == Finders(todo'[n], m)
           G == Cardinality(D) + Cardinality(H) <= Limit(n)
<1>1. /\ IsFiniteSet(C) /\ IsFiniteSet(F) /\ Limit(n) \in Nat
      /\ Cardinality(C) + Cardinality(F) <= Limit(n)
  BY ConnsToFinite, FindersFew DEF Bounded, Limit
<1>2. LinksTyped /\ \A x \in Node : ToSet(conns[x]) \subseteq End
  BY ConnsInEnds DEF Typed
<1>3. UNCHANGED todo => H = F
  OBVIOUS
<1>4. UNCHANGED <<conns, to>> => D = C
  OBVIOUS
<1>5. ASSUME D \subseteq C, H \subseteq F
      PROVE  G
  <2> HIDE DEF C, F, D, H
  <2> QED
    BY <1>1, <1>5, Fewer
<1>6. ASSUME NEW x \in Node, NEW t \in Thread, CheckUpdates(x, t), UNCHANGED <<conns, to>>
      PROVE  G
  <2>1. PICK ms : ms = {y \in listed[x] : \A e \in ToSet(conns[x]) : Other(e) # y}
    OBVIOUS
  <2>2. todo' = [todo EXCEPT ![x][t] = ms] /\ step[x][t] = "check"
    BY <1>6, <2>1, Zenon DEF CheckUpdates
  <2>3. todo'[x][t] = ms /\ \A y \in Node, u \in Thread : <<y, u>> # <<x, t>> => todo'[y][u] = todo[y][u]
    BY <2>2 DEF Typed
  <2>4. CASE n = x /\ m \in ms
    <3>1. C = {}
      BY <2>1, <2>4 DEF ConnsTo, Other, OtherIn
    <3>2. D = {}
      BY <1>4, <1>6, <3>1
    <3>3. Cardinality(D) = 0
      BY <3>2, FS_EmptySet
    <3>4. ASSUME n \notin budget.apps
          PROVE  m \notin todo'[n]["app"]
      <4>1. step[n]["app"] = "done" /\ todo[n]["app"] = {} /\ "app" \in Thread
        BY <3>4 DEF Alone, Thread
      <4>2. t # "app"
        BY <2>2, <2>4, <4>1
      <4> QED
        BY <2>3, <2>4, <4>1, <4>2
    <3> HIDE DEF D
    <3>5. PICK td : td = todo'[n]
      OBVIOUS
    <3>6. /\ Cardinality(Finders(td, m)) \in Nat /\ Cardinality(Finders(td, m)) <= 2
          /\ m \notin td["app"] => Cardinality(Finders(td, m)) <= 1
      BY FindersFew
    <3>7. Cardinality(H) <= Limit(n) /\ Cardinality(H) \in Nat
      BY <3>4, <3>5, <3>6 DEF Limit
    <3> QED
      BY <3>3, <3>7
  <2>5. CASE ~(n = x /\ m \in ms)
    <3>1. H \subseteq F
      BY <2>3, <2>5 DEF Finders
    <3>2. D \subseteq C
      BY <1>4, <1>6
    <3> QED
      BY <1>5, <3>1, <3>2
  <2> QED
    BY <2>4, <2>5
<1>7. ASSUME NEW es, Prunes(es), UNCHANGED todo
      PROVE  G
  <2>1. /\ \A e \in End : worker'[e] # "none" =>
              /\ from'[e[1]] = from[e[1]] /\ to'[e[1]] = to[e[1]]
              /\ worker'[e] = IF e \in es THEN "closed" ELSE worker[e]
        /\ \A e \in End : e \notin es /\ worker[e] \notin {"none", "closed"} => worker'[e] = worker[e]
    BY <1>2, <1>7, CloseProperties DEF Prunes
  <2>2. ASSUME NEW e \in D
        PROVE  e \in C
    <3>1. e \in ToSet(conns'[n]) /\ OtherIn(to', e) = m
      BY DEF ConnsTo
    <3>2. e \in ToSet(conns[n]) /\ e \notin es
      BY <1>7, <3>1 DEF Prunes
    <3>3. e \in End /\ worker[e] \notin {"none", "closed"}
      BY <1>2, <3>2 DEF Wired, ConnsWired
    <3>4. to'[e[1]] = to[e[1]]
      BY <2>1, <3>2, <3>3
    <3> QED
      BY <3>1, <3>2, <3>4 DEF ConnsTo, OtherIn
  <2>3. D \subseteq C
    BY <2>2
  <2> QED
    BY <1>3, <1>5, <1>7, <2>3
<1>8. ASSUME NEW e \in End, Connected(e) \/ Unjam(e) \/ Leave(e) \/ Jam(e), UNCHANGED todo
      PROVE  G
  <2>1. UNCHANGED <<conns, to>>
    BY <1>8 DEF Connected, Unjam, Leave, Jam
  <2> QED
    BY <1>3, <1>4, <1>5, <1>8, <2>1
<1>9. ASSUME NEW x \in Node, Accept(x), UNCHANGED todo
      PROVE  G
  <2>1. CASE UNCHANGED <<from, to, worker, conns>>
    BY <1>3, <1>4, <1>5, <1>9, <2>1
  <2>2. ASSUME NEW e \in End,
               worker[e] = "backlog",
               ToSet(conns'[x]) = ToSet(conns[x]) \cup {e},
               \A y \in Node : y # x => conns'[y] = conns[y],
               to' = to
        PROVE  G
    <3>1. e[2] = "in" /\ e \notin Node
      BY <2>2, MeshAssumption DEF Wired, EndsWired, End
    <3>2. OtherIn(to, e) # m
      BY <3>1 DEF OtherIn
    <3>3. D \subseteq C
      BY <2>2, <3>2 DEF ConnsTo
    <3> QED
      BY <1>3, <1>5, <1>9, <3>3
  <2> HIDE DEF G
  <2> QED
    BY <1>9, <2>1, <2>2, AcceptProperties
<1>10. ASSUME NEW x \in Node, NEW t \in Thread, Connect(x, t)
       PROVE  G
  <2>1. PICK y \in Node, l \in Link : Opens(x, t, y, l)
    BY <1>10, ConnectProperties
  <2>2. PICK e : e = <<l, "out">>
    OBVIOUS
  <2>3. /\ y \in todo[x][t] /\ from[l] = None /\ to' = [to EXCEPT ![l] = y]
        /\ ToSet(conns'[x]) = ToSet(conns[x]) \cup {e}
        /\ \A z \in Node : z # x => conns'[z] = conns[z]
        /\ todo' = [todo EXCEPT ![x][t] = @ \ {y}]
    BY <2>1, <2>2, Zenon DEF Opens
  <2>4. e \in End /\ e[1] = l /\ e[2] = "out"
    BY <2>2, LinkEnds
  <2>5. to'[l] = y /\ \A k \in Link : k # l => to'[k] = to[k]
    BY <1>2, <2>3 DEF LinksTyped
  <2>6. ASSUME NEW z \in ToSet(conns[n])
        PROVE  OtherIn(to', z) = OtherIn(to, z)
    <3>1. z \in End /\ worker[z] # "none"
      BY <1>2 DEF Wired, ConnsWired
    <3>2. from[z[1]] # None /\ z[1] \in Link
      BY <3>1, EndForm DEF Wired, EndsWired
    <3> QED
      BY <2>3, <2>5, <3>2 DEF OtherIn
  <2>7. OtherIn(to', e) = y
    BY <2>4, <2>5 DEF OtherIn
  <2>8. todo'[x][t] = todo[x][t] \ {y}
        /\ \A z \in Node, u \in Thread : <<z, u>> # <<x, t>> => todo'[z][u] = todo[z][u]
    BY <2>3 DEF Typed
  <2>9. CASE n = x /\ m = y
    <3>1. D = C \cup {e}
      BY <2>3, <2>6, <2>7, <2>9 DEF ConnsTo
    <3>2. H = F \ {t}
      BY <2>8, <2>9 DEF Finders
    <3>3. t \in F
      BY <2>3, <2>9 DEF Finders
    <3> HIDE DEF C, F, D, H
    <3>4. Cardinality(C \cup {e}) + Cardinality(F \ {t}) <= Limit(n)
      BY <1>1, <3>3, OneForOne
    <3> QED
      BY <3>1, <3>2, <3>4
  <2>10. CASE n # x \/ m # y
    <3>1. D \subseteq C
      BY <2>3, <2>6, <2>7, <2>10 DEF ConnsTo
    <3>2. H \subseteq F
      BY <2>8, <2>10 DEF Finders
    <3> QED
      BY <1>5, <3>1, <3>2
  <2> QED
    BY <2>9, <2>10
<1>11. ASSUME UNCHANGED <<from, to, worker, conns, todo>>
       PROVE  G
  BY <1>3, <1>4, <1>5, <1>11
<1> HIDE DEF G
<1>12. G
  <2>1. UNCHANGED <<from, to, worker, conns>> => UNCHANGED <<conns, to>>
    OBVIOUS
  <2> QED
    BY <1>6, <1>7, <1>8, <1>9, <1>10, <1>11, <2>1, LinkSteps
<1> QED
  BY <1>12 DEF G

----------------------------------------------------------------------------

(* No client has a connection at first.                                     *)
LEMMA InitWired == Init => Typed /\ Wired /\ Alone /\ Bounded
<1> SUFFICES ASSUME Init
             PROVE  Typed /\ Wired /\ Alone /\ Bounded
  OBVIOUS
<1>1. <<>> \in Seq(End) /\ ToSet(<<>>) = {}
  BY EmptySeq DEF ToSet
<1>2. Typed
  BY <1>1 DEF Init, Typed, LinksTyped, Doing, Life, Place
<1>3. \A n \in Node : ToSet(conns[n]) = {}
  BY <1>1 DEF Init
<1>4. LinksWired(from, to) /\ EndsWired(from, worker) /\ ConnsWired(from, to, worker, conns)
  <2>1. LinksWired(from, to)
    BY DEF Init, LinksWired
  <2>2. EndsWired(from, worker)
    BY DEF Init, EndsWired
  <2>3. ConnsWired(from, to, worker, conns)
    BY <1>3 DEF ConnsWired
  <2> QED
    BY <2>1, <2>2, <2>3
<1>5. Alone
  BY DEF Init, Alone, Thread
<1>6. ASSUME NEW n \in Node, NEW m \in Node
      PROVE  Cardinality(ConnsTo(conns[n], to, m)) + Cardinality(Finders(todo[n], m)) <= Limit(n)
  <2>1. ConnsTo(conns[n], to, m) = {}
    BY <1>3 DEF ConnsTo
  <2>2. Finders(todo[n], m) = {}
    BY DEF Init, Finders
  <2>3. Cardinality({}) = 0
    BY FS_EmptySet
  <2> QED
    BY <2>1, <2>2, <2>3 DEF Limit
<1> QED
  BY <1>2, <1>4, <1>5, <1>6 DEF Wired, Bounded

(* The connections of a client belong to it and are open.                  *)
LEMMA AlwaysWired == Spec => [](Typed /\ Wired /\ Alone)
<1>1. Init => Typed /\ Wired /\ Alone
  BY InitWired
<1>2. Typed /\ Wired /\ Alone /\ [Next]_vars => (Typed /\ Wired /\ Alone)'
  BY TypedStep, WiredStep, AloneStep
<1> QED
  BY <1>1, <1>2, PTL DEF Spec

(* However the threads that look for missing connections interleave and    *)
(* whatever is lost, a client has, or is about to open, at most one        *)
(* connection per such thread to another (client.cpp:111-124).             *)
THEOREM DuplicatesAlwaysBounded == Spec => []DuplicatesBounded
<1>1. Init => Bounded
  BY InitWired
<1>2. Typed /\ Wired /\ Alone /\ Bounded /\ [Next]_vars => Bounded'
  BY BoundedStep
<1>3. Bounded => DuplicatesBounded
  BY BoundedIsDuplicatesBounded
<1> QED
  BY <1>1, <1>2, <1>3, AlwaysWired, PTL DEF Spec


----------------------------------------------------------------------------
(* While nothing is lost and nobody has ended, no connection ends by       *)
(* itself: only a client in close_all has workers that have finished.      *)

Undisturbed == losses = 0 /\ \A n \in Node : ~Ended(n)

(* Each open end has a peer that exists, and none is closed.               *)
Quiet(f, t, w, md) ==
  \A e \in End :
    /\ w[e] # "closed"
    /\ w[e] = "finished" => md[AtIn(f, t, e)] = "closing"
    /\ w[e] \in {"run", "stuck", "backlog"} => w[Peer(e)] # "none"

Calm ==
  /\ \A n \in Node : closing[n] > 0 => mode[n] \in {"closing", "exited", "crashed", "terminated"}
  /\ Undisturbed => broken = {} /\ Quiet(from, to, worker, mode)

(* A client belongs to the end its links name.                             *)
LEMMA AtIsNode ==
  ASSUME Typed, Wired, NEW e \in End, worker[e] # "none"
  PROVE  /\ At(e) = AtIn(from, to, e) /\ AtIn(from, to, e) \in Node
         /\ from[e[1]] \in Node /\ to[e[1]] \in Node
<1>1. e[1] \in Link /\ from[e[1]] # None
  BY EndForm DEF Wired, EndsWired
<1>2. from[e[1]] \in Node /\ to[e[1]] \in Node
  BY <1>1 DEF Typed, LinksTyped, Wired, LinksWired
<1> QED
  BY <1>2 DEF At, AtIn

(* Ended is for good, and losses are never forgotten.                      *)
LEMMA EndedForGood ==
  ASSUME Typed, [Next]_vars
  PROVE  /\ losses' = 0 => losses = 0
         /\ \A n \in Node : mode[n] \in {"exited", "crashed", "terminated"} => mode'[n] = mode[n]
         /\ \A n \in Node : mode[n] = "closing" =>
              mode'[n] \in {"closing", "exited", "crashed", "terminated"}
         /\ \A n \in Node : mode'[n] = "terminated" /\ mode[n] # "terminated" => BeginCloseAll(n)
<1> DEFINE Keep(x) == /\ mode[x] \in {"exited", "crashed", "terminated"} => mode'[x] = mode[x]
                      /\ mode[x] = "closing" => mode'[x] \in {"closing", "exited", "crashed", "terminated"}
                      /\ mode'[x] = "terminated" /\ mode[x] # "terminated" => BeginCloseAll(x)
           G == /\ losses' = 0 => losses = 0
                /\ \A x \in Node : Keep(x)
<1>1. ASSUME UNCHANGED <<mode, losses>>
      PROVE  G
  BY <1>1
<1>2. ASSUME NEW n \in Node, NEW how \in Life, UNCHANGED losses, mode' = [mode EXCEPT ![n] = how],
             mode[n] \in {"listening", "main", "over"}, how = "terminated" => BeginCloseAll(n)
      PROVE  G
  BY <1>2 DEF Typed
<1>3. ASSUME NEW n \in Node, Initial(n) \/ MainLoopEnds(n)
      PROVE  G
  <2>1. UNCHANGED losses /\ (mode[n] = "listening" \/ mode[n] = "main")
        /\ \E how \in {"main", "over"} : mode' = [mode EXCEPT ![n] = how]
    BY <1>3 DEF Initial, MainLoopEnds, links
  <2> QED
    BY <1>2, <2>1 DEF Life
<1>4. ASSUME NEW n \in Node, BeginCloseAll(n)
      PROVE  G
  <2>1. UNCHANGED losses /\ mode[n] = "over"
        /\ \E how \in {"terminated", "closing"} : mode' = [mode EXCEPT ![n] = how]
    BY <1>4 DEF BeginCloseAll, Die
  <2> QED
    BY <1>2, <1>4, <2>1 DEF Life
<1>5. ASSUME NEW n \in Node, RequestTeardown(n)
      PROVE  G
  <2>1. UNCHANGED losses /\ mode[n] \in {"listening", "main"}
        /\ (mode' = mode \/ mode' = [mode EXCEPT ![n] = "crashed"])
    BY <1>5 DEF RequestTeardown, Die
  <2> QED
    BY <1>1, <1>2, <2>1 DEF Life
<1>6. ASSUME NEW n \in Node, EndCloseAll(n)
      PROVE  G
  <2>1. UNCHANGED losses /\ mode[n] = "closing" /\ mode' = [mode EXCEPT ![n] = "exited"]
    BY <1>6 DEF EndCloseAll, Die
  <2> QED
    BY <2>1 DEF Typed
<1>7. ASSUME NEW l \in Link, Loss(l)
      PROVE  G
  <2>1. UNCHANGED mode /\ losses' = losses + 1 /\ losses \in Nat
    BY <1>7 DEF Loss, life, Typed
  <2> QED
    BY <2>1
<1>8. ASSUME NEW n \in Node, Teardown(n) \/ AskAndJoin(n) \/ ClientUpdate(n)
                             \/ Accept(n) \/ Get(n) \/ Answered(n) \/ Finish(n)
      PROVE  G
  <2>1. UNCHANGED <<mode, losses>>
    BY <1>8 DEF Teardown, AskAndJoin, ClientUpdate, Accept, Get, Answered, Finish, life, links
  <2> QED
    BY <1>1, <2>1
<1>9. ASSUME NEW n \in Node, NEW t \in Thread, CleanUp(n, t) \/ CheckUpdates(n, t) \/ Connect(n, t)
      PROVE  G
  <2>1. UNCHANGED <<mode, losses>>
    BY <1>9 DEF CleanUp, CheckUpdates, Connect, life, links
  <2> QED
    BY <1>1, <2>1
<1>10. ASSUME NEW e \in End, Connected(e) \/ Unjam(e) \/ Leave(e) \/ KeyList(e) \/ Jam(e)
       PROVE  G
  <2>1. UNCHANGED <<mode, losses>>
    BY <1>10 DEF Connected, Unjam, Leave, KeyList, Jam, life, links
  <2> QED
    BY <1>1, <2>1
<1>11. ASSUME UNCHANGED vars
       PROVE  G
  BY <1>1, <1>11 DEF vars, life, links
<1>12. ASSUME NEW n \in Node, Search(n)
       PROVE  G
  <2>1. UNCHANGED losses /\ mode[n] \in {"main", "over"}
        /\ (mode' = mode \/ mode' = [mode EXCEPT ![n] = "crashed"])
    BY <1>12, SearchOutcomes DEF Die
  <2> QED
    BY <1>1, <1>2, <2>1 DEF Life
<1> HIDE DEF G
<1>13. G
  BY <1>3, <1>4, <1>5, <1>6, <1>7, <1>8, <1>9, <1>10, <1>11, <1>12, NextSpelled
<1> QED
  BY <1>13 DEF G


(* close_all joins only after the main loop.                                *)
LEMMA ClosingStep ==
  ASSUME Typed, [Next]_vars, NEW x \in Node, closing'[x] > 0
  PROVE  closing[x] > 0 \/ mode[x] = "closing"
<1> DEFINE G == closing[x] > 0 \/ mode[x] = "closing"
<1>1. ASSUME UNCHANGED closing
      PROVE  G
  BY <1>1
<1>2. ASSUME NEW n \in Node, NEW how \in {"exited", "crashed", "terminated"}, Die(n, how)
      PROVE  G
  <2>1. closing' = [closing EXCEPT ![n] = 0]
    BY <1>2 DEF Die
  <2> QED
    BY <2>1 DEF Typed
<1>3. ASSUME NEW n \in Node, AskAndJoin(n)
      PROVE  G
  <2>1. mode[n] = "closing" /\ closing' = [closing EXCEPT ![n] = @ + 1]
    BY <1>3 DEF AskAndJoin
  <2> QED
    BY <2>1 DEF Typed
<1>4. ASSUME NEW n \in Node, BeginCloseAll(n) \/ EndCloseAll(n) \/ RequestTeardown(n) \/ Search(n)
      PROVE  G
  <2>1. UNCHANGED closing \/ Die(n, "terminated") \/ Die(n, "exited") \/ Die(n, "crashed")
    BY <1>4, SearchOutcomes DEF BeginCloseAll, EndCloseAll, RequestTeardown
  <2> QED
    BY <1>1, <1>2, <2>1
<1>5. ASSUME NEW n \in Node, Initial(n) \/ Teardown(n) \/ MainLoopEnds(n) \/ ClientUpdate(n)
                             \/ Accept(n) \/ Get(n) \/ Answered(n) \/ Finish(n)
      PROVE  G
  <2>1. UNCHANGED closing
    BY <1>5 DEF Initial, Teardown, MainLoopEnds, ClientUpdate, Accept, Get, Answered, Finish
  <2> QED
    BY <1>1, <2>1
<1>6. ASSUME NEW n \in Node, NEW t \in Thread, CleanUp(n, t) \/ CheckUpdates(n, t) \/ Connect(n, t)
      PROVE  G
  <2>1. UNCHANGED closing
    BY <1>6 DEF CleanUp, CheckUpdates, Connect
  <2> QED
    BY <1>1, <2>1
<1>7. ASSUME NEW e \in End, Connected(e) \/ Unjam(e) \/ Leave(e) \/ KeyList(e) \/ Jam(e)
      PROVE  G
  <2>1. UNCHANGED closing
    BY <1>7 DEF Connected, Unjam, Leave, KeyList, Jam
  <2> QED
    BY <1>1, <2>1
<1>8. ASSUME NEW l \in Link, Loss(l)
      PROVE  G
  BY <1>1, <1>8 DEF Loss
<1>9. UNCHANGED vars => UNCHANGED closing
  BY DEF vars
<1> HIDE DEF G
<1>10. G
  BY <1>1, <1>3, <1>4, <1>5, <1>6, <1>7, <1>8, <1>9, NextSpelled
<1> QED
  BY <1>10 DEF G

(* Every step leaves who ends first undisturbed.                            *)
LEMMA CalmStep == Typed /\ Wired /\ Calm /\ [Next]_vars => Calm'
<1> SUFFICES ASSUME Typed, Wired, Calm, [Next]_vars
             PROVE  Calm'
  OBVIOUS
<1>0. LinksTyped
  BY Zenon DEF Typed
<1>1. ASSUME NEW x \in Node, closing'[x] > 0
      PROVE  mode'[x] \in {"closing", "exited", "crashed", "terminated"}
  <2>1. mode[x] \in {"closing", "exited", "crashed", "terminated"}
    BY <1>1, ClosingStep DEF Calm
  <2> QED
    BY <2>1, EndedForGood
<1>2. SUFFICES ASSUME losses' = 0, \A n \in Node : mode'[n] \notin {"exited", "crashed", "terminated"}
               PROVE  broken' = {} /\ Quiet(from', to', worker', mode')
  BY <1>1 DEF Calm, Undisturbed, Ended
<1> DEFINE G == broken' = {} /\ Quiet(from', to', worker', mode')
<1>3. losses = 0 /\ \A n \in Node : ~Ended(n)
  BY <1>2, EndedForGood DEF Ended
<1>4. /\ broken = {} /\ Quiet(from, to, worker, mode)
      /\ \A n \in Node : closing[n] > 0 => mode[n] = "closing"
  BY <1>3 DEF Calm, Undisturbed, Ended
<1>5. \A n \in Node : mode[n] = "closing" => mode'[n] = "closing"
  BY <1>2, EndedForGood
<1>6. ASSUME NEW e \in End, worker[e] = "finished", AtIn(from', to', e) = AtIn(from, to, e)
      PROVE  mode'[AtIn(from', to', e)] = "closing"
  <2>1. AtIn(from, to, e) \in Node /\ mode[AtIn(from, to, e)] = "closing"
    BY <1>4, <1>6, AtIsNode DEF Quiet
  <2> QED
    BY <1>5, <1>6, <2>1
<1>7. ASSUME UNCHANGED <<from, to, worker, broken>>
      PROVE  G
  BY <1>4, <1>6, <1>7 DEF Quiet
<1>8. ASSUME NEW n \in Node, NEW how \in {"exited", "crashed", "terminated"}, Die(n, how)
      PROVE  FALSE
  <2>1. mode'[n] = how
    BY <1>8 DEF Die, Typed
  <2> QED
    BY <1>2, <2>1
<1>9. ASSUME NEW n \in Node, BeginCloseAll(n) \/ EndCloseAll(n) \/ RequestTeardown(n) \/ Search(n)
      PROVE  G
  <2>1. UNCHANGED <<from, to, worker, broken>>
        \/ Die(n, "terminated") \/ Die(n, "exited") \/ Die(n, "crashed")
    BY <1>9, SearchOutcomes DEF BeginCloseAll, EndCloseAll, RequestTeardown, links
  <2> QED
    BY <1>7, <1>8, <2>1
<1>10. ASSUME NEW n \in Node, Initial(n) \/ Teardown(n) \/ MainLoopEnds(n) \/ AskAndJoin(n)
                              \/ ClientUpdate(n) \/ Get(n) \/ Answered(n) \/ Finish(n)
       PROVE  G
  <2>1. UNCHANGED <<from, to, worker, broken>>
    BY <1>10 DEF Initial, Teardown, MainLoopEnds, AskAndJoin, ClientUpdate, Get, Answered, Finish, links
  <2> QED
    BY <1>7, <2>1
<1>11. ASSUME NEW n \in Node, NEW t \in Thread, CheckUpdates(n, t)
       PROVE  G
  <2>1. UNCHANGED <<from, to, worker, broken>>
    BY <1>11 DEF CheckUpdates, links
  <2> QED
    BY <1>7, <2>1
<1>12. ASSUME NEW e \in End, KeyList(e)
       PROVE  G
  <2>1. UNCHANGED <<from, to, worker, broken>>
    BY <1>12 DEF KeyList, links
  <2> QED
    BY <1>7, <2>1
<1>13. ASSUME NEW l \in Link, Loss(l)
       PROVE  G
  <2>1. losses' = losses + 1
    BY <1>13 DEF Loss
  <2> QED
    BY <1>2, <1>3, <2>1
<1>14. ASSUME NEW n \in Node, NEW t \in Thread, CleanUp(n, t)
       PROVE  G
  <2>1. mode[n] \in {"main", "over"}
    BY <1>14 DEF CleanUp, Active
  <2>2. PICK done, es : /\ \A e : e \in done <=> e \in ToSet(conns[n]) /\ worker[e] = "finished"
                        /\ es \subseteq done /\ Close(es)
    BY <1>14, CleanUpProperties, Zenon
  <2>3. ASSUME NEW e \in es
        PROVE  FALSE
    <3>1. e \in ToSet(conns[n]) /\ worker[e] = "finished" /\ e \in End
      BY <2>2, ConnsInEnds
    <3>2. AtIn(from, to, e) = n
      BY <3>1 DEF Wired, ConnsWired
    <3> QED
      BY <1>4, <2>1, <3>1, <3>2 DEF Quiet
  <2>4. /\ broken' \subseteq broken
        /\ \A e \in End : worker'[e] # "none" =>
              /\ from'[e[1]] = from[e[1]] /\ to'[e[1]] = to[e[1]]
              /\ worker'[e] = IF e \in es THEN "closed" ELSE worker[e]
        /\ \A e \in End : e \notin es /\ worker[e] \notin {"none", "closed"} => worker'[e] = worker[e]
    BY <1>0, <2>2, CloseProperties
  <2>5. \A e \in End : worker'[e] = worker[e]
    BY <1>4, <2>3, <2>4 DEF Quiet
  <2>6. \A e \in End : worker[e] # "none" => AtIn(from', to', e) = AtIn(from, to, e)
    BY <2>4, <2>5 DEF AtIn
  <2>7. \A e \in End : Peer(e) \in End
    BY EndForm
  <2>8. Quiet(from', to', worker', mode')
    BY <1>4, <1>6, <2>5, <2>6, <2>7 DEF Quiet
  <2> QED
    BY <1>4, <2>4, <2>8
<1>15. ASSUME NEW n \in Node, Accept(n)
       PROVE  G
  <2>1. broken' = broken
    BY <1>15 DEF Accept
  <2>2. CASE UNCHANGED <<from, to, worker, conns>>
    BY <1>7, <2>1, <2>2
  <2>3. ASSUME NEW e \in End, worker[e] = "backlog", worker' = [worker EXCEPT ![e] = "run"],
               from' = from /\ to' = to
        PROVE  G
    <3>1. worker'[e] = "run" /\ \A x \in End : x # e => worker'[x] = worker[x]
      BY <1>0, <2>3 DEF LinksTyped
    <3>2. ASSUME NEW x \in End
          PROVE  /\ worker'[x] # "closed"
                 /\ worker'[x] = "finished" => mode'[AtIn(from', to', x)] = "closing"
                 /\ worker'[x] \in {"run", "stuck", "backlog"} => worker'[Peer(x)] # "none"
      <4>1. worker'[x] # "closed"
        BY <1>4, <3>1 DEF Quiet
      <4>2. worker'[x] = "finished" => mode'[AtIn(from', to', x)] = "closing"
        BY <1>6, <2>3, <3>1
      <4>3. worker'[x] \in {"run", "stuck", "backlog"} => worker[Peer(x)] # "none"
        BY <1>4, <2>3, <3>1 DEF Quiet
      <4>4. worker[Peer(x)] # "none" => worker'[Peer(x)] # "none"
        BY <3>1, EndForm
      <4> QED
        BY <4>1, <4>2, <4>3, <4>4
    <3> QED
      BY <1>4, <2>1, <3>2 DEF Quiet
  <2> HIDE DEF G
  <2> QED
    BY <1>15, <2>2, <2>3, AcceptProperties
<1>16. ASSUME NEW n \in Node, NEW t \in Thread, Connect(n, t)
       PROVE  G
  <2>1. PICK m \in Node, l \in Link : Opens(n, t, m, l)
    BY <1>16, ConnectProperties
  <2>2. PICK e : e = <<l, "out">>
    OBVIOUS
  <2>3. /\ from[l] = None /\ from' = [from EXCEPT ![l] = n] /\ to' = [to EXCEPT ![l] = m]
        /\ worker'[e] = "connect" /\ \A x \in End : x # e => worker'[x] = worker[x]
    BY <2>1, <2>2, Zenon DEF Opens
  <2>4. broken' = broken
    BY <1>16 DEF Connect
  <2>5. ASSUME NEW x \in End, worker[x] # "none"
        PROVE  AtIn(from', to', x) = AtIn(from, to, x)
    <3>1. x[1] # l /\ x[1] \in Link
      BY <2>3, <2>5, EndForm DEF Wired, EndsWired
    <3>2. from'[x[1]] = from[x[1]] /\ to'[x[1]] = to[x[1]]
      BY <1>0, <2>3, <3>1 DEF LinksTyped
    <3> QED
      BY <3>2 DEF AtIn
  <2>6. ASSUME NEW x \in End
        PROVE  /\ worker'[x] # "closed"
               /\ worker'[x] = "finished" => mode'[AtIn(from', to', x)] = "closing"
               /\ worker'[x] \in {"run", "stuck", "backlog"} => worker'[Peer(x)] # "none"
    <3>1. worker'[x] # "closed"
      BY <1>4, <2>3 DEF Quiet
    <3>2. worker'[x] = "finished" => mode'[AtIn(from', to', x)] = "closing"
      BY <1>6, <2>3, <2>5
    <3>3. worker'[x] \in {"run", "stuck", "backlog"} => worker[Peer(x)] # "none"
      BY <1>4, <2>3 DEF Quiet
    <3>4. worker[Peer(x)] # "none" => worker'[Peer(x)] # "none"
      BY <2>3, EndForm
    <3> QED
      BY <3>1, <3>2, <3>3, <3>4
  <2> QED
    BY <1>4, <2>4, <2>6 DEF Quiet
<1>17. ASSUME NEW e \in End, Connected(e)
       PROVE  G
  <2>1. worker[e] = "connect" /\ UNCHANGED <<from, to, broken>>
    BY <1>0, <1>17, ConnectedProperties
  <2>2. PICK p : p = Peer(e)
    OBVIOUS
  <2>3. p \in End /\ Peer(p) = e /\ p # e
    BY <2>2, EndForm
  <2>4. \A x \in End : x # e /\ x # p => worker'[x] = worker[x]
    BY <1>0, <1>17, <2>2, ConnectedProperties
  <2>5. ~Ended(to[e[1]]) /\ e[1] \notin broken
    BY <1>3, <1>4, <2>1, AtIsNode
  <2>6. worker'[e] = "run" /\ worker'[p] = "backlog"
    BY <1>0, <1>17, <2>2, <2>5, ConnectedProperties
  <2>7. ASSUME NEW x \in End
        PROVE  /\ worker'[x] # "closed"
               /\ worker'[x] = "finished" => mode'[AtIn(from', to', x)] = "closing"
               /\ worker'[x] \in {"run", "stuck", "backlog"} => worker'[Peer(x)] # "none"
    <3>1. worker'[x] # "closed"
      BY <1>4, <2>4, <2>6 DEF Quiet
    <3>2. worker'[x] = "finished" => mode'[AtIn(from', to', x)] = "closing"
      BY <1>6, <2>1, <2>4, <2>6
    <3>3. CASE x = e \/ x = p
      BY <2>2, <2>3, <2>6, <3>1, <3>2, <3>3
    <3>4. CASE x # e /\ x # p
      <4>1. worker'[x] \in {"run", "stuck", "backlog"} => worker[Peer(x)] # "none"
        BY <1>4, <2>4, <3>4 DEF Quiet
      <4>2. worker[Peer(x)] # "none" => worker'[Peer(x)] # "none"
        BY <2>4, <2>6, EndForm
      <4> QED
        BY <3>1, <3>2, <4>1, <4>2
    <3> QED
      BY <3>3, <3>4
  <2> QED
    BY <1>4, <2>1, <2>7 DEF Quiet
<1>18. ASSUME NEW e \in End, Unjam(e) \/ Leave(e) \/ Jam(e)
       PROVE  G
  <2>1. worker[e] \in {"run", "stuck"} /\ UNCHANGED <<from, to, broken>>
    BY <1>0, <1>18, WorkerProperties
  <2>2. PICK s \in {"run", "stuck", "finished"} : worker' = [worker EXCEPT ![e] = s]
    BY <1>0, <1>18, WorkerProperties
  <2>3. worker'[e] = s /\ \A x \in End : x # e => worker'[x] = worker[x]
    BY <1>0, <2>2 DEF LinksTyped
  <2>4. ASSUME s = "finished"
        PROVE  mode'[AtIn(from', to', e)] = "closing"
    <3>1. Leave(e)
      <4>1. Jam(e) => worker'[e] = "stuck"
        BY <1>0 DEF Jam, Run, LinksTyped
      <4>2. Unjam(e) => worker'[e] = "run"
        BY <1>0 DEF Unjam, Run, LinksTyped
      <4> QED
        BY <1>18, <2>3, <2>4, <4>1, <4>2
    <3>2. ~Unreachable(e)
      <4>1. worker[Peer(e)] # "none" /\ worker[Peer(e)] # "closed"
        BY <1>4, <2>1, EndForm DEF Quiet
      <4> QED
        BY <1>4, <4>1 DEF Unreachable
    <3>3. Asked(e)
      BY <3>1, <3>2 DEF Leave
    <3>4. PICK n : n = AtIn(from, to, e)
      OBVIOUS
    <3>5. n \in Node /\ n = At(e)
      BY <2>1, <3>4, AtIsNode
    <3>6. \E i \in 1..closing[n] : TRUE
      BY <3>3, <3>5, Zenon DEF Asked
    <3>7. closing[n] > 0
      BY <3>5, <3>6 DEF Typed
    <3> QED
      BY <1>4, <1>5, <2>1, <3>4, <3>5, <3>7
  <2>5. ASSUME NEW x \in End
        PROVE  /\ worker'[x] # "closed"
               /\ worker'[x] = "finished" => mode'[AtIn(from', to', x)] = "closing"
               /\ worker'[x] \in {"run", "stuck", "backlog"} => worker'[Peer(x)] # "none"
    <3>1. worker'[x] # "closed"
      BY <1>4, <2>3 DEF Quiet
    <3>2. worker'[x] = "finished" => mode'[AtIn(from', to', x)] = "closing"
      BY <1>6, <2>1, <2>3, <2>4
    <3>3. worker'[x] \in {"run", "stuck", "backlog"} => worker[Peer(x)] # "none"
      BY <1>4, <2>1, <2>3 DEF Quiet
    <3>4. worker[Peer(x)] # "none" => worker'[Peer(x)] # "none"
      BY <2>3, EndForm
    <3> QED
      BY <3>1, <3>2, <3>3, <3>4
  <2> QED
    BY <1>4, <2>1, <2>5 DEF Quiet
<1>19. UNCHANGED vars => UNCHANGED <<from, to, worker, broken>>
  BY DEF vars, links
<1> HIDE DEF G
<1>20. G
  BY <1>7, <1>9, <1>10, <1>11, <1>12, <1>13, <1>14, <1>15, <1>16, <1>17, <1>18, <1>19, NextSpelled
<1> QED
  BY <1>20 DEF G

(* Only a process that finds a finished connection among its own is        *)
(* terminated, and while all goes well there is none.                      *)
LEMMA FirstStep ==
  Typed /\ Wired /\ Calm /\ FirstEndsInOrder /\ [Next]_vars => FirstEndsInOrder'
<1> SUFFICES ASSUME Typed, Wired, Calm, FirstEndsInOrder, [Next]_vars, NEW n \in Node,
                    mode'[n] = "terminated", losses' = 0
             PROVE  \E m \in Node \ {n} : mode'[m] \in {"exited", "crashed", "terminated"}
  BY DEF FirstEndsInOrder, Ended
<1>1. losses = 0
  BY EndedForGood
<1>2. \A m \in Node : Ended(m) => mode'[m] \in {"exited", "crashed", "terminated"}
  BY EndedForGood DEF Ended
<1>3. CASE mode[n] = "terminated"
  BY <1>1, <1>2, <1>3 DEF FirstEndsInOrder
<1>4. CASE mode[n] # "terminated"
  <2>1. BeginCloseAll(n)
    BY <1>4, EndedForGood
  <2>2. mode[n] = "over" /\ ~Ended(n)
    BY <2>1 DEF BeginCloseAll, Ended
  <2>3. SUFFICES ASSUME \A m \in Node : ~Ended(m)
                 PROVE  FALSE
    BY <1>2, <2>2
  <2>4. PICK e \in ToSet(conns[n]) : worker[e] = "finished"
    <3>1. mode' = [mode EXCEPT ![n] = "closing"] => mode'[n] = "closing"
      BY DEF Typed
    <3> QED
      BY <2>1, <3>1 DEF BeginCloseAll
  <2>5. e \in End /\ AtIn(from, to, e) = n
    BY ConnsInEnds DEF Wired, ConnsWired
  <2>6. Quiet(from, to, worker, mode)
    BY <1>1, <2>3 DEF Calm, Undisturbed
  <2> QED
    BY <2>2, <2>4, <2>5, <2>6 DEF Quiet
<1> QED
  BY <1>3, <1>4

(* Unless the network breaks a connection, the first process to end ends   *)
(* in order or has crashed requesting the teardown: it does not meet the   *)
(* pure virtual _on_clean_up in close_all (netport.cpp:90).                *)
THEOREM FirstAlwaysEndsInOrder == Spec => []FirstEndsInOrder
<1>1. Init => Calm /\ FirstEndsInOrder
  <2> SUFFICES ASSUME Init
               PROVE  Calm /\ FirstEndsInOrder
    OBVIOUS
  <2>1. \A e \in End : worker[e] = "none"
    BY DEF Init
  <2>2. broken = {} /\ Quiet(from, to, worker, mode)
    BY <2>1 DEF Init, Quiet
  <2>3. \A n \in Node : closing[n] = 0 /\ mode[n] = "listening"
    BY DEF Init
  <2> QED
    BY <2>2, <2>3 DEF Calm, FirstEndsInOrder
<1>2. Typed /\ Wired /\ Calm /\ FirstEndsInOrder /\ [Next]_vars => Calm' /\ FirstEndsInOrder'
  BY CalmStep, FirstStep
<1> QED
  BY <1>1, <1>2, AlwaysWired, PTL DEF Spec

=============================================================================
