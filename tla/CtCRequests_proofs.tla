------------------------- MODULE CtCRequests_proofs -------------------------
(***************************************************************************)
(* Proofs about CtCRequests, for any number of nodes, connections,         *)
(* threads, keys and requests, any bounds and any set of faults.           *)
(***************************************************************************)
EXTENDS CtCRequests, SequenceTheorems, WellFoundedInduction, TLAPS

----------------------------------------------------------------------------
(* What the helpers on sequences return. *)

(* The range of a sequence over S is a subset of S. *)
LEMMA RangeType ==
  ASSUME NEW S, NEW s \in Seq(S)
  PROVE  /\ SeqRange(s) \subseteq S
         /\ SeqRange(s) = {s[i] : i \in 1..Len(s)}
  BY DEF SeqRange

(* Append adds one element to the range. *)
LEMMA RangeAppend ==
  ASSUME NEW S, NEW s \in Seq(S), NEW e \in S
  PROVE  SeqRange(Append(s, e)) = SeqRange(s) \cup {e}
<1>1. Append(s, e) \in Seq(S) /\ Len(Append(s, e)) = Len(s) + 1
  BY AppendProperties
<1>2. /\ \A i \in 1..Len(s) : Append(s, e)[i] = s[i]
      /\ Append(s, e)[Len(s) + 1] = e
  BY AppendProperties
<1>3. SeqRange(Append(s, e)) = {Append(s, e)[i] : i \in 1..(Len(s) + 1)}
  BY <1>1, RangeType
<1>4. SeqRange(s) = {s[i] : i \in 1..Len(s)}
  BY RangeType
<1>5. \A i \in 1..(Len(s) + 1) : i \in 1..Len(s) \/ i = Len(s) + 1
  BY LenProperties
<1>6. SeqRange(Append(s, e)) \subseteq SeqRange(s) \cup {e}
  BY <1>2, <1>3, <1>4, <1>5
<1>7. Len(s) + 1 \in 1..(Len(s) + 1) /\ 1..Len(s) \subseteq 1..(Len(s) + 1)
  BY LenProperties
<1>8. SeqRange(s) \cup {e} \subseteq SeqRange(Append(s, e))
  BY <1>2, <1>3, <1>4, <1>7
<1> QED
  BY <1>6, <1>8

(* The head and the range of the tail make up the range. *)
LEMMA RangeHeadTail ==
  ASSUME NEW S, NEW s \in Seq(S), s # <<>>
  PROVE  SeqRange(s) = {Head(s)} \cup SeqRange(Tail(s))
<1>1. /\ Tail(s) \in Seq(S) /\ Len(Tail(s)) = Len(s) - 1
      /\ \A i \in 1..Len(Tail(s)) : Tail(s)[i] = s[i + 1]
  BY HeadTailProperties
<1>2. Len(s) \in Nat /\ Len(s) # 0 /\ Head(s) = s[1]
  BY LenProperties, EmptySeq
<1>3. /\ SeqRange(s) = {s[i] : i \in 1..Len(s)}
      /\ SeqRange(Tail(s)) = {Tail(s)[i] : i \in 1..Len(Tail(s))}
  BY <1>1, RangeType
<1>4. SeqRange(s) \subseteq {Head(s)} \cup SeqRange(Tail(s))
  <2>1. SUFFICES ASSUME NEW i \in 1..Len(s), i # 1
                 PROVE  s[i] \in SeqRange(Tail(s))
    BY <1>2, <1>3
  <2>2. i - 1 \in 1..Len(Tail(s)) /\ (i - 1) + 1 = i
    BY <2>1, <1>1, <1>2
  <2>3. Tail(s)[i - 1] = s[i]
    BY <2>2, <1>1
  <2> QED
    BY <2>2, <2>3, <1>3
<1>5. {Head(s)} \cup SeqRange(Tail(s)) \subseteq SeqRange(s)
  <2>1. 1 \in 1..Len(s) /\ \A i \in 1..Len(Tail(s)) : i + 1 \in 1..Len(s)
    BY <1>1, <1>2
  <2> QED
    BY <2>1, <1>1, <1>2, <1>3
<1> QED
  BY <1>4, <1>5

(* Without(s, i) drops the i-th element and nothing else. *)
LEMMA WithoutProperties ==
  ASSUME NEW S, NEW s \in Seq(S), NEW i \in 1..Len(s)
  PROVE  /\ Without(s, i) \in Seq(S)
         /\ Len(Without(s, i)) = Len(s) - 1
         /\ \A j \in 1..(Len(s) - 1) :
              Without(s, i)[j] = IF j <= i - 1 THEN s[j] ELSE s[j + 1]
         /\ SeqRange(Without(s, i)) \subseteq SeqRange(s)
         /\ SeqRange(s) \subseteq SeqRange(Without(s, i)) \cup {s[i]}
<1> DEFINE l == SubSeq(s, 1, i - 1)
           r == SubSeq(s, i + 1, Len(s))
<1>1. Len(s) \in Nat /\ i \in Nat /\ i >= 1 /\ i <= Len(s)
  BY LenProperties
<1>2. /\ \A j \in 1..(i - 1) : s[j] \in S
      /\ \A j \in (i + 1)..Len(s) : s[j] \in S
  BY <1>1, ElementOfSeq
<1>3. /\ l \in Seq(S) /\ Len(l) = i - 1
      /\ \A j \in 1..(i - 1) : l[j] = s[j]
  <2>1. /\ l \in Seq(S)
        /\ Len(l) = IF 1 <= i - 1 THEN i - 1 - 1 + 1 ELSE 0
        /\ \A j \in 1..(i - 1 - 1 + 1) : l[j] = s[1 + j - 1]
    BY <1>1, <1>2, SubSeqProperties
  <2> HIDE DEF l
  <2> QED
    BY <2>1, <1>1
<1>4. /\ r \in Seq(S) /\ Len(r) = Len(s) - i
      /\ \A j \in 1..(Len(s) - i) : r[j] = s[i + j]
  <2>1. /\ r \in Seq(S)
        /\ Len(r) = IF i + 1 <= Len(s) THEN Len(s) - (i + 1) + 1 ELSE 0
        /\ \A j \in 1..(Len(s) - (i + 1) + 1) : r[j] = s[(i + 1) + j - 1]
    BY <1>1, <1>2, SubSeqProperties
  <2> HIDE DEF r
  <2>2. Len(s) - (i + 1) + 1 = Len(s) - i /\ (i + 1 <= Len(s) \/ Len(s) - i = 0)
    BY <1>1
  <2>3. ASSUME NEW j \in 1..(Len(s) - i)
        PROVE  r[j] = s[i + j]
    <3>1. (i + 1) + j - 1 = i + j
      BY <1>1
    <3> QED
      BY <2>1, <2>2, <3>1
  <2>4. Len(r) = Len(s) - i
    BY <2>1, <2>2, <1>1
  <2> QED
    BY <2>1, <2>3, <2>4
<1>5. Without(s, i) = l \o r
  BY DEF Without
<1> HIDE DEF l, r
<1>6. /\ l \o r \in Seq(S) /\ Len(l \o r) = Len(s) - 1
      /\ \A j \in 1..(Len(s) - 1) : (l \o r)[j] = IF j <= i - 1 THEN s[j] ELSE s[j + 1]
  <2>1. /\ l \o r \in Seq(S) /\ Len(l \o r) = Len(l) + Len(r)
        /\ \A j \in 1..(Len(l) + Len(r)) :
             (l \o r)[j] = IF j <= Len(l) THEN l[j] ELSE r[j - Len(l)]
    BY <1>3, <1>4, ConcatProperties
  <2>2. ASSUME NEW j \in 1..(Len(s) - 1)
        PROVE  (l \o r)[j] = IF j <= i - 1 THEN s[j] ELSE s[j + 1]
    <3>1. (l \o r)[j] = IF j <= i - 1 THEN l[j] ELSE r[j - (i - 1)]
      BY <2>1, <1>1, <1>3, <1>4
    <3>2. CASE j <= i - 1
      BY <3>1, <3>2, <1>1, <1>3
    <3>3. CASE ~(j <= i - 1)
      <4>1. j - (i - 1) \in 1..(Len(s) - i) /\ i + (j - (i - 1)) = j + 1
        BY <3>3, <1>1
      <4> QED
        BY <4>1, <3>1, <3>3, <1>4
    <3> QED
      BY <3>2, <3>3
  <2> QED
    BY <2>1, <2>2, <1>1, <1>3, <1>4
<1>7. /\ SeqRange(s) = {s[j] : j \in 1..Len(s)}
      /\ SeqRange(l \o r) = {(l \o r)[j] : j \in 1..(Len(s) - 1)}
  BY <1>6, RangeType
<1>8. SeqRange(l \o r) \subseteq SeqRange(s)
  <2>1. \A j \in 1..(Len(s) - 1) : j \in 1..Len(s) /\ j + 1 \in 1..Len(s)
    BY <1>1
  <2> QED
    BY <2>1, <1>6, <1>7
<1>9. SeqRange(s) \subseteq SeqRange(l \o r) \cup {s[i]}
  <2>1. SUFFICES ASSUME NEW j \in 1..Len(s), j # i
                 PROVE  s[j] \in SeqRange(l \o r)
    BY <1>7
  <2>2. CASE j < i
    <3>1. j \in 1..(Len(s) - 1) /\ j <= i - 1
      BY <2>2, <1>1
    <3> QED
      BY <3>1, <1>6, <1>7
  <2>3. CASE j > i
    <3>1. j - 1 \in 1..(Len(s) - 1) /\ ~(j - 1 <= i - 1) /\ (j - 1) + 1 = j
      BY <2>3, <1>1
    <3> QED
      BY <3>1, <1>6, <1>7
  <2> QED
    BY <2>1, <2>2, <2>3, <1>1
<1> QED
  BY <1>5, <1>6, <1>8, <1>9

(* Match finds a waiting request for the key whenever there is one. *)
LEMMA MatchProperties ==
  ASSUME TypeOK, NEW c \in Conn, NEW k
  PROVE  /\ Match(c, k) \in 0..Len(waiting[c])
         /\ Match(c, k) # 0 => /\ Match(c, k) \in 1..Len(waiting[c])
                               /\ waiting[c][Match(c, k)] \in Request
                               /\ rkey[waiting[c][Match(c, k)]] = k
         /\ \A i \in 1..Len(waiting[c]) :
              rkey[waiting[c][i]] = k => Match(c, k) # 0 /\ Match(c, k) <= i
<1> DEFINE hits == {i \in DOMAIN waiting[c] : rkey[waiting[c][i]] = k}
<1>1. waiting[c] \in Seq(Request) /\ Len(waiting[c]) \in Nat
      /\ DOMAIN waiting[c] = 1..Len(waiting[c])
  BY LenProperties DEF TypeOK
<1>2. CASE hits = {}
  <2>1. Match(c, k) = 0
    BY <1>2 DEF Match
  <2>2. \A i \in 1..Len(waiting[c]) : ~(rkey[waiting[c][i]] = k)
    BY <1>1, <1>2
  <2> QED
    BY <2>1, <2>2, <1>1
<1>3. CASE hits # {}
  <2>1. hits \subseteq Nat
    BY <1>1
  <2>2. PICK x \in hits : \A y \in hits : ~(<<y, x>> \in OpToRel(<, Nat))
    BY <2>1, <1>3, NatLessThanWellFounded, WFMin
  <2>3. ASSUME NEW y \in hits
        PROVE  x <= y
    <3>1. x \in Nat /\ y \in Nat
      BY <2>1
    <3>2. <<y, x>> \notin OpToRel(<, Nat)
      BY <2>2
    <3>3. ~(y < x)
      BY <3>1, <3>2 DEF OpToRel
    <3> QED
      BY <3>1, <3>3
  <2>4. Match(c, k) = CHOOSE i \in hits : \A j \in hits : i <= j
    BY <1>3 DEF Match
  <2>5. Match(c, k) \in hits /\ \A j \in hits : Match(c, k) <= j
    BY <2>3, <2>4
  <2> QED
    BY <2>5, <1>1, ElementOfSeq
<1> QED
  BY <1>2, <1>3

(* A subsequence is a sequence over the same set. *)
LEMMA SubSeqType ==
  ASSUME NEW S, NEW s \in Seq(S), NEW m \in Nat \ {0}, NEW n \in Nat, n <= Len(s)
  PROVE  SubSeq(s, m, n) \in Seq(S)
<1>1. \A i \in m..n : s[i] \in S
  BY ElementOfSeq, LenProperties
<1> QED
  BY <1>1, SubSeqProperties

----------------------------------------------------------------------------
(* The inductive invariant.  TypeOK alone is not inductive: that a worker   *)
(* files a request and not a sentinel, or sends a packet and not nothing,  *)
(* depends on where threads and workers are.                               *)

Calling == {"get", "cleaning", "find", "found", "created", "added", "waiting", "woken"}
Requesting == {"created", "added", "waiting", "woken"}
Sends == {"respond", "sendkeys", "sendreq"}

(* A call has a key and a connection of its own node, and from             *)
(* CreateRequest on a request for that key.                                *)
ThreadsWired ==
  \A t \in Thread :
    /\ pc[t] # "idle" => tkey[t] \in Key
    /\ pc[t] \in Calling => tconn[t] \in Conn /\ Owner[tconn[t]] = Home[t]
    /\ pc[t] \in Requesting => treq[t] \in Request /\ rkey[treq[t]] \in Key

(* A node only knows and keeps connections of its own. *)
NodesWired ==
  \A n \in Node :
    /\ \A k \in Key : known[n][k] # NoConn => Owner[known[n][k]] = n
    /\ \A c \in conns[n] : Owner[c] = n
    /\ pc[n] \in {"idle", "cleaning"}

(* A worker holds a request exactly while it moves one, has a packet when  *)
(* it sends one, every request it was given names a key, and its receive   *)
(* buffer does not overflow.                                               *)
WorkersWired ==
  \A c \in Conn :
    /\ wpc[c] = "move" <=> hand[c] # NoRequest
    /\ wpc[c] \in Sends => out[c] \in Packet
    /\ \A r \in SeqRange(queue[c]) \cup {hand[c]} : r # NoRequest => rkey[r] \in Key
    /\ Len(rbuf[c]) <= RCap

Typed == TypeOK /\ ThreadsWired /\ NodesWired /\ WorkersWired

(* Typed holds initially. *)
LEMMA InitTyped ==
  ASSUME Init
  PROVE  Typed
<1> USE ConstAssumption DEF Init
<1>1. TypeOK
  BY EmptySeq DEF TypeOK, ThreadPc, WorkerPc, Value
<1>2. ThreadsWired
  BY DEF ThreadsWired, Proc, Calling, Requesting
<1>3. NodesWired
  BY DEF NodesWired, Proc
<1>4. WorkersWired
  BY DEF WorkersWired, Sends, SeqRange
<1> QED
  BY <1>1, <1>2, <1>3, <1>4 DEF Typed

(* The end of a process keeps all of it. *)
LEMMA NodeDownTyped ==
  ASSUME Typed, NEW n \in Node, NEW how \in {"exited", "aborted"}, NodeDown(n, how)
  PROVE  Typed'
<1> USE ConstAssumption DEF Typed, NodeDown
<1>1. TypeOK'
  BY EmptySeq DEF TypeOK, ThreadPc, WorkerPc, Value, reqVars
<1>2. ThreadsWired'
  BY DEF ThreadsWired, Proc, HomeOf, Calling, Requesting, reqVars, TypeOK
<1>3. NodesWired'
  BY DEF NodesWired, Proc, HomeOf, TypeOK
<1>4. WorkersWired'
  BY DEF WorkersWired, Sends, SeqRange, TypeOK, reqVars
<1> QED
  BY <1>1, <1>2, <1>3, <1>4

(* cv.notify_all only moves waiting threads. *)
LEMMA NotifyTyped ==
  ASSUME NEW at \in [Proc -> ThreadPc], NEW R
  PROVE  /\ Notify(at, R) \in [Proc -> ThreadPc]
         /\ \A p \in Proc : \/ Notify(at, R)[p] = at[p]
                            \/ p \in Thread /\ at[p] = "waiting" /\ Notify(at, R)[p] = "woken"
  BY DEF Notify, ThreadPc

(* ~CtCConnection keeps the types of what it changes. *)
LEMMA DestroyTyped ==
  ASSUME TypeOK, NEW c \in Conn, Destroy(c)
  PROVE  /\ rval' \in [Request -> Value]
         /\ queue' \in [Conn -> Seq(Request)] /\ waiting' \in [Conn -> Seq(Request)]
         /\ rbuf' \in [Conn -> Seq(Packet)] /\ net' \in [Conn -> Seq(Packet)]
         /\ link' \in [Conn -> BOOLEAN] /\ destroyed' \in SUBSET Conn
         /\ \A d \in Conn : /\ SeqRange(queue'[d]) \subseteq SeqRange(queue[d])
                            /\ Len(rbuf[d]) <= RCap => Len(rbuf'[d]) <= RCap
<1>1. /\ <<>> \in Seq(Request) /\ <<>> \in Seq(Packet) /\ SeqRange(<<>>) = {}
      /\ Len(<<>>) <= RCap
  BY EmptySeq, ConstAssumption DEF SeqRange
<1> QED
  BY <1>1, ConstAssumption DEF Destroy, TypeOK, Value

(* _send_packet puts a packet into the socket and nothing else. *)
LEMMA SendTyped ==
  ASSUME TypeOK, NEW c \in Conn, out[c] \in Packet, Send(c)
  PROVE  /\ net' \in [Conn -> Seq(Packet)]
         /\ out' \in [Conn -> Packet \cup {NoPacket}]
         /\ \A d \in Conn : d # c => out'[d] = out[d]
<1>1. Peer[c] \in Conn
  BY ConstAssumption
<1>2. Append(net[Peer[c]], out[c]) \in Seq(Packet)
  BY <1>1, AppendProperties DEF TypeOK
<1> QED
  BY <1>1, <1>2 DEF Send, TypeOK

(* Every action keeps it. *)
LEMMA StepTyped ==
  ASSUME Typed, [Next]_vars
  PROVE  Typed'
<1> USE ConstAssumption DEF Typed, nodeVars, threadVars, reqVars, workVars, listVars, netVars
<1>1. ASSUME NEW t \in Thread, NEW k \in Key, Get(t, k)
      PROVE  Typed'
  <2>1. TypeOK'
    BY <1>1 DEF Get, TypeOK, ThreadPc, Proc
  <2>2. ThreadsWired'
    BY <1>1 DEF Get, TypeOK, ThreadsWired, Proc, Calling, Requesting, NodesWired
  <2>3. NodesWired'
    BY <1>1 DEF Get, TypeOK, NodesWired, Proc
  <2>4. WorkersWired'
    BY <1>1 DEF Get, TypeOK, WorkersWired
  <2> QED
    BY <2>1, <2>2, <2>3, <2>4
<1>2. ASSUME NEW t \in Thread, NEW k \in Key, SetCheck(t, k)
      PROVE  Typed'
  <2>1. CASE known[Home[t]][k] # NoConn
    <3>1. Home[t] \in Node /\ NodeDown(Home[t], "aborted")
      BY <1>2, <2>1 DEF SetCheck
    <3> QED
      BY <3>1, NodeDownTyped
  <2>2. CASE known[Home[t]][k] = NoConn
    <3>1. /\ pc' = [pc EXCEPT ![t] = "setting"] /\ tkey' = [tkey EXCEPT ![t] = k]
          /\ UNCHANGED <<nodeVars, calls, scan, tconn, treq, reqVars, workVars, listVars,
                         netVars>>
      BY <1>2, <2>2 DEF SetCheck
    <3>2. TypeOK'
      BY <3>1 DEF TypeOK, ThreadPc, Proc
    <3>3. ThreadsWired'
      BY <3>1 DEF TypeOK, ThreadsWired, Proc, Calling, Requesting
    <3>4. NodesWired'
      BY <3>1 DEF TypeOK, NodesWired, Proc
    <3>5. WorkersWired'
      BY <3>1 DEF TypeOK, WorkersWired
    <3> QED
      BY <3>2, <3>3, <3>4, <3>5
  <2> QED
    BY <2>1, <2>2
<1>3. ASSUME NEW t \in Thread, SetInsert(t)
      PROVE  Typed'
  <2>1. TypeOK'
    BY <1>3 DEF SetInsert, TypeOK, ThreadsWired, ThreadPc, Proc
  <2>2. ThreadsWired'
    BY <1>3 DEF SetInsert, TypeOK, ThreadsWired, Proc, Calling, Requesting
  <2>3. NodesWired'
    BY <1>3 DEF SetInsert, TypeOK, NodesWired, Proc
  <2>4. WorkersWired'
    BY <1>3 DEF SetInsert, TypeOK, WorkersWired
  <2> QED
    BY <2>1, <2>2, <2>3, <2>4
<1>4. ASSUME NEW p \in Proc, CleanLock(p)
      PROVE  Typed'
  <2>1. TypeOK'
    BY <1>4 DEF CleanLock, TypeOK, ThreadPc, HomeOf, Proc
  <2>2. ThreadsWired'
    BY <1>4 DEF CleanLock, TypeOK, ThreadsWired, Proc, Calling, Requesting, HomeOf
  <2>3. NodesWired'
    BY <1>4 DEF CleanLock, TypeOK, NodesWired, Proc, HomeOf
  <2>4. WorkersWired'
    BY <1>4 DEF CleanLock, TypeOK, WorkersWired
  <2> QED
    BY <2>1, <2>2, <2>3, <2>4
<1>5. ASSUME NEW p \in Proc, NEW c \in Conn, CleanErase(p, c)
      PROVE  Typed'
  <2>0. HomeOf(p) \in Node /\ pc \in [Proc -> ThreadPc]
    BY DEF HomeOf, Proc, TypeOK
  <2>1. CASE Refs(c) = {}
    <3>1. Destroy(c) /\ pc' = Notify(pc, Pending(c))
      BY <1>5, <2>1 DEF CleanErase
    <3>2. /\ pc' \in [Proc -> ThreadPc]
          /\ \A q \in Proc :
               pc'[q] = pc[q] \/ (q \in Thread /\ pc[q] = "waiting" /\ pc'[q] = "woken")
      BY <2>0, <3>1, NotifyTyped
    <3>3. TypeOK'
      BY <1>5, <2>0, <3>1, <3>2, DestroyTyped DEF CleanErase, TypeOK
    <3>4. ThreadsWired'
      BY <1>5, <3>2 DEF CleanErase, ThreadsWired, Calling, Requesting, Proc, TypeOK
    <3>5. NodesWired'
      BY <1>5, <2>0, <3>2 DEF CleanErase, NodesWired, Proc, TypeOK
    <3>6. WorkersWired'
      BY <1>5, <2>0, <3>1, DestroyTyped DEF CleanErase, WorkersWired
    <3> QED
      BY <3>3, <3>4, <3>5, <3>6
  <2>2. CASE ~(Refs(c) = {})
    <3>1. Keep /\ pc' = pc
      BY <1>5, <2>2 DEF CleanErase
    <3>2. TypeOK'
      BY <1>5, <2>0, <3>1 DEF CleanErase, TypeOK, Keep
    <3>3. ThreadsWired'
      BY <1>5, <3>1 DEF CleanErase, ThreadsWired, Keep, Calling, Requesting, TypeOK, Proc
    <3>4. NodesWired'
      BY <1>5, <2>0, <3>1 DEF CleanErase, NodesWired, TypeOK, Proc
    <3>5. WorkersWired'
      BY <1>5, <3>1 DEF CleanErase, WorkersWired, Keep
    <3> QED
      BY <3>2, <3>3, <3>4, <3>5
  <2> QED
    BY <2>1, <2>2
<1>6. ASSUME NEW p \in Proc, CleanUnlock(p)
      PROVE  Typed'
  <2>1. TypeOK'
    BY <1>6 DEF CleanUnlock, TypeOK, ThreadPc
  <2>2. ThreadsWired'
    BY <1>6 DEF CleanUnlock, TypeOK, ThreadsWired, Proc, Calling, Requesting
  <2>3. NodesWired'
    BY <1>6 DEF CleanUnlock, TypeOK, NodesWired, Proc
  <2>4. WorkersWired'
    BY <1>6 DEF CleanUnlock, TypeOK, WorkersWired
  <2> QED
    BY <2>1, <2>2, <2>3, <2>4
<1>7. ASSUME NEW t \in Thread, FindConn(t)
      PROVE  Typed'
  <2>0. /\ pc' \in [Proc -> ThreadPc] /\ tconn' \in [Thread -> Conn \cup {NoConn}]
        /\ \A p \in Node : pc'[p] = pc[p]
    <3>1. t \in Proc /\ t \notin Node
      BY DEF Proc
    <3>2. pc' = [pc EXCEPT ![t] = "found"] \/ pc' = [pc EXCEPT ![t] = "idle"]
      BY <1>7 DEF FindConn
    <3>3. tconn' = tconn \/ tconn' = [tconn EXCEPT ![t] = NoConn]
      BY <1>7 DEF FindConn
    <3>4. pc \in [Proc -> ThreadPc] /\ "found" \in ThreadPc /\ "idle" \in ThreadPc
      BY DEF TypeOK, ThreadPc
    <3>5. pc' \in [Proc -> ThreadPc]
      BY <3>2, <3>4
    <3>6. tconn' \in [Thread -> Conn \cup {NoConn}]
      BY <3>3 DEF TypeOK
    <3>7. \A p \in Node : pc'[p] = pc[p]
      BY <3>1, <3>2, <3>4 DEF Proc
    <3> QED
      BY <3>5, <3>6, <3>7
  <2>1. TypeOK'
    BY <1>7, <2>0 DEF FindConn, TypeOK
  <2>2. ThreadsWired'
    BY <1>7 DEF FindConn, TypeOK, ThreadsWired, Proc, Calling, Requesting
  <2>3. NodesWired'
    BY <1>7, <2>0 DEF FindConn, TypeOK, NodesWired, Proc
  <2>4. WorkersWired'
    BY <1>7 DEF FindConn, TypeOK, WorkersWired
  <2> QED
    BY <2>1, <2>2, <2>3, <2>4
<1>8. ASSUME NEW t \in Thread, NEW r \in Request, CreateRequest(t, r)
      PROVE  Typed'
  <2>1. CASE finished[tconn[t]]
    <3>1. Home[t] \in Node /\ NodeDown(Home[t], "aborted")
      BY <1>8, <2>1 DEF CreateRequest
    <3> QED
      BY <3>1, NodeDownTyped
  <2>2. CASE ~finished[tconn[t]]
    <3>1. /\ pc' = [pc EXCEPT ![t] = "created"]
          /\ treq' = [treq EXCEPT ![t] = r]
          /\ rkey' = [rkey EXCEPT ![r] = tkey[t]]
          /\ rval' = [rval EXCEPT ![r] = Null]
          /\ UNCHANGED <<nodeVars, calls, scan, tkey, tconn, workVars, listVars, netVars>>
      BY <1>8, <2>2 DEF CreateRequest
    <3>2. pc[t] = "found" /\ tkey[t] \in Key
      BY <1>8 DEF CreateRequest, ThreadsWired
    <3>3. TypeOK'
      BY <3>1, <3>2 DEF TypeOK, ThreadPc, Proc, Value
    <3>4. ThreadsWired'
      BY <3>1, <3>2 DEF TypeOK, ThreadsWired, Proc, Calling, Requesting
    <3>5. NodesWired'
      BY <3>1 DEF TypeOK, NodesWired, Proc
    <3>6. WorkersWired'
      BY <3>1, <3>2, RangeType DEF TypeOK, WorkersWired
    <3> QED
      BY <3>3, <3>4, <3>5, <3>6
  <2> QED
    BY <2>1, <2>2
<1>9. ASSUME NEW t \in Thread, AddRequest(t)
      PROVE  Typed'
  <2>0. treq[t] \in Request /\ tconn[t] \in Conn /\ rkey[treq[t]] \in Key
    BY <1>9 DEF AddRequest, ThreadsWired, Requesting, Calling
  <2>5. LET q == Append(queue[tconn[t]], treq[t]) IN
        q \in Seq(Request) /\ SeqRange(q) = SeqRange(queue[tconn[t]]) \cup {treq[t]}
    BY <2>0, RangeAppend, AppendProperties DEF TypeOK
  <2>1. TypeOK'
    BY <1>9, <2>0, <2>5 DEF AddRequest, TypeOK, ThreadPc, Proc
  <2>2. ThreadsWired'
    BY <1>9 DEF AddRequest, TypeOK, ThreadsWired, Proc, Calling, Requesting
  <2>3. NodesWired'
    BY <1>9 DEF AddRequest, TypeOK, NodesWired, Proc
  <2>4. WorkersWired'
    BY <1>9, <2>0, <2>5 DEF AddRequest, TypeOK, WorkersWired
  <2> QED
    BY <2>1, <2>2, <2>3, <2>4
<1>10. ASSUME NEW t \in Thread, Wait(t)
      PROVE  Typed'
  <2>1. TypeOK'
    BY <1>10 DEF Wait, TypeOK, ThreadPc, Proc
  <2>2. ThreadsWired'
    BY <1>10 DEF Wait, TypeOK, ThreadsWired, Proc, Calling, Requesting
  <2>3. NodesWired'
    BY <1>10 DEF Wait, TypeOK, NodesWired, Proc
  <2>4. WorkersWired'
    BY <1>10 DEF Wait, TypeOK, WorkersWired
  <2> QED
    BY <2>1, <2>2, <2>3, <2>4
<1>11. ASSUME NEW t \in Thread, SpuriousWakeup(t)
      PROVE  Typed'
  <2>1. TypeOK'
    BY <1>11 DEF SpuriousWakeup, TypeOK, ThreadPc, Proc
  <2>2. ThreadsWired'
    BY <1>11 DEF SpuriousWakeup, TypeOK, ThreadsWired, Proc, Calling, Requesting
  <2>3. NodesWired'
    BY <1>11 DEF SpuriousWakeup, TypeOK, NodesWired, Proc
  <2>4. WorkersWired'
    BY <1>11 DEF SpuriousWakeup, TypeOK, WorkersWired
  <2> QED
    BY <2>1, <2>2, <2>3, <2>4
<1>12. ASSUME NEW t \in Thread, Return(t)
      PROVE  Typed'
  <2> DEFINE c == tconn[t]
             gone == [pc EXCEPT ![t] = "idle"]
  <2>0. c \in Conn /\ gone \in [Proc -> ThreadPc]
    BY <1>12 DEF Return, ThreadsWired, Requesting, Calling, TypeOK, ThreadPc
  <2> HIDE DEF gone
  <2>1. CASE Refs(c) = {t} /\ c \notin conns[Home[t]]
    <3>1. Destroy(c) /\ pc' = Notify(gone, Pending(c))
      BY <1>12, <2>1 DEF Return, gone
    <3>2. /\ pc' \in [Proc -> ThreadPc]
          /\ \A q \in Proc :
               pc'[q] = gone[q] \/ (q \in Thread /\ gone[q] = "waiting" /\ pc'[q] = "woken")
      BY <2>0, <3>1, NotifyTyped
    <3>3. TypeOK'
      BY <1>12, <2>0, <3>1, <3>2, DestroyTyped DEF Return, TypeOK
    <3>4. ThreadsWired'
      BY <1>12, <3>2 DEF Return, ThreadsWired, Calling, Requesting, Proc, TypeOK, gone
    <3>5. NodesWired'
      BY <1>12, <2>0, <3>2 DEF Return, NodesWired, Proc, TypeOK, gone
    <3>6. WorkersWired'
      BY <1>12, <2>0, <3>1, DestroyTyped DEF Return, WorkersWired
    <3> QED
      BY <3>3, <3>4, <3>5, <3>6
  <2>2. CASE ~(Refs(c) = {t} /\ c \notin conns[Home[t]])
    <3>1. Keep /\ pc' = gone
      BY <1>12, <2>2 DEF Return, gone
    <3>2. TypeOK'
      BY <1>12, <2>0, <3>1 DEF Return, TypeOK, Keep
    <3>3. ThreadsWired'
      BY <1>12, <3>1 DEF Return, ThreadsWired, Keep, Calling, Requesting, TypeOK, Proc, gone
    <3>4. NodesWired'
      BY <1>12, <2>0, <3>1 DEF Return, NodesWired, TypeOK, Proc, gone
    <3>5. WorkersWired'
      BY <1>12, <3>1 DEF Return, WorkersWired, Keep
    <3> QED
      BY <3>2, <3>3, <3>4, <3>5
  <2> QED
    BY <2>1, <2>2
<1>13. ASSUME NEW c \in Conn, Receive(c)
      PROVE  Typed'
  <2>5. ASSUME NEW m \in Nat, m <= Len(net[c])
        PROVE  /\ rbuf[c] \o SubSeq(net[c], 1, m) \in Seq(Packet)
               /\ SubSeq(net[c], m + 1, Len(net[c])) \in Seq(Packet)
               /\ Len(rbuf[c] \o SubSeq(net[c], 1, m)) = Len(rbuf[c]) + m
    <3>1. Len(net[c]) \in Nat /\ m + 1 \in Nat \ {0} /\ net[c] \in Seq(Packet)
      BY LenProperties DEF TypeOK
    <3>2. /\ SubSeq(net[c], 1, m) \in Seq(Packet)
          /\ SubSeq(net[c], m + 1, Len(net[c])) \in Seq(Packet)
          /\ Len(SubSeq(net[c], 1, m)) = m
      BY <2>5, <3>1, SubSeqType
    <3> QED
      BY <3>2, ConcatProperties DEF TypeOK
  <2>6. /\ rbuf' \in [Conn -> Seq(Packet)] /\ net' \in [Conn -> Seq(Packet)]
        /\ wpc' \in [Conn -> WorkerPc]
        /\ \A d \in Conn : Len(rbuf'[d]) <= RCap
        /\ wpc'[c] \in {"parse", "done", "keys"} /\ \A d \in Conn \ {c} : wpc'[d] = wpc[d]
    <3> DEFINE room == RCap - Len(rbuf[c])
               m == IF Len(net[c]) < room THEN Len(net[c]) ELSE room
    <3>1. CASE /\ net[c] # <<>> \/ room = 0 \/ ~link[c]
               /\ rbuf' = [rbuf EXCEPT ![c] = @ \o SubSeq(net[c], 1, m)]
               /\ net' = [net EXCEPT ![c] = SubSeq(@, m + 1, Len(@))]
               /\ wpc' = [wpc EXCEPT ![c] = "parse"]
      <4>1. Len(net[c]) \in Nat /\ Len(rbuf[c]) \in Nat /\ Len(rbuf[c]) <= RCap
        BY LenProperties DEF TypeOK, WorkersWired
      <4>2. m \in Nat /\ m <= Len(net[c]) /\ Len(rbuf[c]) + m <= RCap
        <5>1. RCap \in Nat /\ Len(net[c]) \in Nat /\ Len(rbuf[c]) \in Nat
              /\ Len(rbuf[c]) <= RCap
          BY <4>1
        <5>2. \A x, y, z \in Nat :
                y <= z => LET k == IF x < z - y THEN x ELSE z - y
                          IN  k \in Nat /\ k <= x /\ y + k <= z
          OBVIOUS
        <5> QED
          BY <5>1, <5>2
      <4> HIDE DEF m, room
      <4> QED
        BY <3>1, <4>2, <2>5 DEF TypeOK, WorkerPc, WorkersWired
    <3>2. CASE /\ net' = [net EXCEPT ![c] = IF link[c] THEN @ ELSE <<>>]
               /\ wpc' = [wpc EXCEPT ![c] = IF finished[c] THEN "done" ELSE "keys"]
               /\ UNCHANGED rbuf
      BY <3>2, EmptySeq DEF TypeOK, WorkerPc, WorkersWired
    <3> QED
      BY <1>13, <3>1, <3>2 DEF Receive
  <2>1. TypeOK'
    BY <1>13, <2>6 DEF Receive, TypeOK
  <2>2. ThreadsWired'
    BY <1>13 DEF Receive, TypeOK, ThreadsWired, Proc, Calling, Requesting
  <2>3. NodesWired'
    BY <1>13 DEF Receive, TypeOK, NodesWired, Proc
  <2>4. WorkersWired'
    BY <1>13, <2>6 DEF Receive, TypeOK, WorkersWired, Sends
  <2> QED
    BY <2>1, <2>2, <2>3, <2>4
<1>14. ASSUME NEW c \in Conn, ParseNothing(c)
      PROVE  Typed'
  <2>1. TypeOK'
    BY <1>14 DEF ParseNothing, TypeOK, WorkerPc, AfterReceive
  <2>2. ThreadsWired'
    BY <1>14 DEF ParseNothing, TypeOK, ThreadsWired, Proc, Calling, Requesting
  <2>3. NodesWired'
    BY <1>14 DEF ParseNothing, TypeOK, NodesWired, Proc
  <2>4. WorkersWired'
    BY <1>14 DEF ParseNothing, TypeOK, WorkersWired, AfterReceive, Sends
  <2> QED
    BY <2>1, <2>2, <2>3, <2>4
<1>15. ASSUME NEW c \in Conn, UpdateKeys(c)
      PROVE  Typed'
  <2>5. /\ Head(rbuf[c]) \in Packet /\ Tail(rbuf[c]) \in Seq(Packet)
        /\ Len(Tail(rbuf[c])) <= RCap
    <3>1. Len(rbuf[c]) \in Nat /\ Len(rbuf[c]) <= RCap
      BY LenProperties DEF TypeOK, WorkersWired
    <3> QED
      BY <1>15, <3>1, HeadTailProperties DEF UpdateKeys, TypeOK
  <2>1. TypeOK'
    BY <1>15, <2>5 DEF UpdateKeys, TypeOK, WorkerPc, AfterReceive
  <2>2. ThreadsWired'
    BY <1>15 DEF UpdateKeys, TypeOK, ThreadsWired, Proc, Calling, Requesting
  <2>3. NodesWired'
    BY <1>15 DEF UpdateKeys, TypeOK, NodesWired, Proc
  <2>4. WorkersWired'
    BY <1>15, <2>5 DEF UpdateKeys, TypeOK, WorkersWired, AfterReceive, Sends
  <2> QED
    BY <2>1, <2>2, <2>3, <2>4
<1>16. ASSUME NEW c \in Conn, ParseRequest(c)
      PROVE  Typed'
  <2>5. /\ Head(rbuf[c]) \in Packet /\ Tail(rbuf[c]) \in Seq(Packet)
        /\ Len(Tail(rbuf[c])) <= RCap
    <3>1. Len(rbuf[c]) \in Nat /\ Len(rbuf[c]) <= RCap
      BY LenProperties DEF TypeOK, WorkersWired
    <3> QED
      BY <1>16, <3>1, HeadTailProperties DEF ParseRequest, TypeOK
  <2>6. out' \in [Conn -> Packet \cup {NoPacket}] /\ out'[c] \in Packet
    BY <1>16, <2>5 DEF ParseRequest, TypeOK, Packet, ValueResponse, Value, DataFrame
  <2>1. TypeOK'
    BY <1>16, <2>5, <2>6 DEF ParseRequest, TypeOK, WorkerPc
  <2>2. ThreadsWired'
    BY <1>16 DEF ParseRequest, TypeOK, ThreadsWired, Proc, Calling, Requesting
  <2>3. NodesWired'
    BY <1>16 DEF ParseRequest, TypeOK, NodesWired, Proc
  <2>4. WorkersWired'
    BY <1>16, <2>5, <2>6 DEF ParseRequest, TypeOK, WorkersWired, Sends
  <2> QED
    BY <2>1, <2>2, <2>3, <2>4
<1>17. ASSUME NEW c \in Conn, SendResponse(c)
      PROVE  Typed'
  <2>5. out[c] \in Packet
    BY <1>17 DEF SendResponse, WorkersWired, Sends
  <2>1. TypeOK'
    BY <1>17, <2>5, SendTyped DEF SendResponse, TypeOK, WorkerPc
  <2>2. ThreadsWired'
    BY <1>17 DEF SendResponse, TypeOK, ThreadsWired, Proc, Calling, Requesting
  <2>3. NodesWired'
    BY <1>17 DEF SendResponse, TypeOK, NodesWired, Proc
  <2>4. WorkersWired'
    BY <1>17, <2>5, SendTyped DEF SendResponse, TypeOK, WorkersWired, Sends
  <2> QED
    BY <2>1, <2>2, <2>3, <2>4
<1>18. ASSUME NEW c \in Conn, Deliver(c)
      PROVE  Typed'
  <2> DEFINE p == Head(rbuf[c])
             i == Match(c, p.key)
             r == waiting[c][i]
  <2>5. p \in Packet /\ Tail(rbuf[c]) \in Seq(Packet) /\ p.value \in Value
        /\ Len(Tail(rbuf[c])) <= RCap
    <3>1. Len(rbuf[c]) \in Nat /\ Len(rbuf[c]) <= RCap
      BY LenProperties DEF TypeOK, WorkersWired
    <3>2. /\ p \in Packet /\ Tail(rbuf[c]) \in Seq(Packet) /\ p.type = "VALUE_RESPONSE"
          /\ Len(Tail(rbuf[c])) <= RCap
      BY <1>18, <3>1, HeadTailProperties DEF Deliver, TypeOK
    <3> QED
      BY <3>2 DEF Packet
  <2>6. /\ rval' \in [Request -> Value] /\ waiting' \in [Conn -> Seq(Request)]
        /\ pc' \in [Proc -> ThreadPc]
        /\ \A q \in Proc :
               pc'[q] = pc[q] \/ (q \in Thread /\ pc[q] = "waiting" /\ pc'[q] = "woken")
    <3>1. CASE i = 0
      BY <1>18, <3>1 DEF Deliver, TypeOK
    <3>2. CASE i # 0
      <4>1. /\ rval' = [rval EXCEPT ![r] = p.value]
            /\ waiting' = [waiting EXCEPT ![c] = Without(@, i)]
            /\ pc' = Notify(pc, {r})
        BY <1>18, <3>2 DEF Deliver
      <4>2. r \in Request /\ i \in 1..Len(waiting[c]) /\ waiting[c] \in Seq(Request)
        BY <3>2, MatchProperties DEF TypeOK
      <4>3. Without(waiting[c], i) \in Seq(Request)
        BY <4>2, WithoutProperties
      <4>4. pc \in [Proc -> ThreadPc]
        BY DEF TypeOK
      <4>5. /\ pc' \in [Proc -> ThreadPc]
            /\ \A q \in Proc :
               pc'[q] = pc[q] \/ (q \in Thread /\ pc[q] = "waiting" /\ pc'[q] = "woken")
        BY <4>1, <4>4, NotifyTyped
      <4> QED
        BY <4>1, <4>2, <4>3, <4>5, <2>5 DEF TypeOK
    <3> QED
      BY <3>1, <3>2
  <2> HIDE DEF p, i, r
  <2>1. TypeOK'
    BY <1>18, <2>5, <2>6 DEF Deliver, TypeOK, WorkerPc, AfterReceive
  <2>2. ThreadsWired'
    BY <1>18, <2>6, SMTT(30) DEF Deliver, TypeOK, ThreadsWired, Proc, Calling, Requesting
  <2>3. NodesWired'
    BY <1>18, <2>6 DEF Deliver, TypeOK, NodesWired, Proc
  <2>4. WorkersWired'
    BY <1>18, <2>5 DEF Deliver, TypeOK, WorkersWired, AfterReceive, Sends
  <2> QED
    BY <2>1, <2>2, <2>3, <2>4
<1>19. ASSUME NEW c \in Conn, SnapshotKeys(c)
      PROVE  Typed'
  <2>5. KeyList(store[Owner[c]]) \in Packet
    BY DEF TypeOK, KeyList, Packet
  <2>1. TypeOK'
    BY <1>19, <2>5 DEF SnapshotKeys, TypeOK, WorkerPc
  <2>2. ThreadsWired'
    BY <1>19 DEF SnapshotKeys, TypeOK, ThreadsWired, Proc, Calling, Requesting
  <2>3. NodesWired'
    BY <1>19 DEF SnapshotKeys, TypeOK, NodesWired, Proc
  <2>4. WorkersWired'
    BY <1>19, <2>5 DEF SnapshotKeys, TypeOK, WorkersWired, Sends
  <2> QED
    BY <2>1, <2>2, <2>3, <2>4
<1>20. ASSUME NEW c \in Conn, SendKeys(c)
      PROVE  Typed'
  <2>5. out[c] \in Packet
    BY <1>20 DEF SendKeys, WorkersWired, Sends
  <2>1. TypeOK'
    BY <1>20, <2>5, SendTyped DEF SendKeys, TypeOK, WorkerPc
  <2>2. ThreadsWired'
    BY <1>20 DEF SendKeys, TypeOK, ThreadsWired, Proc, Calling, Requesting
  <2>3. NodesWired'
    BY <1>20 DEF SendKeys, TypeOK, NodesWired, Proc
  <2>4. WorkersWired'
    BY <1>20, <2>5, SendTyped DEF SendKeys, TypeOK, WorkersWired, Sends
  <2> QED
    BY <2>1, <2>2, <2>3, <2>4
<1>21. ASSUME NEW c \in Conn, CheckRequests(c)
      PROVE  Typed'
  <2>5. CASE queue[c] = <<>>
    <3>1. wpc' = [wpc EXCEPT ![c] = "loop"] /\ UNCHANGED <<hand, queue>>
      BY <1>21, <2>5 DEF CheckRequests
    <3>2. TypeOK'
      BY <1>21, <3>1 DEF CheckRequests, TypeOK, WorkerPc
    <3>3. ThreadsWired'
      BY <1>21 DEF CheckRequests, TypeOK, ThreadsWired, Proc, Calling, Requesting
    <3>4. NodesWired'
      BY <1>21 DEF CheckRequests, TypeOK, NodesWired, Proc
    <3>5. WorkersWired'
      BY <1>21, <3>1 DEF CheckRequests, TypeOK, WorkersWired, Sends
    <3> QED
      BY <3>2, <3>3, <3>4, <3>5
  <2>6. CASE queue[c] # <<>>
    <3>1. /\ hand' = [hand EXCEPT ![c] = Head(queue[c])]
          /\ queue' = [queue EXCEPT ![c] = Tail(@)]
          /\ wpc' = [wpc EXCEPT ![c] = "move"]
      BY <1>21, <2>6 DEF CheckRequests
    <3>6. /\ Head(queue[c]) \in Request /\ Tail(queue[c]) \in Seq(Request)
          /\ SeqRange(queue[c]) = {Head(queue[c])} \cup SeqRange(Tail(queue[c]))
      BY <2>6, HeadTailProperties, RangeHeadTail DEF TypeOK
    <3>2. TypeOK'
      BY <1>21, <3>1, <3>6 DEF CheckRequests, TypeOK, WorkerPc
    <3>3. ThreadsWired'
      BY <1>21 DEF CheckRequests, TypeOK, ThreadsWired, Proc, Calling, Requesting
    <3>4. NodesWired'
      BY <1>21 DEF CheckRequests, TypeOK, NodesWired, Proc
    <3>5. WorkersWired'
      BY <1>21, <3>1, <3>6 DEF CheckRequests, TypeOK, WorkersWired, Sends
    <3> QED
      BY <3>2, <3>3, <3>4, <3>5
  <2> QED
    BY <2>5, <2>6
<1>22. ASSUME NEW c \in Conn, MoveRequest(c)
      PROVE  Typed'
  <2>5. hand[c] \in Request /\ rkey[hand[c]] \in Key
    BY <1>22 DEF MoveRequest, TypeOK, WorkersWired
  <2>6. ValueRequest(rkey[hand[c]]) \in Packet /\ Append(waiting[c], hand[c]) \in Seq(Request)
    BY <2>5, AppendProperties DEF TypeOK, ValueRequest, Packet
  <2>1. TypeOK'
    BY <1>22, <2>6 DEF MoveRequest, TypeOK, WorkerPc
  <2>2. ThreadsWired'
    BY <1>22 DEF MoveRequest, TypeOK, ThreadsWired, Proc, Calling, Requesting
  <2>3. NodesWired'
    BY <1>22 DEF MoveRequest, TypeOK, NodesWired, Proc
  <2>4. WorkersWired'
    BY <1>22, <2>6 DEF MoveRequest, TypeOK, WorkersWired, Sends
  <2> QED
    BY <2>1, <2>2, <2>3, <2>4
<1>23. ASSUME NEW c \in Conn, SendRequest(c)
      PROVE  Typed'
  <2>5. out[c] \in Packet
    BY <1>23 DEF SendRequest, WorkersWired, Sends
  <2>1. TypeOK'
    BY <1>23, <2>5, SendTyped DEF SendRequest, TypeOK, WorkerPc
  <2>2. ThreadsWired'
    BY <1>23 DEF SendRequest, TypeOK, ThreadsWired, Proc, Calling, Requesting
  <2>3. NodesWired'
    BY <1>23 DEF SendRequest, TypeOK, NodesWired, Proc
  <2>4. WorkersWired'
    BY <1>23, <2>5, SendTyped, SMTT(30) DEF SendRequest, TypeOK, WorkersWired, Sends
  <2> QED
    BY <2>1, <2>2, <2>3, <2>4
<1>24. ASSUME NEW c \in Conn, Reset(c)
      PROVE  Typed'
  <2>1. TypeOK'
    BY <1>24 DEF Reset, TypeOK
  <2>2. ThreadsWired'
    BY <1>24 DEF Reset, TypeOK, ThreadsWired, Proc, Calling, Requesting
  <2>3. NodesWired'
    BY <1>24 DEF Reset, TypeOK, NodesWired, Proc
  <2>4. WorkersWired'
    BY <1>24 DEF Reset, TypeOK, WorkersWired
  <2> QED
    BY <2>1, <2>2, <2>3, <2>4
<1>25. ASSUME NEW n \in Node, Exit(n)
      PROVE  Typed'
  BY <1>25, NodeDownTyped DEF Exit
<1>26. CASE UNCHANGED vars
  BY <1>26 DEF vars, TypeOK, ThreadsWired, NodesWired, WorkersWired
<1> QED
  BY <1>1, <1>2, <1>3, <1>4, <1>5, <1>6, <1>7, <1>8, <1>9, <1>10, <1>11, <1>12, <1>13,
     <1>14, <1>15, <1>16, <1>17, <1>18, <1>19, <1>20, <1>21, <1>22, <1>23, <1>24, <1>25,
     <1>26
  DEF Next, Clean, Worker, Proceed, Call

(* Typed is an invariant of the specification. *)
LEMMA TypedInvariant == Spec => []Typed
<1>1. Init => Typed
  BY InitTyped
<1>2. Typed /\ [Next]_vars => Typed'
  BY StepTyped
<1> QED
  BY <1>1, <1>2, PTL DEF Spec

(* Every variable has its type in every reachable state. *)
THEOREM TypeCorrect == Spec => []TypeOK
<1>1. Typed => TypeOK
  BY DEF Typed
<1> QED
  BY <1>1, TypedInvariant, PTL

----------------------------------------------------------------------------
(* Where requests are. *)

Held(c) == Pending(c) \cup {hand[c]}

(* Two calls never use one request object. *)
Distinct ==
  \A t, u \in Thread : t # u /\ treq[t] # NoRequest => treq[t] # treq[u]

(* Before add_request a request is in no connection's lists or hands. *)
NotFiledYet ==
  \A t \in Thread : pc[t] = "created" => \A c \in Conn : treq[t] \notin Held(c)

Filing == Typed /\ Distinct /\ NotFiledYet /\ NoLostWakeup

(* An action that starts no request keeps Filing if it leaves the requests *)
(* of sleeping threads where they are.                                     *)
LEMMA FilingFrame ==
  ASSUME Filing, Typed',
         \A u \in Thread : /\ treq'[u] \in {treq[u], NoRequest}
                           /\ pc'[u] \in {"created", "added", "waiting"} =>
                                treq'[u] = treq[u] /\ tconn'[u] = tconn[u]
                           /\ pc'[u] = "created" => pc[u] = "created"
                           /\ pc'[u] \in {"added", "waiting"} =>
                                /\ pc[u] \in {"added", "waiting"}
                                /\ treq[u] \in Held(tconn[u])',
         \A c \in Conn : Held(c)' \subseteq Held(c) \cup {NoRequest}
  PROVE  Filing'
<1>1. Distinct'
  BY DEF Filing, Distinct
<1>2. NotFiledYet'
  <2> SUFFICES ASSUME NEW t \in Thread, pc'[t] = "created", NEW c \in Conn,
                      treq'[t] \in Held(c)'
               PROVE  FALSE
    BY DEF NotFiledYet
  <2>1. pc[t] = "created" /\ treq'[t] = treq[t] /\ treq[t] \in Request
    BY DEF Filing, Typed, ThreadsWired, Requesting
  <2> QED
    BY <2>1, ConstAssumption DEF Filing, NotFiledYet
<1>3. NoLostWakeup'
  <2> SUFFICES ASSUME NEW t \in Thread, pc'[t] \in {"added", "waiting"}
               PROVE  (treq[t] \in Held(tconn[t]))'
    BY DEF NoLostWakeup, Held
  <2> QED
    OBVIOUS
<1> QED
  BY <1>1, <1>2, <1>3 DEF Filing

(* What threads that sleep, or are about to, rely on. *)
LEMMA Sleeper ==
  ASSUME Filing, NEW t \in Thread, pc[t] \in {"added", "waiting"}
  PROVE  /\ treq[t] \in Request /\ tconn[t] \in Conn /\ Owner[tconn[t]] = Home[t]
         /\ treq[t] \in Held(tconn[t]) /\ treq[t] # NoRequest
         /\ pc[t] = "added" => ~ReqMutexFree(treq[t])
<1>1. treq[t] \in Request /\ tconn[t] \in Conn /\ Owner[tconn[t]] = Home[t]
  BY DEF Filing, Typed, ThreadsWired, Requesting, Calling
<1>2. treq[t] \in Held(tconn[t])
  BY DEF Filing, NoLostWakeup, Held
<1>3. pc[t] = "added" => ~ReqMutexFree(treq[t])
  BY DEF ReqMutexFree
<1> QED
  BY <1>1, <1>2, <1>3, ConstAssumption

(* The end of a process takes its sleepers and their requests along. *)
LEMMA NodeDownFiling ==
  ASSUME Filing, Typed', NEW n \in Node, NEW how, NodeDown(n, how)
  PROVE  Filing'
<1>1. SeqRange(<<>>) = {}
  BY DEF SeqRange
<1>2. \A c \in Conn : \/ Owner[c] = n /\ Held(c)' = {NoRequest}
                      \/ Owner[c] # n /\ Held(c)' = Held(c)
  BY <1>1 DEF NodeDown, Held, Pending
<1>3. \A u \in Thread :
        \/ /\ Home[u] = n
           /\ pc'[u] = "idle" /\ treq'[u] = NoRequest
        \/ /\ Home[u] # n
           /\ pc'[u] = pc[u] /\ treq'[u] = treq[u] /\ tconn'[u] = tconn[u]
  BY ConstAssumption DEF NodeDown, Proc, HomeOf
<1>4. \A u \in Thread : pc'[u] \in {"added", "waiting"} => treq[u] \in Held(tconn[u])'
  BY <1>2, <1>3, Sleeper
<1> QED
  BY <1>2, <1>3, <1>4, FilingFrame

(* The destructor wakes every sleeper whose request it drops.  at: the      *)
(* program counters but for the notification.                              *)
LEMMA DestroyFiling ==
  ASSUME Filing, Typed', NEW c \in Conn, Destroy(c), hand' = hand,
         NEW at, pc' = Notify(at, Pending(c)),
         \A u \in Thread : \/ at[u] = "idle" /\ treq'[u] = NoRequest
                           \/ at[u] = pc[u] /\ treq'[u] = treq[u] /\ tconn'[u] = tconn[u],
         \A u \in Thread : at[u] = pc[u] \/ at[u] # "waiting"
  PROVE  Filing'
<1>1. SeqRange(<<>>) = {}
  BY DEF SeqRange
<1>2. \A d \in Conn : Held(d)' = IF d = c THEN {hand[c]} ELSE Held(d)
  BY <1>1 DEF Destroy, Held, Pending, Filing, Typed, TypeOK
<1>3. ASSUME NEW u \in Thread
      PROVE  \/ pc'[u] = at[u] /\ ~(at[u] = "waiting" /\ treq[u] \in Pending(c))
             \/ pc'[u] = "woken"
  BY DEF Notify, Proc
<1>4. ASSUME NEW u \in Thread, pc'[u] \in {"added", "waiting"}
      PROVE  pc[u] = pc'[u] /\ treq[u] \in Held(tconn[u])'
  <2>1. /\ pc'[u] = at[u] /\ at[u] = pc[u]
        /\ ~(pc[u] = "waiting" /\ treq[u] \in Pending(c))
    BY <1>3, <1>4
  <2>2. treq[u] \notin Pending(c)
    BY <1>4, <2>1, Sleeper DEF Destroy
  <2> QED
    BY <1>2, <1>4, <2>1, <2>2, Sleeper DEF Held
<1>5. \A u \in Thread : /\ treq'[u] \in {treq[u], NoRequest}
                        /\ pc'[u] \in {"created", "added", "waiting"} =>
                             treq'[u] = treq[u] /\ tconn'[u] = tconn[u]
                        /\ pc'[u] = "created" => pc[u] = "created"
  BY <1>3
<1>6. \A d \in Conn : Held(d)' \subseteq Held(d) \cup {NoRequest}
  BY <1>2 DEF Held
<1> QED
  BY <1>4, <1>5, <1>6, FilingFrame

(* Filing holds initially. *)
LEMMA InitFiling ==
  ASSUME Init
  PROVE  Filing
<1>1. Typed
  BY InitTyped
<1> QED
  BY <1>1 DEF Filing, Init, Distinct, NotFiledYet, NoLostWakeup, Proc

(* Every action keeps Filing. *)
LEMMA StepFiling ==
  ASSUME Filing, [Next]_vars
  PROVE  Filing'
<1> USE ConstAssumption DEF nodeVars, threadVars, reqVars, workVars, listVars, netVars
<1>0. Typed /\ Typed'
  BY StepTyped DEF Filing
<1>1. ASSUME UNCHANGED <<pc, treq, tconn, queue, waiting, hand>>
      PROVE  Filing'
  BY <1>0, <1>1 DEF Filing, Distinct, NotFiledYet, NoLostWakeup, Held, Pending
<1>2. ASSUME NEW t \in Thread, UNCHANGED <<treq, queue, waiting, hand>>,
             \A u \in Thread : u # t => pc'[u] = pc[u] /\ tconn'[u] = tconn[u],
             \/ pc'[t] \notin {"created", "added", "waiting"}
             \/ pc[t] = "added" /\ pc'[t] = "waiting" /\ tconn' = tconn
      PROVE  Filing'
  <2>1. \A c \in Conn : Held(c)' = Held(c)
    BY <1>2 DEF Held, Pending
  <2>2. \A u \in Thread : pc'[u] \in {"added", "waiting"} =>
          /\ pc[u] \in {"added", "waiting"} /\ tconn'[u] = tconn[u]
          /\ treq[u] \in Held(tconn[u])'
    BY <1>2, <2>1, Sleeper
  <2>3. \A u \in Thread : pc'[u] = "created" => pc[u] = "created" /\ tconn'[u] = tconn[u]
    BY <1>2
  <2> QED
    BY <1>0, <1>2, <2>1, <2>2, <2>3, FilingFrame
<1>3. ASSUME NEW c \in Conn,
             \/ Receive(c) \/ ParseNothing(c) \/ UpdateKeys(c) \/ ParseRequest(c)
             \/ SendResponse(c) \/ SnapshotKeys(c) \/ SendKeys(c) \/ SendRequest(c)
             \/ Reset(c)
      PROVE  Filing'
  BY <1>1, <1>3 DEF Receive, ParseNothing, UpdateKeys, ParseRequest, SendResponse,
     SnapshotKeys, SendKeys, SendRequest, Reset
<1>4. ASSUME NEW t \in Thread, NEW k \in Key, Get(t, k)
      PROVE  Filing'
  BY <1>0, <1>2, <1>4 DEF Get, Typed, TypeOK, Proc
<1>5. ASSUME NEW t \in Thread, NEW k \in Key, SetCheck(t, k)
      PROVE  Filing'
  <2>1. CASE known[Home[t]][k] # NoConn
    BY <1>0, <1>5, <2>1, NodeDownFiling DEF SetCheck
  <2>2. CASE known[Home[t]][k] = NoConn
    BY <1>0, <1>2, <1>5, <2>2 DEF SetCheck, Typed, TypeOK, Proc
  <2> QED
    BY <2>1, <2>2
<1>6. ASSUME NEW t \in Thread,
             SetInsert(t) \/ CleanLock(t) \/ CleanUnlock(t) \/ Wait(t) \/ SpuriousWakeup(t)
      PROVE  Filing'
  <2>1. /\ UNCHANGED <<treq, tconn, queue, waiting, hand>>
        /\ \A u \in Thread : u # t => pc'[u] = pc[u]
    BY <1>0, <1>6 DEF SetInsert, CleanLock, CleanUnlock, Wait, SpuriousWakeup,
       Typed, TypeOK, Proc
  <2>2. \/ pc'[t] \notin {"created", "added", "waiting"}
        \/ pc[t] = "added" /\ pc'[t] = "waiting"
    BY <1>0, <1>6 DEF SetInsert, CleanLock, CleanUnlock, Wait, SpuriousWakeup,
       Typed, TypeOK, Proc
  <2> QED
    BY <1>2, <2>1, <2>2
<1>7. ASSUME NEW n \in Node, CleanLock(n) \/ CleanUnlock(n)
      PROVE  Filing'
  <2>1. /\ UNCHANGED <<treq, tconn, queue, waiting, hand>>
        /\ \A u \in Thread : pc'[u] = pc[u]
    BY <1>0, <1>7 DEF CleanLock, CleanUnlock, Typed, TypeOK, Proc
  <2> QED
    BY <1>0, <2>1 DEF Filing, Distinct, NotFiledYet, NoLostWakeup, Held, Pending
<1>8. ASSUME NEW t \in Thread, FindConn(t)
      PROVE  Filing'
  <2>1. pc' = [pc EXCEPT ![t] = "found"] \/ pc' = [pc EXCEPT ![t] = "idle"]
    BY <1>8 DEF FindConn
  <2>2. tconn' = tconn \/ tconn' = [tconn EXCEPT ![t] = NoConn]
    BY <1>8 DEF FindConn
  <2>3. UNCHANGED <<treq, queue, waiting, hand>>
    BY <1>8 DEF FindConn
  <2>4. /\ pc'[t] \in {"found", "idle"}
        /\ \A u \in Thread : u # t => pc'[u] = pc[u] /\ tconn'[u] = tconn[u]
    BY <1>0, <2>1, <2>2 DEF Typed, TypeOK, Proc
  <2> QED
    BY <1>2, <2>3, <2>4
<1>9. ASSUME NEW t \in Thread, NEW r \in Request, CreateRequest(t, r)
      PROVE  Filing'
  <2>1. CASE finished[tconn[t]]
    BY <1>0, <1>9, <2>1, NodeDownFiling DEF CreateRequest
  <2>2. CASE ~finished[tconn[t]]
    <3>1. /\ pc' = [pc EXCEPT ![t] = "created"] /\ treq' = [treq EXCEPT ![t] = r]
          /\ ~InUse(r) /\ UNCHANGED <<tconn, queue, waiting, hand>>
      BY <1>9, <2>2 DEF CreateRequest
    <3>2. /\ \A u \in Thread : treq[u] # r
          /\ \A c \in Conn : r \notin Held(c) /\ Held(c)' = Held(c)
      BY <3>1 DEF InUse, Held, Pending
    <3>3. /\ pc'[t] = "created" /\ treq'[t] = r
          /\ \A u \in Thread : u # t => pc'[u] = pc[u] /\ treq'[u] = treq[u]
      BY <1>0, <3>1 DEF Typed, TypeOK, Proc
    <3>4. Distinct'
      BY <3>2, <3>3 DEF Filing, Distinct
    <3>5. NotFiledYet'
      BY <3>2, <3>3 DEF Filing, NotFiledYet
    <3>6. NoLostWakeup'
      BY <3>1, <3>3 DEF Filing, NoLostWakeup, Pending
    <3> QED
      BY <1>0, <3>4, <3>5, <3>6 DEF Filing
  <2> QED
    BY <2>1, <2>2
<1>10. ASSUME NEW t \in Thread, AddRequest(t)
       PROVE  Filing'
  <2> DEFINE c == tconn[t]
  <2>1. c \in Conn /\ treq[t] \in Request /\ pc[t] = "created"
    BY <1>0, <1>10 DEF AddRequest, Typed, ThreadsWired, Calling, Requesting
  <2>2. /\ pc'[t] = "added" /\ UNCHANGED <<treq, tconn, waiting, hand>>
        /\ \A u \in Thread : u # t => pc'[u] = pc[u]
    BY <1>0, <1>10 DEF AddRequest, Typed, TypeOK, Proc
  <2>3. /\ SeqRange(queue'[c]) = SeqRange(queue[c]) \cup {treq[t]}
        /\ \A d \in Conn : d # c => queue'[d] = queue[d]
    BY <1>0, <1>10, <2>1, RangeAppend DEF AddRequest, Typed, TypeOK
  <2>4. \A d \in Conn : Held(d)' = Held(d) \cup (IF d = c THEN {treq[t]} ELSE {})
    BY <2>2, <2>3 DEF Held, Pending
  <2>5. Distinct'
    BY <2>2 DEF Filing, Distinct
  <2>6. NotFiledYet'
    <3> SUFFICES ASSUME NEW u \in Thread, pc'[u] = "created", NEW d \in Conn
                 PROVE  treq[u] \notin Held(d)'
      BY <2>2 DEF NotFiledYet
    <3>1. u # t /\ pc[u] = "created" /\ treq[u] \notin Held(d)
      BY <2>2 DEF Filing, NotFiledYet
    <3>2. treq[t] # NoRequest /\ treq[u] # treq[t]
      BY <2>1, <3>1 DEF Filing, Distinct
    <3> QED
      BY <2>4, <3>1, <3>2
  <2>7. NoLostWakeup'
    <3> SUFFICES ASSUME NEW u \in Thread, pc'[u] \in {"added", "waiting"}
                 PROVE  treq[u] \in Held(tconn[u])'
      BY <2>2 DEF NoLostWakeup, Held, Pending
    <3>1. CASE u = t
      BY <2>1, <2>2, <2>4, <3>1
    <3>2. CASE u # t
      BY <2>2, <2>4, <3>2, Sleeper
    <3> QED
      BY <3>1, <3>2
  <2> QED
    BY <1>0, <2>5, <2>6, <2>7 DEF Filing
<1>11. ASSUME NEW p \in Proc, NEW c \in Conn, CleanErase(p, c)
       PROVE  Filing'
  <2>1. UNCHANGED <<treq, tconn, hand>>
    BY <1>11 DEF CleanErase
  <2>2. CASE Refs(c) = {}
    BY <1>0, <1>11, <2>1, <2>2, DestroyFiling DEF CleanErase
  <2>3. CASE Refs(c) # {}
    BY <1>1, <1>11, <2>1, <2>3 DEF CleanErase, Keep
  <2> QED
    BY <2>2, <2>3
<1>12. ASSUME NEW t \in Thread, Return(t)
       PROVE  Filing'
  <2> DEFINE c == tconn[t]
             gone == [pc EXCEPT ![t] = "idle"]
  <2>1. c \in Conn
    BY <1>0, <1>12 DEF Return, Typed, ThreadsWired, Calling
  <2>2. /\ hand' = hand
        /\ gone[t] = "idle" /\ treq'[t] = NoRequest
        /\ \A u \in Thread : u # t => /\ gone[u] = pc[u]
                                      /\ treq'[u] = treq[u] /\ tconn'[u] = tconn[u]
    BY <1>0, <1>12 DEF Return, Typed, TypeOK, Proc
  <2> HIDE DEF gone
  <2>3. CASE Refs(c) = {t} /\ c \notin conns[Home[t]]
    <3>1. Destroy(c) /\ pc' = Notify(gone, Pending(c))
      BY <1>12, <2>3 DEF Return, gone
    <3> HIDE DEF c
    <3> QED
      BY <1>0, <2>1, <2>2, <3>1, DestroyFiling
  <2>4. CASE ~(Refs(c) = {t} /\ c \notin conns[Home[t]])
    <3>1. UNCHANGED <<queue, waiting>> /\ pc' = gone
      BY <1>12, <2>4 DEF Return, Keep, gone
    <3>2. \A d \in Conn : Held(d)' = Held(d)
      BY <2>2, <3>1 DEF Held, Pending
    <3>3. \A u \in Thread : pc'[u] \in {"added", "waiting"} =>
            pc[u] = pc'[u] /\ treq[u] \in Held(tconn[u])'
      BY <2>2, <3>1, <3>2, Sleeper
    <3>4. \A u \in Thread : /\ treq'[u] \in {treq[u], NoRequest}
                            /\ pc'[u] \in {"created", "added", "waiting"} =>
                                 treq'[u] = treq[u] /\ tconn'[u] = tconn[u]
                            /\ pc'[u] = "created" => pc[u] = "created"
      BY <2>2, <3>1
    <3> QED
      BY <1>0, <3>2, <3>3, <3>4, FilingFrame
  <2> QED
    BY <2>3, <2>4
<1>13. ASSUME NEW c \in Conn, Deliver(c)
       PROVE  Filing'
  <2> DEFINE i == Match(c, Head(rbuf[c]).key)
             r == waiting[c][i]
  <2>1. UNCHANGED <<treq, tconn, queue, hand>>
    BY <1>13 DEF Deliver
  <2>2. CASE i = 0
    BY <1>1, <1>13, <2>1, <2>2 DEF Deliver
  <2>3. CASE i # 0
    <3>1. /\ ReqMutexFree(r) /\ pc' = Notify(pc, {r})
          /\ waiting' = [waiting EXCEPT ![c] = Without(@, i)]
      BY <1>13, <2>3 DEF Deliver
    <3>2. i \in 1..Len(waiting[c]) /\ waiting[c] \in Seq(Request)
      BY <1>0, <2>3, MatchProperties DEF Typed, TypeOK
    <3> HIDE DEF i
    <3>3. /\ SeqRange(Without(waiting[c], i)) \subseteq SeqRange(waiting[c])
          /\ SeqRange(waiting[c]) \subseteq SeqRange(Without(waiting[c], i)) \cup {r}
      BY <3>2, WithoutProperties
    <3> HIDE DEF r
    <3>4. \A d \in Conn : Held(d)' \subseteq Held(d) /\ Held(d) \subseteq Held(d)' \cup {r}
      BY <1>0, <2>1, <3>1, <3>3 DEF Held, Pending, Typed, TypeOK
    <3>5. ASSUME NEW u \in Thread
          PROVE  \/ pc'[u] = pc[u] /\ ~(pc[u] = "waiting" /\ treq[u] = r)
                 \/ pc'[u] = "woken"
      BY <3>1 DEF Notify, Proc
    <3>6. ASSUME NEW u \in Thread, pc'[u] \in {"added", "waiting"}
          PROVE  pc[u] = pc'[u] /\ treq[u] \in Held(tconn[u])'
      <4>1. pc[u] = pc'[u] /\ ~(pc[u] = "waiting" /\ treq[u] = r)
        BY <3>5, <3>6
      <4>2. /\ treq[u] \in Held(tconn[u]) /\ tconn[u] \in Conn
            /\ pc[u] = "added" => ~ReqMutexFree(treq[u])
        BY <3>6, <4>1, Sleeper
      <4>3. treq[u] # r
        BY <3>1, <3>6, <4>1, <4>2
      <4>4. treq[u] \in Held(tconn[u])'
        BY <2>1, <3>4, <4>2, <4>3
      <4> QED
        BY <4>1, <4>4
    <3> QED
      BY <1>0, <2>1, <3>4, <3>5, <3>6, FilingFrame
  <2> QED
    BY <2>2, <2>3
<1>14. ASSUME NEW c \in Conn, CheckRequests(c)
       PROVE  Filing'
  <2>1. UNCHANGED <<pc, treq, tconn, waiting>> /\ wpc[c] # "move"
    BY <1>14 DEF CheckRequests
  <2>2. CASE queue[c] = <<>>
    BY <1>1, <1>14, <2>1, <2>2 DEF CheckRequests
  <2>3. CASE queue[c] # <<>>
    <3>1. /\ hand' = [hand EXCEPT ![c] = Head(queue[c])]
          /\ queue' = [queue EXCEPT ![c] = Tail(@)]
      BY <1>14, <2>3 DEF CheckRequests
    <3>2. /\ hand[c] = NoRequest
          /\ SeqRange(queue[c]) = {Head(queue[c])} \cup SeqRange(Tail(queue[c]))
      BY <1>0, <2>1, <2>3, RangeHeadTail DEF Typed, TypeOK, WorkersWired
    <3>3. \A d \in Conn : /\ Held(d)' \subseteq Held(d)
                          /\ Held(d) \subseteq Held(d)' \cup {NoRequest}
      BY <1>0, <2>1, <3>1, <3>2 DEF Held, Pending, Typed, TypeOK
    <3>4. \A u \in Thread : pc'[u] \in {"added", "waiting"} => treq[u] \in Held(tconn[u])'
      BY <2>1, <3>3, Sleeper
    <3> QED
      BY <1>0, <2>1, <3>3, <3>4, FilingFrame
  <2> QED
    BY <2>2, <2>3
<1>15. ASSUME NEW c \in Conn, MoveRequest(c)
       PROVE  Filing'
  <2>1. UNCHANGED <<pc, treq, tconn, queue>>
    BY <1>15 DEF MoveRequest
  <2>2. /\ hand' = [hand EXCEPT ![c] = NoRequest]
        /\ waiting' = [waiting EXCEPT ![c] = Append(@, hand[c])]
    BY <1>15 DEF MoveRequest
  <2>3. SeqRange(Append(waiting[c], hand[c])) = SeqRange(waiting[c]) \cup {hand[c]}
    BY <1>0, <1>15, RangeAppend DEF MoveRequest, Typed, TypeOK, WorkersWired
  <2>4. \A d \in Conn : /\ Held(d)' \subseteq Held(d) \cup {NoRequest}
                        /\ Held(d) \subseteq Held(d)'
    BY <1>0, <2>1, <2>2, <2>3 DEF Held, Pending, Typed, TypeOK
  <2>5. \A u \in Thread : pc'[u] \in {"added", "waiting"} => treq[u] \in Held(tconn[u])'
    BY <2>1, <2>4, Sleeper
  <2> QED
    BY <1>0, <2>1, <2>4, <2>5, FilingFrame
<1>16. ASSUME NEW n \in Node, Exit(n)
       PROVE  Filing'
  BY <1>0, <1>16, NodeDownFiling DEF Exit
<1>17. CASE UNCHANGED vars
  BY <1>1, <1>17 DEF vars
<1> QED
  BY <1>3, <1>4, <1>5, <1>6, <1>7, <1>8, <1>9, <1>10, <1>11, <1>12, <1>13, <1>14, <1>15,
     <1>16, <1>17
  DEF Next, Clean, Worker, Proceed, Call, Proc

(* Filing is an invariant of the specification. *)
LEMMA FilingInvariant == Spec => []Filing
<1>1. Init => Filing
  BY InitFiling
<1>2. Filing /\ [Next]_vars => Filing'
  BY StepFiling
<1> QED
  BY <1>1, <1>2, PTL DEF Spec

(* A thread that sleeps in cv.wait, or is about to, has its request in the *)
(* queue, the worker's hand or the waiting list of its connection: no      *)
(* answer and no destructor passes it by unnoticed.                        *)
THEOREM WakeupsKept == Spec => []NoLostWakeup
<1>1. Filing => NoLostWakeup
  BY DEF Filing
<1> QED
  BY <1>1, FilingInvariant, PTL

(* add_request and _check_requests take the queue's and the request's      *)
(* mutex in opposite orders and still cannot block each other: a request   *)
(* whose thread is in add_request is in no worker's hand.                  *)
THEOREM LocksAcyclic == Spec => []NoLockCycle
<1>1. Filing => NoLockCycle
  <2> SUFFICES ASSUME Filing, NEW t \in Thread, pc[t] = "created",
                      hand[tconn[t]] = treq[t]
               PROVE  FALSE
    BY DEF NoLockCycle
  <2>1. tconn[t] \in Conn
    BY DEF Filing, Typed, ThreadsWired, Calling
  <2> QED
    BY <2>1 DEF Filing, NotFiledYet, Held
<1> QED
  BY <1>1, FilingInvariant, PTL

----------------------------------------------------------------------------
(* How long connections live. *)

(* A connection leaves _connections only after its worker left run().  *)
Joined == \A c \in Conn : c \notin conns[Owner[c]] => wpc[c] = "done"

Lifetimes == Typed /\ Joined /\ NoUseAfterDestroy

(* An action that destroys nothing keeps Lifetimes if workers that are done *)
(* stay so and connections no thread refers to and _connections has lost   *)
(* are not found again.                                                    *)
LEMMA LifetimesFrame ==
  ASSUME Lifetimes, Typed', destroyed' = destroyed,
         \A c \in Conn : /\ wpc[c] = "done" => wpc'[c] = "done"
                         /\ conns'[Owner[c]] \subseteq conns[Owner[c]]
                         /\ c \in conns[Owner[c]] \ conns'[Owner[c]] => wpc'[c] = "done"
                         /\ c \notin conns[Owner[c]] => Refs(c)' \subseteq Refs(c)
  PROVE  Lifetimes'
<1>1. Joined'
  BY DEF Lifetimes, Joined
<1>2. NoUseAfterDestroy'
  BY DEF Lifetimes, Typed, TypeOK, NoUseAfterDestroy
<1> QED
  BY <1>1, <1>2 DEF Lifetimes

(* The end of a process destroys nothing and leaves its workers done. *)
LEMMA NodeDownLifetimes ==
  ASSUME Lifetimes, Typed', NEW n \in Node, NEW how, NodeDown(n, how)
  PROVE  Lifetimes'
<1>1. /\ destroyed' = destroyed
      /\ \A c \in Conn : wpc'[c] = IF Owner[c] = n THEN "done" ELSE wpc[c]
      /\ \A m \in Node : conns'[m] = IF m = n THEN {} ELSE conns[m]
  BY DEF NodeDown, Lifetimes, Typed, TypeOK
<1>2. \A u \in Thread : \/ pc'[u] = "idle"
                        \/ pc'[u] = pc[u] /\ tconn'[u] = tconn[u]
  BY ConstAssumption DEF NodeDown, Proc, HomeOf
<1>3. \A c \in Conn : Refs(c)' \subseteq Refs(c)
  BY <1>2 DEF Refs
<1> QED
  BY <1>1, <1>3, ConstAssumption, LifetimesFrame

(* Lifetimes holds initially. *)
LEMMA InitLifetimes ==
  ASSUME Init
  PROVE  Lifetimes
<1>1. Typed
  BY InitTyped
<1> QED
  BY <1>1, ConstAssumption DEF Lifetimes, Init, Joined, NoUseAfterDestroy

(* The destructor runs for a connection that is joined, erased and         *)
(* referred to by nobody.                                                  *)
LEMMA DestroyLifetimes ==
  ASSUME Lifetimes, Typed', NEW c \in Conn, destroyed' = destroyed \cup {c},
         wpc' = wpc, wpc[c] = "done", c \notin conns'[Owner[c]],
         \A d \in Conn : /\ conns'[Owner[d]] \subseteq conns[Owner[d]]
                         /\ d # c => (d \in conns'[Owner[d]] <=> d \in conns[Owner[d]])
                         /\ Refs(d)' \subseteq Refs(d),
         Refs(c)' = {}
  PROVE  Lifetimes'
<1>1. Joined'
  BY DEF Lifetimes, Joined
<1>2. NoUseAfterDestroy'
  BY DEF Lifetimes, Typed, TypeOK, NoUseAfterDestroy
<1> QED
  BY <1>1, <1>2 DEF Lifetimes

(* Every action keeps Lifetimes. *)
LEMMA StepLifetimes ==
  ASSUME Lifetimes, [Next]_vars
  PROVE  Lifetimes'
<1> USE ConstAssumption DEF nodeVars, threadVars, reqVars, workVars, listVars, netVars
<1>0. /\ Typed /\ Typed' /\ TypeOK /\ pc \in [Proc -> ThreadPc]
      /\ wpc \in [Conn -> WorkerPc]
  BY StepTyped DEF Lifetimes, Typed, TypeOK
<1>1. ASSUME UNCHANGED <<pc, tconn, conns, destroyed>>,
             \A c \in Conn : wpc[c] = "done" => wpc'[c] = "done"
      PROVE  Lifetimes'
  <2>1. \A c \in Conn : Refs(c)' = Refs(c)
    BY <1>1 DEF Refs
  <2> QED
    BY <1>0, <1>1, <2>1, LifetimesFrame
<1>2. ASSUME NEW t \in Thread, UNCHANGED <<conns, destroyed, wpc>>,
             \A u \in Thread : u # t => pc'[u] = pc[u] /\ tconn'[u] = tconn[u],
             \/ pc'[t] \notin {"found", "created", "added", "waiting", "woken"}
             \/ tconn'[t] = tconn[t] /\ pc[t] \in {"found", "created", "added", "waiting"}
             \/ tconn'[t] = tconn[t] /\ tconn[t] \in conns[Home[t]]
      PROVE  Lifetimes'
  <2>1. ASSUME NEW c \in Conn, c \notin conns[Owner[c]]
        PROVE  Refs(c)' \subseteq Refs(c)
    <3> SUFFICES ASSUME NEW u \in Refs(c)'
                 PROVE  u \in Refs(c)
      OBVIOUS
    <3>1. u # t => u \in Refs(c)
      BY <1>2 DEF Refs
    <3>2. CASE u = t
      <4>1. /\ tconn'[t] = c
            /\ pc'[t] \in {"found", "created", "added", "waiting", "woken"}
        BY <3>2 DEF Refs
      <4>2. tconn'[t] = tconn[t] /\ tconn[t] \in conns[Home[t]] => FALSE
        BY <1>0, <2>1, <4>1 DEF Typed, NodesWired
      <4> QED
        BY <1>2, <3>2, <4>1, <4>2 DEF Refs
    <3> QED
      BY <3>1, <3>2
  <2> QED
    BY <1>0, <1>2, <2>1, LifetimesFrame
<1>3. ASSUME NEW c \in Conn,
             \/ Receive(c) \/ ParseNothing(c) \/ UpdateKeys(c) \/ ParseRequest(c)
             \/ SendResponse(c) \/ SnapshotKeys(c) \/ SendKeys(c) \/ SendRequest(c)
             \/ CheckRequests(c) \/ MoveRequest(c) \/ Reset(c)
      PROVE  Lifetimes'
  <2>1. UNCHANGED <<pc, tconn, conns, destroyed>>
    BY <1>3 DEF Receive, ParseNothing, UpdateKeys, ParseRequest, SendResponse, SnapshotKeys,
       SendKeys, SendRequest, CheckRequests, MoveRequest, Reset
  <2>2. wpc[c] # "done" \/ wpc' = wpc
    BY <1>3 DEF Receive, ParseNothing, UpdateKeys, ParseRequest, SendResponse, SnapshotKeys,
       SendKeys, SendRequest, CheckRequests, MoveRequest, Reset
  <2>3. \A d \in Conn : d # c => wpc'[d] = wpc[d]
    BY <1>0, <1>3 DEF Receive, ParseNothing, UpdateKeys, ParseRequest, SendResponse,
       SnapshotKeys, SendKeys, SendRequest, CheckRequests, MoveRequest, Reset
  <2> QED
    BY <1>1, <2>1, <2>2, <2>3
<1>4. ASSUME NEW t \in Thread, NEW k \in Key, Get(t, k)
      PROVE  Lifetimes'
  BY <1>0, <1>2, <1>4 DEF Get, TypeOK, Proc
<1>5. ASSUME NEW t \in Thread, NEW k \in Key, SetCheck(t, k)
      PROVE  Lifetimes'
  <2>1. CASE known[Home[t]][k] # NoConn
    BY <1>0, <1>5, <2>1, NodeDownLifetimes DEF SetCheck
  <2>2. CASE known[Home[t]][k] = NoConn
    BY <1>0, <1>2, <1>5, <2>2 DEF SetCheck, TypeOK, Proc
  <2> QED
    BY <2>1, <2>2
<1>6. ASSUME NEW t \in Thread,
             \/ SetInsert(t) \/ CleanLock(t) \/ CleanUnlock(t)
             \/ AddRequest(t) \/ Wait(t) \/ SpuriousWakeup(t)
      PROVE  Lifetimes'
  <2>1. /\ UNCHANGED <<conns, destroyed, wpc, tconn>>
        /\ \A u \in Thread : u # t => pc'[u] = pc[u]
    BY <1>0, <1>6 DEF SetInsert, CleanLock, CleanUnlock, AddRequest, Wait, SpuriousWakeup,
       Proc
  <2>2. \/ pc'[t] \notin {"found", "created", "added", "waiting", "woken"}
        \/ pc[t] \in {"found", "created", "added", "waiting"}
    BY <1>0, <1>6 DEF SetInsert, CleanLock, CleanUnlock, AddRequest, Wait, SpuriousWakeup,
       Proc
  <2> QED
    BY <1>2, <2>1, <2>2
<1>7. ASSUME NEW n \in Node, CleanLock(n) \/ CleanUnlock(n)
      PROVE  Lifetimes'
  <2>1. /\ UNCHANGED <<tconn, conns, destroyed, wpc>>
        /\ \A u \in Thread : pc'[u] = pc[u]
    BY <1>0, <1>7 DEF CleanLock, CleanUnlock, Proc
  <2>2. \A c \in Conn : Refs(c)' = Refs(c)
    BY <2>1 DEF Refs
  <2> QED
    BY <1>0, <2>1, <2>2, LifetimesFrame
<1>8. ASSUME NEW t \in Thread, FindConn(t)
      PROVE  Lifetimes'
  <2>1. CASE tconn[t] \in conns[Home[t]]
    BY <1>0, <1>2, <1>8, <2>1 DEF FindConn, Proc
  <2>2. CASE tconn[t] \notin conns[Home[t]]
    <3>1. /\ pc' = [pc EXCEPT ![t] = "idle"] /\ tconn' = [tconn EXCEPT ![t] = NoConn]
          /\ UNCHANGED <<conns, destroyed, wpc>>
      BY <1>8, <2>2 DEF FindConn
    <3>2. /\ pc'[t] = "idle"
          /\ \A u \in Thread : u # t => pc'[u] = pc[u] /\ tconn'[u] = tconn[u]
      BY <1>0, <3>1 DEF TypeOK, Proc
    <3> QED
      BY <1>2, <3>1, <3>2
  <2> QED
    BY <2>1, <2>2
<1>9. ASSUME NEW t \in Thread, NEW r \in Request, CreateRequest(t, r)
      PROVE  Lifetimes'
  <2>1. CASE finished[tconn[t]]
    BY <1>0, <1>9, <2>1, NodeDownLifetimes DEF CreateRequest
  <2>2. CASE ~finished[tconn[t]]
    BY <1>0, <1>2, <1>9, <2>2 DEF CreateRequest, Proc
  <2> QED
    BY <2>1, <2>2
<1>10. ASSUME NEW p \in Proc, NEW c \in Conn, CleanErase(p, c)
       PROVE  Lifetimes'
  <2>0. HomeOf(p) = Owner[c]
    <3>1. HomeOf(p) \in Node
      BY DEF HomeOf, Proc
    <3>2. c \in conns[HomeOf(p)]
      BY <1>10 DEF CleanErase
    <3> QED
      BY <1>0, <3>1, <3>2 DEF Typed, NodesWired
  <2>1. /\ wpc[c] = "done" /\ wpc' = wpc /\ tconn' = tconn
        /\ HomeOf(p) = Owner[c]
        /\ conns' = [conns EXCEPT ![Owner[c]] = @ \ {c}]
    BY <1>10, <2>0 DEF CleanErase
  <2>2. \A d \in Conn : /\ conns'[Owner[d]] \subseteq conns[Owner[d]]
                        /\ d # c => (d \in conns'[Owner[d]] <=> d \in conns[Owner[d]])
                        /\ c \notin conns'[Owner[c]]
    BY <1>0, <2>1 DEF TypeOK
  <2>3. pc' = pc \/ pc' = Notify(pc, Pending(c))
    BY <1>10 DEF CleanErase
  <2>4. \A u \in Thread : pc'[u] = pc[u] \/ (pc[u] = "waiting" /\ pc'[u] = "woken")
    BY <2>3 DEF Notify, Proc
  <2>5. \A d \in Conn : Refs(d)' \subseteq Refs(d)
    BY <2>1, <2>4 DEF Refs
  <2>6. CASE Refs(c) = {}
    <3>1. destroyed' = destroyed \cup {c}
      BY <1>10, <2>6 DEF CleanErase, Destroy
    <3> QED
      BY <1>0, <2>1, <2>2, <2>5, <2>6, <3>1, DestroyLifetimes
  <2>7. CASE Refs(c) # {}
    <3>1. destroyed' = destroyed
      BY <1>10, <2>7 DEF CleanErase, Keep
    <3> QED
      BY <1>0, <2>1, <2>2, <2>5, <3>1, LifetimesFrame
  <2> QED
    BY <2>6, <2>7
<1>11. ASSUME NEW t \in Thread, Return(t)
       PROVE  Lifetimes'
  <2> DEFINE gone == [pc EXCEPT ![t] = "idle"]
  <2>1. PICK c \in Conn : c = tconn[t] /\ Owner[c] = Home[t]
    BY <1>0, <1>11 DEF Return, Typed, ThreadsWired, Calling
  <2>2. /\ UNCHANGED <<wpc, conns>>
        /\ gone[t] = "idle" /\ tconn'[t] = NoConn
        /\ \A u \in Thread : u # t => gone[u] = pc[u] /\ tconn'[u] = tconn[u]
    BY <1>0, <1>11 DEF Return, TypeOK, Proc
  <2> HIDE DEF gone
  <2>3. pc' = gone \/ pc' = Notify(gone, Pending(c))
    BY <1>11, <2>1 DEF Return, gone
  <2>4. \A u \in Thread : pc'[u] = gone[u] \/ (gone[u] = "waiting" /\ pc'[u] = "woken")
    BY <2>3 DEF Notify, Proc
  <2>5. \A d \in Conn : Refs(d)' \subseteq Refs(d) \ {t}
    BY <2>2, <2>4 DEF Refs
  <2>6. CASE Refs(c) = {t} /\ c \notin conns[Home[t]]
    <3>1. destroyed' = destroyed \cup {c}
      BY <1>11, <2>1, <2>6 DEF Return, Destroy
    <3>2. wpc[c] = "done" /\ Refs(c)' = {}
      BY <2>1, <2>5, <2>6 DEF Lifetimes, Joined
    <3> QED
      BY <1>0, <2>1, <2>2, <2>5, <2>6, <3>1, <3>2, DestroyLifetimes
  <2>7. CASE ~(Refs(c) = {t} /\ c \notin conns[Home[t]])
    <3>1. destroyed' = destroyed
      BY <1>11, <2>1, <2>7 DEF Return, Keep
    <3> QED
      BY <1>0, <2>2, <2>5, <3>1, LifetimesFrame
  <2> QED
    BY <2>6, <2>7
<1>12. ASSUME NEW c \in Conn, Deliver(c)
       PROVE  Lifetimes'
  <2> DEFINE r == waiting[c][Match(c, Head(rbuf[c]).key)]
  <2>1. UNCHANGED <<tconn, conns, destroyed>> /\ wpc[c] = "parse"
    BY <1>12 DEF Deliver
  <2>2. \A d \in Conn : d # c => wpc'[d] = wpc[d]
    BY <1>0, <1>12 DEF Deliver
  <2>3. pc' = pc \/ pc' = Notify(pc, {r})
    BY <1>12 DEF Deliver
  <2>4. \A u \in Thread : pc'[u] = pc[u] \/ (pc[u] = "waiting" /\ pc'[u] = "woken")
    BY <2>3 DEF Notify, Proc
  <2>5. \A d \in Conn : Refs(d)' \subseteq Refs(d)
    BY <2>1, <2>4 DEF Refs
  <2> QED
    BY <1>0, <2>1, <2>2, <2>5, LifetimesFrame
<1>13. ASSUME NEW n \in Node, Exit(n)
       PROVE  Lifetimes'
  BY <1>0, <1>13, NodeDownLifetimes DEF Exit
<1>14. CASE UNCHANGED vars
  BY <1>1, <1>14 DEF vars
<1> QED
  BY <1>3, <1>4, <1>5, <1>6, <1>7, <1>8, <1>9, <1>10, <1>11, <1>12, <1>13, <1>14
  DEF Next, Clean, Worker, Proceed, Call, Proc

(* A CtCConnection is destroyed only when its worker has left run() and no  *)
(* thread uses it any more, although get_value gives up the mutex that     *)
(* guards _connections before it uses what it found there.                 *)
THEOREM NeverUsedAfterDestroy == Spec => []NoUseAfterDestroy
<1>1. Init => Lifetimes
  BY InitLifetimes
<1>2. Lifetimes /\ [Next]_vars => Lifetimes'
  BY StepLifetimes
<1>3. Lifetimes => NoUseAfterDestroy
  BY DEF Lifetimes
<1> QED
  BY <1>1, <1>2, <1>3, PTL DEF Spec

=============================================================================
