---------------------------- MODULE CtCAnswers_proofs ----------------------------
(***************************************************************************)
(* Proofs about what CtCRequests answers: an answered call holds the       *)
(* DataFrame it asked for (Honest), a request is filed once (Singly),      *)
(* answers arrive in the order of the requests (Ordered), threads,         *)
(* connections, packets and worker threads together implement RemoteRead,  *)
(* and sockets with room for the reads never block two workers (Bounded).  *)
(***************************************************************************)
EXTENDS CtCRequests_proofs, CtCImplementsRead, InductionLemmas, FiniteSetTheorems

----------------------------------------------------------------------------
(* Ranges of what Receive builds. *)

(* Concatenation adds no elements. *)
LEMMA RangeConcat ==
  ASSUME NEW S, NEW s \in Seq(S), NEW u \in Seq(S)
  PROVE  SeqRange(s \o u) = SeqRange(s) \cup SeqRange(u)
<1>1. /\ s \o u \in Seq(S) /\ Len(s \o u) = Len(s) + Len(u)
      /\ \A i \in 1..(Len(s) + Len(u)) :
           (s \o u)[i] = IF i <= Len(s) THEN s[i] ELSE u[i - Len(s)]
  BY ConcatProperties
<1>2. /\ SeqRange(s \o u) = {(s \o u)[i] : i \in 1..(Len(s) + Len(u))}
      /\ SeqRange(s) = {s[i] : i \in 1..Len(s)}
      /\ SeqRange(u) = {u[i] : i \in 1..Len(u)}
      /\ Len(s) \in Nat /\ Len(u) \in Nat
  BY <1>1, RangeType, LenProperties
<1> DEFINE m == Len(s)
           n == Len(u)
<1> HIDE DEF m, n
<1>3. SeqRange(s \o u) \subseteq SeqRange(s) \cup SeqRange(u)
  <2> SUFFICES ASSUME NEW i \in 1..(m + n)
               PROVE  (s \o u)[i] \in SeqRange(s) \cup SeqRange(u)
    BY <1>2 DEF m, n
  <2>1. CASE i <= m
    BY <2>1, <1>1, <1>2 DEF m, n
  <2>2. CASE ~(i <= m)
    <3>1. m \in Nat /\ n \in Nat
      BY <1>2 DEF m, n
    <3>2. i - m \in 1..n
      BY <2>2, <3>1
    <3>3. (s \o u)[i] = u[i - m]
      BY <1>1, <2>2 DEF m, n
    <3> QED
      BY <1>2, <3>2, <3>3 DEF n
  <2> QED
    BY <2>1, <2>2
<1>4. SeqRange(s) \subseteq SeqRange(s \o u)
  <2> SUFFICES ASSUME NEW i \in 1..m
               PROVE  s[i] \in SeqRange(s \o u)
    BY <1>2 DEF m
  <2>1. i \in 1..(m + n) /\ i <= m
    BY <1>2 DEF m, n
  <2> QED
    BY <2>1, <1>1, <1>2 DEF m, n
<1>5. SeqRange(u) \subseteq SeqRange(s \o u)
  <2> SUFFICES ASSUME NEW i \in 1..n
               PROVE  u[i] \in SeqRange(s \o u)
    BY <1>2 DEF n
  <2>1. m \in Nat /\ n \in Nat
    BY <1>2 DEF m, n
  <2>2. i + m \in 1..(m + n) /\ ~(i + m <= m) /\ (i + m) - m = i
    BY <2>1
  <2>3. (s \o u)[i + m] = u[i]
    BY <1>1, <2>2 DEF m, n
  <2> QED
    BY <1>2, <2>2, <2>3 DEF m, n
<1> QED
  BY <1>3, <1>4, <1>5

(* Neither does taking a subsequence. *)
LEMMA RangeSubSeq ==
  ASSUME NEW S, NEW s \in Seq(S), NEW m \in Nat \ {0}, NEW n \in Nat, n <= Len(s)
  PROVE  SubSeq(s, m, n) \in Seq(S) /\ SeqRange(SubSeq(s, m, n)) \subseteq SeqRange(s)
<1> DEFINE u == SubSeq(s, m, n)
<1>1. \A i \in m..n : s[i] \in S
  BY ElementOfSeq, LenProperties
<1>2. /\ u \in Seq(S)
      /\ Len(u) = IF m <= n THEN n - m + 1 ELSE 0
      /\ \A i \in 1..(n - m + 1) : u[i] = s[m + i - 1]
  BY <1>1, SubSeqProperties
<1> HIDE DEF u
<1>3. SeqRange(u) = {u[i] : i \in 1..Len(u)} /\ SeqRange(s) = {s[i] : i \in 1..Len(s)}
  BY <1>2, RangeType
<1>4. ASSUME NEW i \in 1..Len(u)
      PROVE  u[i] \in SeqRange(s)
  <2>1. m <= n /\ i \in 1..(n - m + 1)
    BY <1>2
  <2>2. m + i - 1 \in 1..n
    BY <2>1
  <2>3. m + i - 1 \in 1..Len(s)
    BY <2>2, LenProperties
  <2> QED
    BY <1>2, <1>3, <2>1, <2>3
<1>5. SeqRange(u) \subseteq SeqRange(s)
  BY <1>3, <1>4
<1> QED
  BY <1>2, <1>5 DEF u

----------------------------------------------------------------------------
(* The inductive invariant.  That the answer in a woken thread's request is *)
(* right depends on every packet that leads to it: the key lists from which *)
(* a node learns where a key lives, the requests and the responses.        *)

(* Keys of the node at the other end of c. *)
StoredAt(c) == store[Owner[Peer[c]]]

(* What packet p, on its way to c, says is so. *)
Truthful(c, p) ==
  /\ p.type = "KEY_LIST" => p.keys \subseteq StoredAt(c)
  /\ p.type = "VALUE_REQUEST" => p.key \in store[Owner[c]]
  /\ p.type = "VALUE_RESPONSE" => /\ p.key \in StoredAt(c)
                                  /\ p.value = DataFrame(Owner[Peer[c]], p.key)

Inbound(c) == SeqRange(rbuf[c]) \cup SeqRange(net[c]) \cup {out[Peer[c]]}

PacketsTruthful == \A c \in Conn : \A p \in Inbound(c) : Truthful(c, p)

(* A node believes a key to live where it does. *)
KnownStored ==
  \A n \in Node, k \in Key : known[n][k] # NoConn => k \in StoredAt(known[n][k])

CallsStored == \A t \in Thread : pc[t] \in Calling => tkey[t] \in StoredAt(tconn[t])

HeldStored ==
  \A c \in Conn : \A r \in Held(c) : r # NoRequest => rkey[r] \in StoredAt(c)

(* A call's request is for the call's key, is filed with no connection but  *)
(* the call's, and holds no value but the one the call is to return.       *)
RequestWired(t) ==
  /\ rkey[treq[t]] = tkey[t]
  /\ \A c \in Conn : treq[t] \in Held(c) => c = tconn[t]
  /\ rval[treq[t]] \in {Null, DataFrame(Owner[Peer[tconn[t]]], tkey[t])}

RequestsWired == \A t \in Thread : pc[t] \in Requesting => RequestWired(t)

Honest ==
  /\ Filing
  /\ PacketsTruthful /\ KnownStored /\ CallsStored /\ HeldStored /\ RequestsWired

(* Honest holds initially. *)
LEMMA InitHonest ==
  ASSUME Init
  PROVE  Honest
<1> USE ConstAssumption
<1>1. Filing /\ SeqRange(<<>>) = {}
  BY InitFiling DEF SeqRange
<1>2. PacketsTruthful
  BY <1>1 DEF Init, PacketsTruthful, Inbound, Truthful, NoPacket
<1>3. KnownStored
  BY DEF Init, KnownStored
<1>4. CallsStored /\ RequestsWired
  BY DEF Init, CallsStored, RequestsWired, Calling, Requesting, Proc
<1>5. HeldStored
  BY <1>1 DEF Init, HeldStored, Held, Pending
<1> QED
  BY <1>1, <1>2, <1>3, <1>4, <1>5 DEF Honest

(* What a step may do to keep Honest: it removes no key, and whatever it    *)
(* adds is true.                                                           *)
LEMMA HonestFrame ==
  ASSUME Honest, Filing',
         \A n \in Node : store[n] \subseteq store'[n],
         \A c \in Conn : \A p \in Inbound(c)' :
           p \in Inbound(c) \/ p = NoPacket \/ Truthful(c, p)',
         \A n \in Node, k \in Key :
           known'[n][k] = known[n][k] \/ (k \in StoredAt(known[n][k]))',
         \A t \in Thread : pc'[t] \in Calling =>
           \/ pc[t] \in Calling /\ tkey'[t] = tkey[t] /\ tconn'[t] = tconn[t]
           \/ (tkey[t] \in StoredAt(tconn[t]))',
         \A c \in Conn : \A r \in Held(c)' :
           r = NoRequest \/ (r \in Held(c) /\ rkey'[r] = rkey[r]) \/ rkey'[r] \in StoredAt(c)',
         \A t \in Thread : pc'[t] \in Requesting => RequestWired(t)'
  PROVE  Honest'
<1> USE ConstAssumption
<1>1. \A c \in Conn : Owner[Peer[c]] \in Node /\ StoredAt(c) \subseteq StoredAt(c)'
  BY DEF StoredAt
<1>2. PacketsTruthful'
  <2> SUFFICES ASSUME NEW c \in Conn, NEW p \in Inbound(c)'
               PROVE  Truthful(c, p)'
    BY DEF PacketsTruthful
  <2>1. CASE p \in Inbound(c)
    <3>1. Truthful(c, p) /\ store[Owner[c]] \subseteq store'[Owner[c]]
      BY <2>1 DEF Honest, PacketsTruthful
    <3> QED
      BY <1>1, <3>1 DEF Truthful
  <2>2. CASE p = NoPacket
    BY <2>2 DEF Truthful, NoPacket
  <2> QED
    BY <2>1, <2>2
<1>3. KnownStored'
  <2>1. \A n \in Node, k \in Key : known[n][k] # NoConn => known[n][k] \in Conn
    BY DEF Honest, Filing, Typed, TypeOK
  <2> QED
    BY <1>1, <2>1 DEF Honest, KnownStored
<1>4. CallsStored'
  <2>1. \A t \in Thread : pc[t] \in Calling => tconn[t] \in Conn
    BY DEF Honest, Filing, Typed, ThreadsWired
  <2> QED
    BY <1>1, <2>1 DEF Honest, CallsStored
<1>5. HeldStored'
  BY <1>1 DEF Honest, HeldStored
<1>6. RequestsWired'
  BY DEF RequestsWired
<1> QED
  BY <1>2, <1>3, <1>4, <1>5, <1>6 DEF Honest

(* The same for a step after which a thread has a request only if it had    *)
(* that request before, in the same call.                                  *)
LEMMA RequestsFrame ==
  ASSUME Honest, NEW t \in Thread, pc[t] \in Requesting,
         treq'[t] = treq[t], tconn'[t] = tconn[t], tkey'[t] = tkey[t],
         rkey'[treq[t]] = rkey[treq[t]],
         rval'[treq[t]] \in {rval[treq[t]], Null, DataFrame(Owner[Peer[tconn[t]]], tkey[t])},
         \A c \in Conn : treq[t] \in Held(c)' => treq[t] \in Held(c) \/ c = tconn[t]
  PROVE  RequestWired(t)'
<1>1. RequestWired(t)
  BY DEF Honest, RequestsWired
<1> QED
  BY <1>1 DEF RequestWired

(* A step that leaves the calls, the requests and what nodes know alone     *)
(* keeps Honest if the packets it adds are true.                           *)
LEMMA PacketsFrame ==
  ASSUME Honest, Filing', UNCHANGED <<store, known, pc, tkey, tconn, treq, rkey, rval>>,
         \A c \in Conn : Held(c)' \subseteq Held(c) \cup {NoRequest},
         \A c \in Conn : \A p \in Inbound(c)' :
           p \in Inbound(c) \/ p = NoPacket \/ Truthful(c, p)'
  PROVE  Honest'
<1>1. \A t \in Thread : pc'[t] \in Requesting => treq[t] # NoRequest /\ pc[t] \in Requesting
  BY ConstAssumption DEF Honest, Filing, Typed, ThreadsWired
<1>2. \A t \in Thread : pc'[t] \in Requesting => RequestWired(t)'
  BY <1>1, RequestsFrame
<1> QED
  BY <1>2, HonestFrame

(* The end of a process removes packets and requests. *)
LEMMA NodeDownHonest ==
  ASSUME Honest, Filing', NEW n \in Node, NEW how, NodeDown(n, how)
  PROVE  Honest'
<1> USE ConstAssumption
<1>1. SeqRange(<<>>) = {}
  BY DEF SeqRange
<1>2. \A c \in Conn : Held(c)' \subseteq Held(c) \cup {NoRequest}
  BY <1>1 DEF NodeDown, Held, Pending
<1>3. \A c \in Conn : Inbound(c)' \subseteq Inbound(c) \cup {NoPacket}
  BY <1>1 DEF NodeDown, Inbound
<1>4. \A u \in Thread :
        \/ pc'[u] = "idle"
        \/ pc'[u] = pc[u] /\ treq'[u] = treq[u] /\ tconn'[u] = tconn[u]
  BY DEF NodeDown, Proc, HomeOf
<1>5. UNCHANGED <<store, known, tkey, rkey, rval>>
  BY DEF NodeDown, reqVars
<1>6. ASSUME NEW u \in Thread, pc'[u] \in Requesting
      PROVE  RequestWired(u)'
  <2>1. /\ pc[u] \in Requesting /\ treq'[u] = treq[u] /\ tconn'[u] = tconn[u]
        /\ treq[u] # NoRequest
    BY <1>4, <1>6 DEF Requesting, Honest, Filing, Typed, ThreadsWired
  <2> QED
    BY <1>2, <1>5, <2>1, RequestsFrame
<1>7. \A u \in Thread : pc'[u] \in Calling =>
        pc[u] \in Calling /\ tkey'[u] = tkey[u] /\ tconn'[u] = tconn[u]
  BY <1>4, <1>5 DEF Calling
<1> QED
  BY <1>2, <1>3, <1>5, <1>6, <1>7, HonestFrame

(* A request filed with c belongs to a thread that refers to c. *)
LEMMA HolderRefers ==
  ASSUME Honest, NEW t \in Thread, pc[t] \in Requesting, NEW c \in Conn, treq[t] \in Held(c)
  PROVE  t \in Refs(c)
<1>1. RequestWired(t)
  BY DEF Honest, RequestsWired
<1> QED
  BY <1>1 DEF RequestWired, Refs, Requesting

(* The destructor answers nobody: nobody who refers to the connection is    *)
(* left, or only the thread that is about to return.                       *)
LEMMA DestroyHonest ==
  ASSUME Honest, Filing', NEW c \in Conn, Destroy(c), hand' = hand, out' = out,
         UNCHANGED <<store, known, tkey, rkey>>,
         NEW at, pc' = Notify(at, Pending(c)),
         \A u \in Thread :
           \/ at[u] = "idle"
           \/ /\ at[u] = pc[u] /\ treq'[u] = treq[u] /\ tconn'[u] = tconn[u]
              /\ u \notin Refs(c)
  PROVE  /\ Honest'
         /\ \A u \in Thread : /\ pc'[u] = at[u]
                              /\ pc'[u] \in Requesting => rval'[treq[u]] = rval[treq[u]]
<1> USE ConstAssumption
<1>1. SeqRange(<<>>) = {}
  BY DEF SeqRange
<1>2. /\ \A d \in Conn : Held(d)' \subseteq Held(d)
      /\ \A d \in Conn : Inbound(d)' \subseteq Inbound(d)
  BY <1>1, SMTT(30) DEF Destroy, Held, Pending, Inbound, Honest, Filing, Typed, TypeOK
<1>3. ASSUME NEW u \in Thread
      PROVE  pc'[u] = at[u]
  <2> SUFFICES ASSUME at[u] = "waiting", treq[u] \in Pending(c)
               PROVE  FALSE
    BY DEF Notify, Proc
  <2>1. pc[u] = "waiting" /\ u \notin Refs(c)
    OBVIOUS
  <2> QED
    BY <2>1, HolderRefers DEF Requesting, Held
<1>4. ASSUME NEW u \in Thread, pc'[u] \in Requesting
      PROVE  /\ pc[u] \in Requesting /\ treq'[u] = treq[u] /\ tconn'[u] = tconn[u]
             /\ rval'[treq[u]] = rval[treq[u]]
  <2>1. /\ pc[u] \in Requesting /\ treq'[u] = treq[u] /\ tconn'[u] = tconn[u]
        /\ u \notin Refs(c)
    BY <1>3, <1>4 DEF Requesting
  <2>2. treq[u] \notin Pending(c) /\ treq[u] \in Request
    BY <2>1, HolderRefers DEF Held, Honest, Filing, Typed, ThreadsWired
  <2> QED
    BY <2>1, <2>2 DEF Destroy
<1>5. ASSUME NEW u \in Thread, pc'[u] \in Requesting
      PROVE  RequestWired(u)'
  BY <1>2, <1>4, <1>5, RequestsFrame
<1>6. \A u \in Thread : pc'[u] \in Calling =>
        pc[u] \in Calling /\ tkey'[u] = tkey[u] /\ tconn'[u] = tconn[u]
  BY <1>3 DEF Calling
<1>7. Honest'
  BY <1>2, <1>5, <1>6, HonestFrame
<1> QED
  BY <1>3, <1>4, <1>7

(* Send moves a packet from the hand of a worker to its peer's socket. *)
LEMMA SendInbound ==
  ASSUME Typed, NEW c \in Conn, out[c] \in Packet, Send(c), rbuf' = rbuf
  PROVE  \A d \in Conn : Inbound(d)' \subseteq Inbound(d) \cup {NoPacket}
<1> USE ConstAssumption
<1>1. \A d \in Conn : net[d] \in Seq(Packet) /\ Peer[d] \in Conn
  BY DEF Typed, TypeOK
<1>2. SeqRange(Append(net[Peer[c]], out[c])) = SeqRange(net[Peer[c]]) \cup {out[c]}
  BY <1>1, RangeAppend
<1>3. /\ \A d \in Conn : out'[d] = IF d = c THEN NoPacket ELSE out[d]
      /\ \A d \in Conn : net'[d] = net[d] \/ (d = Peer[c] /\ net'[d] = Append(net[d], out[c]))
  BY DEF Send, Typed, TypeOK
<1>4. ASSUME NEW d \in Conn
      PROVE  Inbound(d)' \subseteq Inbound(d) \cup {NoPacket}
  <2>1. CASE net'[d] = net[d]
    BY <1>1, <1>3, <2>1 DEF Inbound
  <2>2. CASE d = Peer[c] /\ net'[d] = Append(net[d], out[c])
    <3>1. Peer[d] = c
      BY <2>2
    <3> QED
      BY <1>2, <1>3, <2>2, <3>1 DEF Inbound
  <2> QED
    BY <1>3, <2>1, <2>2
<1> QED
  BY <1>4

(* Every action keeps Honest. *)
LEMMA StepHonest ==
  ASSUME Honest, [Next]_vars
  PROVE  Honest'
<1> USE ConstAssumption DEF nodeVars, threadVars, reqVars, workVars, listVars, netVars
<1>0. Filing /\ Typed /\ Typed' /\ Filing' /\ TypeOK /\ pc \in [Proc -> ThreadPc]
  BY StepFiling, StepTyped DEF Honest, Filing, Typed, TypeOK
<1>1. ASSUME NEW t \in Thread,
             UNCHANGED <<known, tkey, treq, rkey, rval, queue, waiting, hand, out, rbuf, net>>,
             \A n \in Node : store[n] \subseteq store'[n],
             \A u \in Thread : u # t => pc'[u] = pc[u] /\ tconn'[u] = tconn[u],
             pc'[t] \in Calling => tconn'[t] = tconn[t] /\ pc[t] \in Calling,
             pc'[t] \in Requesting => pc[t] \in Requesting
      PROVE  Honest'
  <2>1. \A c \in Conn : Inbound(c)' = Inbound(c) /\ Held(c)' = Held(c)
    BY <1>1 DEF Inbound, Held, Pending
  <2>2. ASSUME NEW u \in Thread, pc'[u] \in Requesting
        PROVE  RequestWired(u)'
    <3>1. pc[u] \in Requesting /\ tconn'[u] = tconn[u]
      BY <1>1, <2>2 DEF Calling, Requesting
    <3> QED
      BY <1>1, <2>1, <3>1, RequestsFrame
  <2>3. \A u \in Thread : pc'[u] \in Calling =>
          pc[u] \in Calling /\ tkey'[u] = tkey[u] /\ tconn'[u] = tconn[u]
    BY <1>1
  <2> QED
    BY <1>0, <1>1, <2>1, <2>2, <2>3, HonestFrame
<1>2. ASSUME NEW t \in Thread, NEW k \in Key, Get(t, k)
      PROVE  Honest'
  <2>1. /\ UNCHANGED <<store, known, treq, rkey, rval, queue, waiting, hand, out, rbuf, net>>
        /\ known[Home[t]][k] # NoConn /\ Home[t] \in Node
    BY <1>2 DEF Get
  <2>2. /\ tconn'[t] = known[Home[t]][k] /\ tkey'[t] = k /\ pc'[t] = "get"
        /\ \A u \in Thread : u # t =>
             pc'[u] = pc[u] /\ tconn'[u] = tconn[u] /\ tkey'[u] = tkey[u]
    BY <1>0, <1>2 DEF Get, TypeOK, Proc
  <2>3. \A c \in Conn : Inbound(c)' = Inbound(c) /\ Held(c)' = Held(c)
    BY <2>1 DEF Inbound, Held, Pending
  <2>4. (tkey[t] \in StoredAt(tconn[t]))'
    BY <2>1, <2>2 DEF Honest, KnownStored, StoredAt
  <2>5. ASSUME NEW u \in Thread, pc'[u] \in Requesting
        PROVE  RequestWired(u)'
    <3>1. u # t
      BY <2>2, <2>5 DEF Requesting
    <3> QED
      BY <2>1, <2>2, <2>3, <2>5, <3>1, RequestsFrame
  <2>6. \A u \in Thread : pc'[u] \in Calling =>
          \/ pc[u] \in Calling /\ tkey'[u] = tkey[u] /\ tconn'[u] = tconn[u]
          \/ (tkey[u] \in StoredAt(tconn[u]))'
    BY <2>2, <2>4
  <2> QED
    BY <1>0, <2>1, <2>3, <2>5, <2>6, HonestFrame
<1>3. ASSUME NEW t \in Thread, NEW k \in Key, SetCheck(t, k)
      PROVE  Honest'
  <2>1. CASE known[Home[t]][k] # NoConn
    BY <1>0, <1>3, <2>1, NodeDownHonest DEF SetCheck
  <2>2. CASE known[Home[t]][k] = NoConn
    <3>1. /\ pc' = [pc EXCEPT ![t] = "setting"] /\ tkey' = [tkey EXCEPT ![t] = k]
          /\ UNCHANGED <<store, known, tconn, treq, rkey, rval, queue, waiting, hand, out,
                         rbuf, net>>
      BY <1>3, <2>2 DEF SetCheck
    <3>2. /\ pc'[t] = "setting"
          /\ \A u \in Thread : u # t => pc'[u] = pc[u] /\ tkey'[u] = tkey[u]
      BY <1>0, <3>1 DEF TypeOK, Proc
    <3>3. \A c \in Conn : Inbound(c)' = Inbound(c) /\ Held(c)' = Held(c)
      BY <3>1 DEF Inbound, Held, Pending
    <3>4. \A u \in Thread : pc'[u] \in Calling =>
            pc[u] \in Calling /\ tkey'[u] = tkey[u] /\ tconn'[u] = tconn[u]
      BY <3>1, <3>2 DEF Calling
    <3>5. ASSUME NEW u \in Thread, pc'[u] \in Requesting
          PROVE  RequestWired(u)'
      <4>1. u # t
        BY <3>2, <3>5 DEF Requesting
      <4> QED
        BY <3>1, <3>2, <3>3, <3>5, <4>1, RequestsFrame
    <3> QED
      BY <1>0, <3>1, <3>3, <3>4, <3>5, HonestFrame
  <2> QED
    BY <2>1, <2>2
<1>4. ASSUME NEW t \in Thread,
             \/ SetInsert(t) \/ CleanLock(t) \/ CleanUnlock(t) \/ FindConn(t)
             \/ Wait(t) \/ SpuriousWakeup(t)
      PROVE  Honest'
  <2>1. UNCHANGED <<known, tkey, treq, rkey, rval, queue, waiting, hand, out, rbuf, net>>
    BY <1>4 DEF SetInsert, CleanLock, CleanUnlock, FindConn, Wait, SpuriousWakeup
  <2>2. \A n \in Node : store[n] \subseteq store'[n]
    <3>1. \/ store' = store
          \/ store' = [store EXCEPT ![Home[t]] = @ \cup {tkey[t]}]
      BY <1>4 DEF SetInsert, CleanLock, CleanUnlock, FindConn, Wait, SpuriousWakeup
    <3>2. store \in [Node -> SUBSET Key]
      BY <1>0 DEF TypeOK
    <3>3. CASE store' = [store EXCEPT ![Home[t]] = @ \cup {tkey[t]}]
      BY <3>2, <3>3
    <3> QED
      BY <3>1, <3>3
  <2>3. /\ \A u \in Thread : u # t => pc'[u] = pc[u]
        /\ pc'[t] \in Calling => pc[t] \in Calling
        /\ pc'[t] \in Requesting => pc[t] \in Requesting
    BY <1>0, <1>4 DEF SetInsert, CleanLock, CleanUnlock, FindConn, Wait, SpuriousWakeup, Proc,
       Calling, Requesting, HomeOf
  <2>4. \/ tconn' = tconn
        \/ tconn' = [tconn EXCEPT ![t] = NoConn] /\ pc' = [pc EXCEPT ![t] = "idle"]
    BY <1>4 DEF SetInsert, CleanLock, CleanUnlock, FindConn, Wait, SpuriousWakeup
  <2>5. /\ \A u \in Thread : u # t => tconn'[u] = tconn[u]
        /\ pc'[t] \in Calling => tconn'[t] = tconn[t]
    BY <1>0, <2>4 DEF TypeOK, Calling, Proc
  <2> QED
    BY <1>1, <2>1, <2>2, <2>3, <2>5
<1>5. ASSUME NEW n \in Node, CleanLock(n) \/ CleanUnlock(n)
      PROVE  Honest'
  <2>1. /\ UNCHANGED <<store, known, tconn, tkey, treq, rkey, rval, queue, waiting, hand, out,
                       rbuf, net>>
        /\ \A u \in Thread : pc'[u] = pc[u]
    BY <1>0, <1>5 DEF CleanLock, CleanUnlock, Proc
  <2>2. \A c \in Conn : Inbound(c)' = Inbound(c) /\ Held(c)' = Held(c)
    BY <2>1 DEF Inbound, Held, Pending
  <2>3. \A u \in Thread : pc'[u] \in Requesting => RequestWired(u)'
    BY <2>1, <2>2, RequestsFrame
  <2> QED
    BY <1>0, <2>1, <2>2, <2>3, HonestFrame
<1>6. ASSUME NEW t \in Thread, NEW r \in Request, CreateRequest(t, r)
      PROVE  Honest'
  <2>1. CASE finished[tconn[t]]
    BY <1>0, <1>6, <2>1, NodeDownHonest DEF CreateRequest
  <2>2. CASE ~finished[tconn[t]]
    <3>1. /\ pc[t] = "found" /\ ~InUse(r)
          /\ pc' = [pc EXCEPT ![t] = "created"] /\ treq' = [treq EXCEPT ![t] = r]
          /\ rkey' = [rkey EXCEPT ![r] = tkey[t]] /\ rval' = [rval EXCEPT ![r] = Null]
          /\ UNCHANGED <<store, known, tkey, tconn, queue, waiting, hand, out, rbuf, net>>
      BY <1>6, <2>2 DEF CreateRequest
    <3>2. /\ \A u \in Thread : treq[u] # r
          /\ \A c \in Conn : r \notin Held(c)
      BY <3>1 DEF InUse, Held, Pending
    <3>3. /\ treq'[t] = r /\ rkey'[r] = tkey[t] /\ rval'[r] = Null /\ pc'[t] = "created"
          /\ \A u \in Thread : u # t => pc'[u] = pc[u] /\ treq'[u] = treq[u]
          /\ \A q : q # r => rkey'[q] = rkey[q] /\ rval'[q] = rval[q]
      BY <1>0, <3>1 DEF TypeOK, Proc
    <3>4. \A c \in Conn : Inbound(c)' = Inbound(c) /\ Held(c)' = Held(c)
      BY <3>1 DEF Inbound, Held, Pending
    <3>5. \A u \in Thread : pc'[u] \in Calling =>
            pc[u] \in Calling /\ tkey'[u] = tkey[u] /\ tconn'[u] = tconn[u]
      BY <3>1, <3>3 DEF Calling
    <3>6. ASSUME NEW u \in Thread, pc'[u] \in Requesting
          PROVE  RequestWired(u)'
      <4>1. CASE u = t
        BY <3>1, <3>2, <3>3, <3>4, <4>1 DEF RequestWired
      <4>2. CASE u # t
        <5>1. treq[u] # r /\ pc[u] \in Requesting
          BY <3>2, <3>3, <3>6, <4>2
        <5> QED
          BY <3>1, <3>3, <3>4, <4>2, <5>1, RequestsFrame
      <4> QED
        BY <4>1, <4>2
    <3>7. \A c \in Conn : \A q \in Held(c)' : q \in Held(c) /\ rkey'[q] = rkey[q]
      BY <3>2, <3>3, <3>4
    <3> QED
      BY <1>0, <3>1, <3>4, <3>5, <3>6, <3>7, HonestFrame
  <2> QED
    BY <2>1, <2>2
<1>7. ASSUME NEW t \in Thread, AddRequest(t)
      PROVE  Honest'
  <2> DEFINE c == tconn[t]
  <2>1. /\ c \in Conn /\ treq[t] \in Request /\ pc[t] = "created"
    BY <1>0, <1>7 DEF AddRequest, Typed, ThreadsWired, Calling, Requesting
  <2>2. /\ UNCHANGED <<store, known, tkey, tconn, treq, rkey, rval, waiting, hand, out, rbuf,
                       net>>
        /\ pc'[t] = "added" /\ \A u \in Thread : u # t => pc'[u] = pc[u]
    BY <1>0, <1>7 DEF AddRequest, Proc
  <2>3. /\ SeqRange(queue'[c]) = SeqRange(queue[c]) \cup {treq[t]}
        /\ \A d \in Conn : d # c => queue'[d] = queue[d]
    BY <1>0, <1>7, <2>1, RangeAppend DEF AddRequest, TypeOK
  <2>4. \A d \in Conn : Held(d)' = Held(d) \cup (IF d = c THEN {treq[t]} ELSE {})
    BY <2>2, <2>3 DEF Held, Pending
  <2>5. \A d \in Conn : Inbound(d)' = Inbound(d)
    BY <2>2 DEF Inbound
  <2>6. RequestWired(t) /\ tkey[t] \in StoredAt(c)
    BY <2>1 DEF Honest, RequestsWired, CallsStored, Requesting, Calling
  <2>7. \A d \in Conn : \A q \in Held(d)' :
          (q \in Held(d) /\ rkey'[q] = rkey[q]) \/ rkey'[q] \in StoredAt(d)'
    <3>1. rkey'[treq[t]] = tkey[t] /\ StoredAt(c)' = StoredAt(c)
      BY <2>2, <2>6 DEF RequestWired, StoredAt
    <3> QED
      BY <2>2, <2>4, <2>6, <3>1
  <2>8. ASSUME NEW u \in Thread, pc'[u] \in Requesting
        PROVE  RequestWired(u)'
    <3>1. /\ pc[u] \in Requesting
          /\ u # t => treq[u] # treq[t]
      BY <1>0, <2>1, <2>2, <2>8 DEF Requesting, Filing, Distinct
    <3>2. \A d \in Conn : treq[u] \in Held(d)' => treq[u] \in Held(d) \/ d = tconn[u]
      BY <2>4, <3>1
    <3> QED
      BY <2>2, <3>1, <3>2, RequestsFrame
  <2>9. \A u \in Thread : pc'[u] \in Calling =>
          pc[u] \in Calling /\ tkey'[u] = tkey[u] /\ tconn'[u] = tconn[u]
    BY <2>1, <2>2 DEF Calling
  <2> QED
    BY <1>0, <2>2, <2>5, <2>7, <2>8, <2>9, HonestFrame
<1>8. ASSUME NEW p \in Proc, NEW c \in Conn, CleanErase(p, c)
      PROVE  Honest'
  <2>1. UNCHANGED <<store, known, tkey, tconn, treq, rkey, hand, out>>
    BY <1>8 DEF CleanErase
  <2>2. CASE Refs(c) = {}
    BY <1>0, <1>8, <2>1, <2>2, DestroyHonest DEF CleanErase
  <2>3. CASE Refs(c) # {}
    <3>1. UNCHANGED <<pc, rval, queue, waiting, rbuf, net>>
      BY <1>8, <2>3 DEF CleanErase, Keep
    <3>2. \A d \in Conn : Inbound(d)' = Inbound(d) /\ Held(d)' = Held(d)
      BY <2>1, <3>1 DEF Inbound, Held, Pending
    <3> QED
      BY <1>0, <2>1, <3>1, <3>2, PacketsFrame
  <2> QED
    BY <2>2, <2>3
<1>9. ASSUME NEW t \in Thread, Return(t)
      PROVE  Honest'
  <2> DEFINE c == tconn[t]
             gone == [pc EXCEPT ![t] = "idle"]
  <2>1. c \in Conn
    BY <1>0, <1>9 DEF Return, Typed, ThreadsWired, Calling
  <2>2. /\ UNCHANGED <<store, known, tkey, rkey, hand, out>>
        /\ gone[t] = "idle"
        /\ \A u \in Thread : u # t => /\ gone[u] = pc[u]
                                      /\ treq'[u] = treq[u] /\ tconn'[u] = tconn[u]
    BY <1>0, <1>9 DEF Return, TypeOK, Proc
  <2> HIDE DEF gone
  <2>3. CASE Refs(c) = {t} /\ c \notin conns[Home[t]]
    <3>1. Destroy(c) /\ pc' = Notify(gone, Pending(c))
      BY <1>9, <2>3 DEF Return, gone
    <3> HIDE DEF c
    <3> QED
      BY <1>0, <2>1, <2>2, <2>3, <3>1, DestroyHonest
  <2>4. CASE ~(Refs(c) = {t} /\ c \notin conns[Home[t]])
    <3>1. UNCHANGED <<rval, queue, waiting, rbuf, net>> /\ pc' = gone
      BY <1>9, <2>4 DEF Return, Keep, gone
    <3>2. \A d \in Conn : Inbound(d)' = Inbound(d) /\ Held(d)' = Held(d)
      BY <2>2, <3>1 DEF Inbound, Held, Pending
    <3>3. \A u \in Thread : pc'[u] = "idle" \/ (u # t /\ pc'[u] = pc[u])
      BY <2>2, <3>1
    <3>4. ASSUME NEW u \in Thread, pc'[u] \in Requesting
          PROVE  RequestWired(u)'
      <4>1. u # t /\ pc[u] \in Requesting
        BY <3>3, <3>4 DEF Requesting
      <4> QED
        BY <2>2, <3>1, <3>2, <4>1, RequestsFrame
    <3>5. \A u \in Thread : pc'[u] \in Calling =>
            pc[u] \in Calling /\ tkey'[u] = tkey[u] /\ tconn'[u] = tconn[u]
      BY <2>2, <3>3 DEF Calling
    <3> QED
      BY <1>0, <2>2, <3>2, <3>4, <3>5, HonestFrame
  <2> QED
    BY <2>3, <2>4
<1>10. ASSUME NEW c \in Conn, ParseNothing(c) \/ CheckRequests(c) \/ Reset(c)
       PROVE  Honest'
  <2>1. UNCHANGED <<store, known, pc, tkey, tconn, treq, rkey, rval, waiting, out, rbuf, net>>
    BY <1>10 DEF ParseNothing, CheckRequests, Reset
  <2>2. \A d \in Conn : Held(d)' \subseteq Held(d)
    <3>1. CASE UNCHANGED <<hand, queue>>
      BY <2>1, <3>1 DEF Held, Pending
    <3>2. CASE /\ CheckRequests(c) /\ queue[c] # <<>>
      <4>1. /\ hand' = [hand EXCEPT ![c] = Head(queue[c])]
            /\ queue' = [queue EXCEPT ![c] = Tail(@)]
        BY <3>2 DEF CheckRequests
      <4>2. SeqRange(queue[c]) = {Head(queue[c])} \cup SeqRange(Tail(queue[c]))
        BY <1>0, <3>2, RangeHeadTail DEF TypeOK
      <4> QED
        BY <1>0, <2>1, <4>1, <4>2 DEF Held, Pending, TypeOK
    <3> QED
      BY <1>10, <3>1, <3>2 DEF ParseNothing, CheckRequests, Reset
  <2>3. \A d \in Conn : Inbound(d)' = Inbound(d)
    BY <2>1 DEF Inbound
  <2> QED
    BY <1>0, <2>1, <2>2, <2>3, PacketsFrame
<1>11. ASSUME NEW c \in Conn, Receive(c)
       PROVE  Honest'
  <2> DEFINE room == RCap - Len(rbuf[c])
             m == IF Len(net[c]) < room THEN Len(net[c]) ELSE room
  <2>1. UNCHANGED <<store, known, pc, tkey, tconn, treq, rkey, rval, queue, waiting, hand, out>>
    BY <1>11 DEF Receive
  <2>2. rbuf[c] \in Seq(Packet) /\ net[c] \in Seq(Packet) /\ Len(rbuf[c]) <= RCap
    BY <1>0 DEF TypeOK, Typed, WorkersWired
  <2>3. m \in Nat /\ m <= Len(net[c]) /\ Len(net[c]) \in Nat
    BY <2>2, LenProperties
  <2>4. /\ SubSeq(net[c], 1, m) \in Seq(Packet)
        /\ SeqRange(SubSeq(net[c], 1, m)) \subseteq SeqRange(net[c])
        /\ SeqRange(SubSeq(net[c], m + 1, Len(net[c]))) \subseteq SeqRange(net[c])
    <3>1. m + 1 \in Nat \ {0}
      BY <2>3
    <3> HIDE DEF m
    <3> QED
      BY <2>2, <2>3, <3>1, RangeSubSeq
  <2>5. SeqRange(rbuf[c] \o SubSeq(net[c], 1, m))
          = SeqRange(rbuf[c]) \cup SeqRange(SubSeq(net[c], 1, m))
    <3> DEFINE u == SubSeq(net[c], 1, m)
    <3>1. u \in Seq(Packet)
      BY <2>4
    <3> HIDE DEF u
    <3>2. SeqRange(rbuf[c] \o u) = SeqRange(rbuf[c]) \cup SeqRange(u)
      BY <2>2, <3>1, RangeConcat
    <3> QED
      BY <3>2 DEF u
  <2>6. \/ /\ rbuf' = [rbuf EXCEPT ![c] = @ \o SubSeq(net[c], 1, m)]
           /\ net' = [net EXCEPT ![c] = SubSeq(@, m + 1, Len(@))]
        \/ /\ net' = [net EXCEPT ![c] = IF link[c] THEN @ ELSE <<>>]
           /\ UNCHANGED rbuf
    BY <1>11 DEF Receive
  <2> HIDE DEF m, room
  <2>7. /\ SeqRange(rbuf'[c]) \cup SeqRange(net'[c]) \subseteq SeqRange(rbuf[c]) \cup SeqRange(net[c])
        /\ \A d \in Conn : d # c => rbuf'[d] = rbuf[d] /\ net'[d] = net[d]
    <3>1. SeqRange(<<>>) = {}
      BY DEF SeqRange
    <3>2. CASE /\ rbuf' = [rbuf EXCEPT ![c] = @ \o SubSeq(net[c], 1, m)]
               /\ net' = [net EXCEPT ![c] = SubSeq(@, m + 1, Len(@))]
      BY <1>0, <2>4, <2>5, <3>2 DEF TypeOK
    <3>3. CASE /\ net' = [net EXCEPT ![c] = IF link[c] THEN @ ELSE <<>>]
               /\ UNCHANGED rbuf
      BY <1>0, <3>1, <3>3 DEF TypeOK
    <3> QED
      BY <2>6, <3>2, <3>3
  <2>8. \A d \in Conn : Inbound(d)' \subseteq Inbound(d) /\ Held(d)' = Held(d)
    BY <2>1, <2>7 DEF Inbound, Held, Pending
  <2> QED
    BY <1>0, <2>1, <2>8, PacketsFrame
<1>12. ASSUME NEW c \in Conn, UpdateKeys(c)
       PROVE  Honest'
  <2> DEFINE n == Owner[c]
             p == Head(rbuf[c])
  <2>1. /\ UNCHANGED <<store, pc, tkey, tconn, treq, rkey, rval, queue, waiting, hand, out, net>>
        /\ p.type = "KEY_LIST" /\ rbuf[c] # <<>>
        /\ rbuf' = [rbuf EXCEPT ![c] = Tail(@)]
        /\ known' = [known EXCEPT ![n] = [k \in Key |-> IF k \in p.keys THEN c ELSE @[k]]]
    BY <1>12 DEF UpdateKeys
  <2>2. SeqRange(rbuf[c]) = {p} \cup SeqRange(Tail(rbuf[c]))
    BY <1>0, <2>1, RangeHeadTail DEF TypeOK
  <2>3. p.keys \subseteq StoredAt(c)
    BY <2>1, <2>2 DEF Honest, PacketsTruthful, Truthful, Inbound
  <2> HIDE DEF p
  <2>4. \A d \in Conn : Inbound(d)' \subseteq Inbound(d) /\ Held(d)' = Held(d)
    BY <1>0, <2>1, <2>2 DEF TypeOK, Inbound, Held, Pending
  <2>5. \A m \in Node, k \in Key :
          known'[m][k] = known[m][k] \/ (k \in StoredAt(known[m][k]))'
    <3>1. StoredAt(c)' = StoredAt(c)
      BY <2>1 DEF StoredAt
    <3>2. \A m \in Node, k \in Key :
            known'[m][k] = known[m][k] \/ (known'[m][k] = c /\ k \in p.keys)
      BY <1>0, <2>1 DEF TypeOK
    <3> SUFFICES ASSUME NEW m \in Node, NEW k \in Key, known'[m][k] # known[m][k]
                 PROVE  (k \in StoredAt(known[m][k]))'
      OBVIOUS
    <3>3. known'[m][k] = c /\ k \in StoredAt(c)
      BY <2>3, <3>2
    <3> QED
      BY <3>1, <3>3 DEF StoredAt
  <2>6. ASSUME NEW u \in Thread, pc'[u] \in Requesting
        PROVE  RequestWired(u)'
    BY <2>1, <2>4, <2>6, RequestsFrame
  <2> QED
    BY <1>0, <2>1, <2>4, <2>5, <2>6, HonestFrame
<1>13. ASSUME NEW c \in Conn, ParseRequest(c)
       PROVE  Honest'
  <2>0. PICK p, a :
          /\ p = Head(rbuf[c])
          /\ a = ValueResponse(p.key, IF p.key \in store[Owner[c]]
                                       THEN DataFrame(Owner[c], p.key) ELSE Null)
    OBVIOUS
  <2>1. /\ UNCHANGED <<store, known, pc, tkey, tconn, treq, rkey, rval, queue, waiting, hand, net>>
        /\ p.type = "VALUE_REQUEST" /\ rbuf[c] # <<>>
        /\ rbuf' = [rbuf EXCEPT ![c] = Tail(@)] /\ out' = [out EXCEPT ![c] = a]
    BY <1>13, <2>0 DEF ParseRequest
  <2>2. SeqRange(rbuf[c]) = {p} \cup SeqRange(Tail(rbuf[c]))
    BY <1>0, <2>0, <2>1, RangeHeadTail DEF TypeOK
  <2>3. p.key \in store[Owner[c]]
    BY <2>1, <2>2 DEF Honest, PacketsTruthful, Truthful, Inbound
  <2>4. Truthful(Peer[c], a)'
    BY <2>0, <2>1, <2>3 DEF Truthful, ValueResponse, StoredAt
  <2>5. \A d \in Conn : Held(d)' = Held(d)
    BY <2>1 DEF Held, Pending
  <2>6. ASSUME NEW d \in Conn, NEW q \in Inbound(d)'
        PROVE  q \in Inbound(d) \/ Truthful(d, q)'
    <3>1. CASE d = Peer[c] /\ q = a
      BY <2>4, <3>1
    <3>2. CASE d = Peer[c] /\ q # a
      BY <1>0, <2>1, <2>2, <2>6, <3>2 DEF TypeOK, Inbound
    <3>3. CASE d # Peer[c]
      <4>1. Peer[d] # c
        BY <3>3
      <4> QED
        BY <1>0, <2>1, <2>2, <2>6, <4>1 DEF TypeOK, Inbound
    <3> QED
      BY <3>1, <3>2, <3>3
  <2> QED
    BY <1>0, <2>1, <2>5, <2>6, PacketsFrame
<1>14. ASSUME NEW c \in Conn, SendResponse(c) \/ SendKeys(c) \/ SendRequest(c)
       PROVE  Honest'
  <2>1. /\ UNCHANGED <<store, known, pc, tkey, tconn, treq, rkey, rval, queue, waiting, hand, rbuf>>
        /\ Send(c) /\ wpc[c] \in Sends
    BY <1>14 DEF SendResponse, SendKeys, SendRequest, Sends
  <2>2. \A d \in Conn : Inbound(d)' \subseteq Inbound(d) \cup {NoPacket}
    BY <1>0, <2>1, SendInbound DEF Typed, WorkersWired
  <2>3. \A d \in Conn : Held(d)' = Held(d)
    BY <2>1 DEF Held, Pending
  <2> QED
    BY <1>0, <2>1, <2>2, <2>3, PacketsFrame
<1>15. ASSUME NEW c \in Conn, SnapshotKeys(c)
       PROVE  Honest'
  <2>0. PICK a : a = KeyList(store[Owner[c]])
    OBVIOUS
  <2>1. /\ UNCHANGED <<store, known, pc, tkey, tconn, treq, rkey, rval, queue, waiting, hand, rbuf, net>>
        /\ out' = [out EXCEPT ![c] = a]
    BY <1>15, <2>0 DEF SnapshotKeys
  <2>2. Truthful(Peer[c], a)'
    BY <2>0, <2>1 DEF Truthful, KeyList, StoredAt
  <2>3. \A d \in Conn : Held(d)' = Held(d)
    BY <2>1 DEF Held, Pending
  <2>4. ASSUME NEW d \in Conn, NEW q \in Inbound(d)'
        PROVE  q \in Inbound(d) \/ Truthful(d, q)'
    <3>1. CASE d = Peer[c] /\ q = a
      BY <2>2, <3>1
    <3>2. CASE d = Peer[c] /\ q # a
      BY <1>0, <2>1, <2>4, <3>2 DEF TypeOK, Inbound
    <3>3. CASE d # Peer[c]
      <4>1. Peer[d] # c
        BY <3>3
      <4> QED
        BY <1>0, <2>1, <2>4, <4>1 DEF TypeOK, Inbound
    <3> QED
      BY <3>1, <3>2, <3>3
  <2> QED
    BY <1>0, <2>1, <2>3, <2>4, PacketsFrame
<1>16. ASSUME NEW c \in Conn, MoveRequest(c)
       PROVE  Honest'
  <2>0. PICK r, a : r = hand[c] /\ a = ValueRequest(rkey[r])
    OBVIOUS
  <2>1. /\ UNCHANGED <<store, known, pc, tkey, tconn, treq, rkey, rval, queue, rbuf, net>>
        /\ out' = [out EXCEPT ![c] = a]
        /\ waiting' = [waiting EXCEPT ![c] = Append(@, r)]
        /\ hand' = [hand EXCEPT ![c] = NoRequest] /\ wpc[c] = "move"
    BY <1>16, <2>0 DEF MoveRequest
  <2>2. r \in Request /\ r \in Held(c) /\ r # NoRequest
    BY <1>0, <2>0, <2>1 DEF TypeOK, Typed, WorkersWired, Held
  <2>3. SeqRange(Append(waiting[c], r)) = SeqRange(waiting[c]) \cup {r}
    BY <1>0, <2>2, RangeAppend DEF TypeOK
  <2>4. rkey[r] \in StoredAt(c)
    BY <2>2 DEF Honest, HeldStored
  <2>5. Truthful(Peer[c], a)'
    BY <2>0, <2>1, <2>4 DEF Truthful, ValueRequest, StoredAt
  <2>6. \A d \in Conn : Held(d)' \subseteq Held(d) \cup {NoRequest}
    BY <1>0, <2>0, <2>1, <2>3 DEF Held, Pending, TypeOK
  <2>7. ASSUME NEW d \in Conn, NEW q \in Inbound(d)'
        PROVE  q \in Inbound(d) \/ Truthful(d, q)'
    <3>1. CASE d = Peer[c] /\ q = a
      BY <2>5, <3>1
    <3>2. CASE d = Peer[c] /\ q # a
      BY <1>0, <2>1, <2>7, <3>2 DEF TypeOK, Inbound
    <3>3. CASE d # Peer[c]
      <4>1. Peer[d] # c
        BY <3>3
      <4> QED
        BY <1>0, <2>1, <2>7, <4>1 DEF TypeOK, Inbound
    <3> QED
      BY <3>1, <3>2, <3>3
  <2> QED
    BY <1>0, <2>1, <2>6, <2>7, PacketsFrame
<1>17. ASSUME NEW c \in Conn, Deliver(c)
       PROVE  Honest'
  <2> DEFINE p == Head(rbuf[c])
             i == Match(c, p.key)
             r == waiting[c][i]
  <2>1. /\ UNCHANGED <<store, known, tkey, tconn, treq, rkey, queue, hand, out, net>>
        /\ p.type = "VALUE_RESPONSE" /\ rbuf[c] # <<>>
        /\ rbuf' = [rbuf EXCEPT ![c] = Tail(@)]
    BY <1>17 DEF Deliver
  <2>2. SeqRange(rbuf[c]) = {p} \cup SeqRange(Tail(rbuf[c]))
    BY <1>0, <2>1, RangeHeadTail DEF TypeOK
  <2>3. p.value = DataFrame(Owner[Peer[c]], p.key)
    BY <2>1, <2>2 DEF Honest, PacketsTruthful, Truthful, Inbound
  <2>4. \A d \in Conn : Inbound(d)' \subseteq Inbound(d)
    BY <1>0, <2>1, <2>2 DEF TypeOK, Inbound
  <2>5. CASE i = 0
    <3>1. UNCHANGED <<pc, rval, waiting>>
      BY <1>17, <2>5 DEF Deliver
    <3>2. \A d \in Conn : Held(d)' = Held(d)
      BY <2>1, <3>1 DEF Held, Pending
    <3> QED
      BY <1>0, <2>1, <2>4, <3>1, <3>2, PacketsFrame
  <2>6. CASE i # 0
    <3>1. /\ rval' = [rval EXCEPT ![r] = p.value] /\ pc' = Notify(pc, {r})
          /\ waiting' = [waiting EXCEPT ![c] = Without(@, i)]
      BY <1>17, <2>6 DEF Deliver
    <3>2. /\ i \in 1..Len(waiting[c]) /\ waiting[c] \in Seq(Request)
          /\ r \in Request /\ rkey[r] = p.key
      BY <1>0, <2>6, MatchProperties DEF Typed, TypeOK
    <3>3. r \in SeqRange(waiting[c])
      BY <3>2, RangeType
    <3> HIDE DEF p, i
    <3>4. SeqRange(Without(waiting[c], i)) \subseteq SeqRange(waiting[c])
      BY <3>2, WithoutProperties
    <3> HIDE DEF r
    <3>5. \A d \in Conn : Held(d)' \subseteq Held(d)
      BY <1>0, <2>1, <3>1, <3>4 DEF Held, Pending, TypeOK
    <3>6. \A u \in Thread : pc'[u] = pc[u] \/ (pc[u] = "waiting" /\ pc'[u] = "woken")
      BY <3>1 DEF Notify, Proc
    <3>7. ASSUME NEW u \in Thread, pc'[u] \in Requesting
          PROVE  RequestWired(u)'
      <4>1. pc[u] \in Requesting
        BY <3>6, <3>7 DEF Requesting
      <4>2. CASE treq[u] = r
        <5>1. RequestWired(u) /\ r \in Held(c)
          BY <3>3, <4>1 DEF Honest, RequestsWired, Held, Pending
        <5>2. tconn[u] = c /\ tkey[u] = p.key
          BY <3>2, <4>2, <5>1 DEF RequestWired
        <5>3. rval'[r] = DataFrame(Owner[Peer[tconn[u]]], tkey[u])
          BY <1>0, <2>3, <3>1, <3>2, <5>2 DEF p, TypeOK
        <5> QED
          BY <2>1, <3>5, <4>1, <4>2, <5>3, RequestsFrame
      <4>3. CASE treq[u] # r
        <5>1. rval'[treq[u]] = rval[treq[u]]
          BY <1>0, <3>1, <4>3 DEF TypeOK
        <5> QED
          BY <2>1, <3>5, <4>1, <5>1, RequestsFrame
      <4> QED
        BY <4>2, <4>3
    <3>8. \A u \in Thread : pc'[u] \in Calling =>
            pc[u] \in Calling /\ tkey'[u] = tkey[u] /\ tconn'[u] = tconn[u]
      BY <2>1, <3>6 DEF Calling
    <3> QED
      BY <1>0, <2>1, <2>4, <3>5, <3>7, <3>8, HonestFrame
  <2> QED
    BY <2>5, <2>6
<1>18. ASSUME NEW n \in Node, Exit(n)
       PROVE  Honest'
  BY <1>0, <1>18, NodeDownHonest DEF Exit
<1>19. CASE UNCHANGED vars
  <2>1. \A d \in Conn : Inbound(d)' = Inbound(d) /\ Held(d)' = Held(d)
    BY <1>19 DEF vars, Inbound, Held, Pending
  <2> QED
    BY <1>0, <1>19, <2>1, PacketsFrame DEF vars
<1> QED
  BY <1>2, <1>3, <1>4, <1>5, <1>6, <1>7, <1>8, <1>9, <1>10, <1>11, <1>12, <1>13, <1>14,
     <1>15, <1>16, <1>17, <1>18, <1>19
  DEF Next, Clean, Worker, Proceed, Call, Proc

(* Honest is an invariant of the specification. *)
LEMMA HonestInvariant == Spec => []Honest
<1>1. Init => Honest
  BY InitHonest
<1>2. Honest /\ [Next]_vars => Honest'
  BY StepHonest
<1> QED
  BY <1>1, <1>2, PTL DEF Spec

(* KVStore::get gives its caller the DataFrame that was asked for, as the   *)
(* node that holds it stores it: no request is answered with the value for *)
(* another key, another connection's answer, or an earlier call's.         *)
THEOREM AnswersRight == Spec => []AnswerIsRight
<1>1. Honest => AnswerIsRight
  <2> SUFFICES ASSUME Honest, NEW t \in Thread, pc[t] = "woken", rval[treq[t]] # Null
               PROVE  /\ rval[treq[t]] = DataFrame(Owner[Peer[tconn[t]]], tkey[t])
                      /\ tkey[t] \in store[Owner[Peer[tconn[t]]]]
    BY DEF AnswerIsRight
  <2>1. RequestWired(t)
    BY DEF Honest, RequestsWired, Requesting
  <2>2. tkey[t] \in StoredAt(tconn[t])
    BY DEF Honest, CallsStored, Calling
  <2> QED
    BY <2>1, <2>2 DEF RequestWired, StoredAt
<1> QED
  BY <1>1, HonestInvariant, PTL

----------------------------------------------------------------------------
(* A step towards the refinement: who is woken has been given a DataFrame.  *)
(* It says nothing of the threads that are never woken, as after a reset.  *)
WokenHasValue == \A t \in Thread : pc[t] = "woken" => rval[treq[t]] # Null

(* A DataFrame is no nullptr.                                               *)
LEMMA DataFrameNotNull ==
  ASSUME NEW n \in Node, NEW k \in Key
  PROVE  DataFrame(n, k) # Null
  BY ConstAssumption DEF DataFrame

(* A step after which only threads that were woken are, with the same       *)
(* value, keeps WokenHasValue.                                             *)
LEMMA WokenFrame ==
  ASSUME WokenHasValue,
         \A u \in Thread : pc'[u] = "woken" =>
           /\ pc[u] = "woken" /\ treq'[u] = treq[u]
           /\ rval'[treq[u]] = rval[treq[u]]
  PROVE  WokenHasValue'
  BY DEF WokenHasValue

(* A thread is woken by an answer, and answers carry a DataFrame. *)
LEMMA StepWokenHasValue ==
  ASSUME "spurious" \notin Faults, Honest, Honest', WokenHasValue, [Next]_vars
  PROVE  WokenHasValue'
<1> USE ConstAssumption DEF nodeVars, threadVars, reqVars, workVars, listVars, netVars
<1>0. /\ Filing /\ Filing' /\ Typed /\ TypeOK /\ pc \in [Proc -> ThreadPc]
      /\ rval \in [Request -> Value]
  BY DEF Honest, Filing, Typed, TypeOK
<1>1. ASSUME NEW n \in Node, NEW how, NodeDown(n, how)
      PROVE  WokenHasValue'
  <2>1. \A u \in Thread : \/ pc'[u] = "idle"
                          \/ pc'[u] = pc[u] /\ treq'[u] = treq[u]
    BY <1>1 DEF NodeDown, Proc, HomeOf
  <2> QED
    BY <1>1, <2>1, WokenFrame DEF NodeDown
<1>2. ASSUME NEW t \in Thread, NEW k \in Key, Get(t, k) \/ SetCheck(t, k)
      PROVE  WokenHasValue'
  <2>1. CASE NodeDown(Home[t], "aborted")
    BY <1>1, <2>1
  <2>2. CASE ~NodeDown(Home[t], "aborted")
    <3>1. /\ UNCHANGED <<treq, rval>>
          /\ pc' = [pc EXCEPT ![t] = "get"] \/ pc' = [pc EXCEPT ![t] = "setting"]
      BY <1>2, <2>2 DEF Get, SetCheck
    <3>2. \A u \in Thread : pc'[u] = "woken" => pc[u] = "woken"
      BY <1>0, <3>1 DEF Proc
    <3> QED
      BY <3>1, <3>2, WokenFrame
  <2> QED
    BY <2>1, <2>2
<1>3. ASSUME NEW p \in Proc,
             \/ CleanLock(p) \/ CleanUnlock(p)
             \/ p \in Thread /\ (SetInsert(p) \/ FindConn(p) \/ AddRequest(p) \/ Wait(p))
      PROVE  WokenHasValue'
  <2>1. /\ UNCHANGED <<treq, rval>>
        /\ \A u \in Thread : pc'[u] = "woken" => pc[u] = "woken"
    BY <1>0, <1>3 DEF CleanLock, CleanUnlock, SetInsert, FindConn, AddRequest, Wait, Proc
  <2> QED
    BY <2>1, WokenFrame
<1>4. ASSUME NEW t \in Thread, NEW r \in Request, CreateRequest(t, r)
      PROVE  WokenHasValue'
  <2>1. CASE finished[tconn[t]]
    BY <1>1, <1>4, <2>1 DEF CreateRequest
  <2>2. CASE ~finished[tconn[t]]
    <3>1. /\ ~InUse(r)
          /\ pc' = [pc EXCEPT ![t] = "created"] /\ treq' = [treq EXCEPT ![t] = r]
          /\ rval' = [rval EXCEPT ![r] = Null]
      BY <1>4, <2>2 DEF CreateRequest
    <3>2. ASSUME NEW u \in Thread, pc'[u] = "woken"
          PROVE  u # t /\ pc[u] = "woken" /\ treq[u] # r
      BY <1>0, <3>1, <3>2 DEF InUse, Proc
    <3>3. \A u \in Thread : pc'[u] = "woken" =>
            pc[u] = "woken" /\ treq'[u] = treq[u] /\ rval'[treq[u]] = rval[treq[u]]
      BY <1>0, <3>1, <3>2 DEF TypeOK
    <3> QED
      BY <3>3, WokenFrame
  <2> QED
    BY <2>1, <2>2
<1>5. ASSUME NEW p \in Proc, NEW c \in Conn, CleanErase(p, c)
      PROVE  WokenHasValue'
  <2>1. UNCHANGED <<store, known, tkey, tconn, treq, rkey, hand, out>>
    BY <1>5 DEF CleanErase
  <2>2. CASE Refs(c) = {}
    <3>1. Destroy(c) /\ pc' = Notify(pc, Pending(c))
      BY <1>5, <2>2 DEF CleanErase
    <3>2. \A u \in Thread : /\ pc'[u] = pc[u]
                            /\ pc'[u] \in Requesting => rval'[treq[u]] = rval[treq[u]]
      BY <1>0, <2>1, <2>2, <3>1, DestroyHonest
    <3> QED
      BY <2>1, <3>2, WokenFrame DEF Requesting
  <2>3. CASE Refs(c) # {}
    BY <1>5, <2>1, <2>3, WokenFrame DEF CleanErase, Keep
  <2> QED
    BY <2>2, <2>3
<1>6. ASSUME NEW t \in Thread, Return(t)
      PROVE  WokenHasValue'
  <2> DEFINE c == tconn[t]
             gone == [pc EXCEPT ![t] = "idle"]
  <2>1. c \in Conn
    BY <1>0, <1>6 DEF Return, Typed, ThreadsWired, Calling
  <2>2. /\ UNCHANGED <<store, known, tkey, rkey, hand, out>>
        /\ gone[t] = "idle"
        /\ \A u \in Thread : u # t => /\ gone[u] = pc[u]
                                      /\ treq'[u] = treq[u] /\ tconn'[u] = tconn[u]
    BY <1>0, <1>6 DEF Return, TypeOK, Proc
  <2> HIDE DEF gone
  <2>3. CASE Refs(c) = {t} /\ c \notin conns[Home[t]]
    <3>1. Destroy(c) /\ pc' = Notify(gone, Pending(c))
      BY <1>6, <2>3 DEF Return, gone
    <3> HIDE DEF c
    <3>2. \A u \in Thread : /\ pc'[u] = gone[u]
                            /\ pc'[u] \in Requesting => rval'[treq[u]] = rval[treq[u]]
      BY <1>0, <2>1, <2>2, <2>3, <3>1, DestroyHonest
    <3> QED
      BY <2>2, <3>2, WokenFrame DEF Requesting
  <2>4. CASE ~(Refs(c) = {t} /\ c \notin conns[Home[t]])
    <3>1. UNCHANGED rval /\ pc' = gone
      BY <1>6, <2>4 DEF Return, Keep, gone
    <3> QED
      BY <2>2, <3>1, WokenFrame
  <2> QED
    BY <2>3, <2>4
<1>7. ASSUME NEW c \in Conn,
             \/ Receive(c) \/ ParseNothing(c) \/ UpdateKeys(c) \/ ParseRequest(c)
             \/ SendResponse(c) \/ SnapshotKeys(c) \/ SendKeys(c) \/ SendRequest(c)
             \/ CheckRequests(c) \/ MoveRequest(c) \/ Reset(c)
      PROVE  WokenHasValue'
  <2>1. UNCHANGED <<pc, treq, rval>>
    BY <1>7 DEF Receive, ParseNothing, UpdateKeys, ParseRequest, SendResponse, SnapshotKeys,
       SendKeys, SendRequest, CheckRequests, MoveRequest, Reset
  <2> QED
    BY <2>1, WokenFrame
<1>8. ASSUME NEW c \in Conn, Deliver(c)
      PROVE  WokenHasValue'
  <2> DEFINE p == Head(rbuf[c])
             i == Match(c, p.key)
             r == waiting[c][i]
  <2>1. treq' = treq /\ p.type = "VALUE_RESPONSE" /\ rbuf[c] # <<>>
    BY <1>8 DEF Deliver
  <2>2. CASE i = 0
    BY <1>8, <2>1, <2>2, WokenFrame DEF Deliver
  <2>3. CASE i # 0
    <3>1. rval' = [rval EXCEPT ![r] = p.value] /\ pc' = Notify(pc, {r})
      BY <1>8, <2>3 DEF Deliver
    <3>2. r \in Request
      BY <1>0, <2>3, MatchProperties
    <3>3. p \in Inbound(c) /\ p \in Packet
      BY <1>0, <2>1, RangeHeadTail, HeadTailProperties DEF TypeOK, Inbound
    <3>4. p.value # Null
      <4>1. p.value = DataFrame(Owner[Peer[c]], p.key)
        BY <2>1, <3>3 DEF Honest, PacketsTruthful, Truthful
      <4>2. p.key \in Key
        BY <2>1, <3>3 DEF Packet
      <4>3. Owner[Peer[c]] \in Node
        OBVIOUS
      <4> QED
        BY <4>1, <4>2, <4>3, DataFrameNotNull
    <3> HIDE DEF p, i, r
    <3>5. ASSUME NEW u \in Thread
          PROVE  pc'[u] = pc[u] \/ (pc'[u] = "woken" /\ treq[u] = r)
      BY <3>1 DEF Notify, Proc
    <3>6. rval'[r] = p.value /\ \A q : q # r => rval'[q] = rval[q]
      BY <1>0, <3>1, <3>2
    <3> QED
      BY <2>1, <3>4, <3>5, <3>6 DEF WokenHasValue
  <2> QED
    BY <2>2, <2>3
<1>9. ASSUME NEW n \in Node, Exit(n)
      PROVE  WokenHasValue'
  BY <1>1, <1>9 DEF Exit
<1>10. CASE UNCHANGED vars
  BY <1>10, WokenFrame DEF vars
<1>11. ASSUME NEW t \in Thread, SpuriousWakeup(t)
       PROVE  FALSE
  BY <1>11 DEF SpuriousWakeup
<1> QED
  BY <1>2, <1>3, <1>4, <1>5, <1>6, <1>7, <1>8, <1>9, <1>10, <1>11
  DEF Next, Clean, Worker, Proceed, Call, Proc

(* Unless cv.wait wakes up by itself, a call that is woken has a DataFrame. *)
LEMMA WokenAlwaysHasValue ==
  ASSUME "spurious" \notin Faults
  PROVE  Spec => []WokenHasValue
<1>1. Init => WokenHasValue
  BY DEF Init, WokenHasValue, Proc
<1>2. Honest /\ Honest' /\ WokenHasValue /\ [Next]_vars => WokenHasValue'
  BY StepWokenHasValue
<1> QED
  BY <1>1, <1>2, HonestInvariant, PTL DEF Spec

----------------------------------------------------------------------------
(* A request is in one place. *)

(* No element of s occurs twice. *)
Once(s) == \A i, j \in DOMAIN s : s[i] = s[j] => i = j

(* Two lists without repetition and without a common element.               *)
LEMMA OnceConcat ==
  ASSUME NEW S, NEW s \in Seq(S), NEW u \in Seq(S), Once(s), Once(u),
         SeqRange(s) \cap SeqRange(u) = {}
  PROVE  s \o u \in Seq(S) /\ Once(s \o u)
<1> DEFINE m == Len(s)
           n == Len(u)
           v == s \o u
<1>1. /\ m \in Nat /\ n \in Nat
      /\ DOMAIN s = 1..m /\ DOMAIN u = 1..n
  BY LenProperties
<1>2. /\ v \in Seq(S) /\ Len(v) = m + n
      /\ \A i \in 1..(m + n) : v[i] = IF i <= m THEN s[i] ELSE u[i - m]
  BY ConcatProperties
<1>3. DOMAIN v = 1..(m + n)
  <2> HIDE DEF v
  <2> QED
    BY <1>2, LenProperties
<1>4. /\ \A i \in 1..m : s[i] \in SeqRange(s)
      /\ \A i \in 1..n : u[i] \in SeqRange(u)
  BY <1>1 DEF SeqRange
<1> HIDE DEF m, n, v
<1>5. ASSUME NEW i \in 1..(m + n), NEW j \in 1..(m + n), v[i] = v[j]
      PROVE  i = j
  <2>1. CASE i <= m /\ j <= m
    <3>1. i \in 1..m /\ j \in 1..m /\ s[i] = s[j]
      BY <1>1, <1>2, <1>5, <2>1
    <3> QED
      BY <1>1, <3>1 DEF Once
  <2>2. CASE ~(i <= m) /\ ~(j <= m)
    <3>1. i - m \in 1..n /\ j - m \in 1..n
      BY <1>1, <2>2
    <3>2. u[i - m] = u[j - m]
      BY <1>2, <1>5, <2>2
    <3>3. i - m = j - m
      BY <1>1, <3>1, <3>2 DEF Once
    <3> QED
      BY <1>1, <3>3
  <2>3. CASE i <= m /\ ~(j <= m)
    <3>1. i \in 1..m /\ j - m \in 1..n /\ s[i] = u[j - m]
      BY <1>1, <1>2, <1>5, <2>3
    <3> QED
      BY <1>4, <3>1
  <2>4. CASE ~(i <= m) /\ j <= m
    <3>1. j \in 1..m /\ i - m \in 1..n /\ s[j] = u[i - m]
      BY <1>1, <1>2, <1>5, <2>4
    <3> QED
      BY <1>4, <3>1
  <2> QED
    BY <2>1, <2>2, <2>3, <2>4
<1> QED
  BY <1>2, <1>3, <1>5 DEF Once, v

(* A sequence of one element. *)
LEMMA OnceSingle ==
  ASSUME NEW S, NEW e \in S
  PROVE  <<e>> \in Seq(S) /\ Once(<<e>>) /\ SeqRange(<<e>>) = {e}
  BY DEF Once, SeqRange

(* A new element is no repetition.                                          *)
LEMMA OnceAppend ==
  ASSUME NEW S, NEW s \in Seq(S), NEW e \in S, Once(s), e \notin SeqRange(s)
  PROVE  Once(Append(s, e))
<1>1. Append(s, e) = s \o <<e>>
  BY AppendIsConcat
<1>2. <<e>> \in Seq(S) /\ Once(<<e>>) /\ SeqRange(<<e>>) = {e}
  BY OnceSingle
<1> DEFINE u == <<e>>
<1> HIDE DEF u
<1>3. u \in Seq(S) /\ Once(u) /\ SeqRange(s) \cap SeqRange(u) = {}
  BY <1>2 DEF u
<1>4. Once(s \o u)
  BY <1>3, OnceConcat
<1> QED
  BY <1>1, <1>4 DEF u

(* The head of a sequence without repetitions is not in its tail. *)
LEMMA OnceTail ==
  ASSUME NEW S, NEW s \in Seq(S), s # <<>>, Once(s)
  PROVE  Once(Tail(s)) /\ Head(s) \notin SeqRange(Tail(s))
<1> DEFINE n == Len(s)
           u == Tail(s)
<1>1. /\ u \in Seq(S) /\ Len(u) = n - 1
      /\ \A i \in 1..Len(u) : u[i] = s[i + 1]
  BY HeadTailProperties
<1>2. n \in Nat /\ n # 0 /\ Head(s) = s[1] /\ DOMAIN s = 1..n
  BY LenProperties, EmptySeq
<1> HIDE DEF u, n
<1>3. DOMAIN u = 1..(n - 1) /\ SeqRange(u) = {u[i] : i \in 1..(n - 1)}
  BY <1>1, LenProperties, RangeType
<1>4. \A i \in 1..(n - 1) : i + 1 \in 1..n /\ i + 1 # 1 /\ u[i] = s[i + 1]
  BY <1>1, <1>2
<1>5. 1 \in 1..n
  BY <1>2
<1>6. ASSUME NEW i \in 1..(n - 1), NEW j \in 1..(n - 1), u[i] = u[j]
      PROVE  i = j
  <2>0. \A x, y \in 1..n : s[x] = s[y] => x = y
    BY <1>2 DEF Once
  <2>1. i + 1 = j + 1
    BY <1>4, <1>6, <2>0
  <2> QED
    BY <2>1
<1>7. Head(s) \notin SeqRange(u)
  BY <1>2, <1>3, <1>4, <1>5 DEF Once
<1> QED
  BY <1>3, <1>6, <1>7 DEF Once, u

(* Taking a request off a list repeats none.                                *)
LEMMA OnceWithout ==
  ASSUME NEW S, NEW s \in Seq(S), NEW k \in 1..Len(s), Once(s)
  PROVE  Once(Without(s, k))
<1> DEFINE n == Len(s)
           u == Without(s, k)
<1>1. /\ u \in Seq(S) /\ Len(u) = n - 1
      /\ \A j \in 1..(n - 1) : u[j] = IF j <= k - 1 THEN s[j] ELSE s[j + 1]
  BY WithoutProperties
<1>2. n \in Nat /\ DOMAIN s = 1..n
  BY LenProperties
<1> HIDE DEF u, n
<1>3. DOMAIN u = 1..(n - 1)
  BY <1>1, LenProperties
<1>4. ASSUME NEW i \in 1..(n - 1), NEW j \in 1..(n - 1), u[i] = u[j]
      PROVE  i = j
  <2>1. i \in 1..n /\ i + 1 \in 1..n /\ j \in 1..n /\ j + 1 \in 1..n
    BY <1>2
  <2>2. \A x, y \in 1..n : s[x] = s[y] => x = y
    BY <1>2 DEF Once
  <2>3. /\ u[i] = IF i <= k - 1 THEN s[i] ELSE s[i + 1]
        /\ u[j] = IF j <= k - 1 THEN s[j] ELSE s[j + 1]
    BY <1>1
  <2>4. k \in Nat
    BY <1>2 DEF n
  <2>5. CASE i <= k - 1 /\ j <= k - 1
    BY <1>4, <2>1, <2>2, <2>3, <2>5
  <2>6. CASE ~(i <= k - 1) /\ ~(j <= k - 1)
    <3>1. i + 1 = j + 1
      BY <1>4, <2>1, <2>2, <2>3, <2>6
    <3> QED
      BY <3>1
  <2>7. CASE i <= k - 1 /\ ~(j <= k - 1)
    <3>1. i = j + 1
      BY <1>4, <2>1, <2>2, <2>3, <2>7
    <3> QED
      BY <2>4, <2>7, <3>1
  <2>8. CASE ~(i <= k - 1) /\ j <= k - 1
    <3>1. i + 1 = j
      BY <1>4, <2>1, <2>2, <2>3, <2>8
    <3> QED
      BY <2>4, <2>8, <3>1
  <2> QED
    BY <2>5, <2>6, <2>7, <2>8
<1> QED
  BY <1>3, <1>4 DEF Once, u

(* FiledOnce, place by place. *)
Singly ==
  \A c \in Conn :
    /\ Once(queue[c]) /\ Once(waiting[c])
    /\ SeqRange(queue[c]) \cap SeqRange(waiting[c]) = {}
    /\ hand[c] \notin Pending(c)

(* The places of a connection one after the other hold no request twice. *)
LEMMA SinglyFiledOnce ==
  ASSUME TypeOK, Singly
  PROVE  FiledOnce
<1> SUFFICES ASSUME NEW c \in Conn
             PROVE  Once(waiting[c] \o (IF hand[c] = NoRequest THEN <<>> ELSE <<hand[c]>>)
                         \o queue[c])
  BY DEF FiledOnce, Once
<1> DEFINE h == IF hand[c] = NoRequest THEN <<>> ELSE <<hand[c]>>
<1>1. waiting[c] \in Seq(Request) /\ queue[c] \in Seq(Request)
  BY DEF TypeOK
<1>2. h \in Seq(Request) /\ Once(h) /\ SeqRange(h) \subseteq {hand[c]} \cap Request
  <2>1. CASE hand[c] = NoRequest
    BY <2>1, EmptySeq DEF Once, SeqRange
  <2>2. CASE hand[c] # NoRequest
    <3>1. hand[c] \in Request
      BY <2>2 DEF TypeOK
    <3> QED
      BY <2>2, <3>1, OnceSingle
  <2> QED
    BY <2>1, <2>2
<1> HIDE DEF h
<1>3. /\ Once(queue[c]) /\ Once(waiting[c])
      /\ SeqRange(queue[c]) \cap SeqRange(waiting[c]) = {}
      /\ hand[c] \notin SeqRange(queue[c]) /\ hand[c] \notin SeqRange(waiting[c])
  BY DEF Singly, Pending
<1>4. SeqRange(waiting[c]) \cap SeqRange(h) = {}
  BY <1>2, <1>3
<1>5. waiting[c] \o h \in Seq(Request) /\ Once(waiting[c] \o h)
  BY <1>1, <1>2, <1>3, <1>4, OnceConcat
<1>6. SeqRange(waiting[c] \o h) \cap SeqRange(queue[c]) = {}
  BY <1>1, <1>2, <1>3, RangeConcat
<1>7. Once((waiting[c] \o h) \o queue[c])
  BY <1>1, <1>3, <1>5, <1>6, OnceConcat
<1> QED
  BY <1>7 DEF h

(* Requests move between the places, and a new one was in none. *)
LEMMA StepSingly ==
  ASSUME Filing, Typed', Singly, [Next]_vars
  PROVE  Singly'
<1> USE ConstAssumption DEF nodeVars, threadVars, reqVars, workVars, listVars, netVars
<1>0. /\ Typed /\ queue \in [Conn -> Seq(Request)] /\ waiting \in [Conn -> Seq(Request)]
      /\ hand \in [Conn -> Request \cup {NoRequest}]
      /\ hand' \in [Conn -> Request \cup {NoRequest}]
  BY DEF Filing, Typed, TypeOK
<1>1. Once(<<>>) /\ SeqRange(<<>>) = {}
  BY DEF Once, SeqRange
<1>2. ASSUME \A c \in Conn : \/ /\ queue'[c] = <<>> /\ waiting'[c] = <<>>
                            \/ /\ queue'[c] = queue[c] /\ waiting'[c] = waiting[c]
                               /\ hand'[c] = hand[c]
      PROVE  Singly'
  BY <1>1, <1>2 DEF Singly, Pending
<1>3. ASSUME UNCHANGED <<queue, waiting, hand>>
      PROVE  Singly'
  BY <1>2, <1>3
<1>4. ASSUME NEW n \in Node, NEW how, NodeDown(n, how)
      PROVE  Singly'
  BY <1>2, <1>4 DEF NodeDown
<1>5. ASSUME NEW c \in Conn, Destroy(c), hand' = hand
      PROVE  Singly'
  BY <1>0, <1>2, <1>5 DEF Destroy
<1>6. ASSUME NEW t \in Thread, NEW k \in Key, Get(t, k) \/ SetCheck(t, k)
      PROVE  Singly'
  BY <1>3, <1>4, <1>6 DEF Get, SetCheck
<1>7. ASSUME NEW p \in Proc,
             \/ CleanLock(p) \/ CleanUnlock(p)
             \/ /\ p \in Thread
                /\ SetInsert(p) \/ FindConn(p) \/ Wait(p) \/ SpuriousWakeup(p)
      PROVE  Singly'
  BY <1>3, <1>7 DEF CleanLock, CleanUnlock, SetInsert, FindConn, Wait, SpuriousWakeup
<1>8. ASSUME NEW t \in Thread, NEW r \in Request, CreateRequest(t, r)
      PROVE  Singly'
  BY <1>3, <1>4, <1>8 DEF CreateRequest
<1>9. ASSUME NEW p \in Proc, NEW c \in Conn, CleanErase(p, c)
      PROVE  Singly'
  BY <1>3, <1>5, <1>9 DEF CleanErase, Keep
<1>10. ASSUME NEW t \in Thread, Return(t)
       PROVE  Singly'
  <2>1. tconn[t] \in Conn /\ hand' = hand
    BY <1>0, <1>10 DEF Return, Typed, ThreadsWired, Calling
  <2>2. Destroy(tconn[t]) \/ UNCHANGED <<queue, waiting>>
    BY <1>10 DEF Return, Keep
  <2> QED
    BY <1>3, <1>5, <2>1, <2>2
<1>11. ASSUME NEW t \in Thread, AddRequest(t)
       PROVE  Singly'
  <2> DEFINE c == tconn[t]
  <2>1. /\ c \in Conn /\ treq[t] \in Request /\ treq[t] \notin Held(c)
    BY <1>0, <1>11 DEF AddRequest, Typed, ThreadsWired, Calling, Requesting, Filing, NotFiledYet
  <2>2. UNCHANGED <<waiting, hand>> /\ queue' = [queue EXCEPT ![c] = Append(@, treq[t])]
    BY <1>11 DEF AddRequest
  <2>3. /\ SeqRange(Append(queue[c], treq[t])) = SeqRange(queue[c]) \cup {treq[t]}
        /\ Once(Append(queue[c], treq[t]))
    BY <1>0, <2>1, RangeAppend, OnceAppend DEF Singly, Held, Pending
  <2> HIDE DEF c
  <2> QED
    BY <1>0, <2>1, <2>2, <2>3 DEF Singly, Held, Pending
<1>12. ASSUME NEW c \in Conn,
             \/ Receive(c) \/ ParseNothing(c) \/ UpdateKeys(c) \/ ParseRequest(c)
             \/ SendResponse(c) \/ SnapshotKeys(c) \/ SendKeys(c) \/ SendRequest(c)
             \/ Reset(c)
       PROVE  Singly'
  BY <1>3, <1>12 DEF Receive, ParseNothing, UpdateKeys, ParseRequest, SendResponse,
     SnapshotKeys, SendKeys, SendRequest, Reset
<1>13. ASSUME NEW c \in Conn, Deliver(c)
       PROVE  Singly'
  <2> DEFINE i == Match(c, Head(rbuf[c]).key)
  <2>1. CASE i = 0
    BY <1>3, <1>13, <2>1 DEF Deliver
  <2>2. CASE i # 0
    <3>1. UNCHANGED <<queue, hand>> /\ waiting' = [waiting EXCEPT ![c] = Without(@, i)]
      BY <1>13, <2>2 DEF Deliver
    <3>2. i \in 1..Len(waiting[c])
      BY <1>0, <2>2, MatchProperties DEF Typed
    <3> HIDE DEF i
    <3>3. /\ SeqRange(Without(waiting[c], i)) \subseteq SeqRange(waiting[c])
          /\ Once(Without(waiting[c], i))
      BY <1>0, <3>2, WithoutProperties, OnceWithout DEF Singly
    <3> QED
      BY <1>0, <3>1, <3>3 DEF Singly, Pending
  <2> QED
    BY <2>1, <2>2
<1>14. ASSUME NEW c \in Conn, CheckRequests(c)
       PROVE  Singly'
  <2>1. CASE queue[c] = <<>>
    BY <1>3, <1>14, <2>1 DEF CheckRequests
  <2>2. CASE queue[c] # <<>>
    <3>1. /\ hand' = [hand EXCEPT ![c] = Head(queue[c])] /\ waiting' = waiting
          /\ queue' = [queue EXCEPT ![c] = Tail(@)]
      BY <1>14, <2>2 DEF CheckRequests
    <3>2. /\ SeqRange(queue[c]) = {Head(queue[c])} \cup SeqRange(Tail(queue[c]))
          /\ Once(Tail(queue[c])) /\ Head(queue[c]) \notin SeqRange(Tail(queue[c]))
      BY <1>0, <2>2, RangeHeadTail, OnceTail DEF Singly
    <3> QED
      BY <1>0, <3>1, <3>2 DEF Singly, Pending
  <2> QED
    BY <2>1, <2>2
<1>15. ASSUME NEW c \in Conn, MoveRequest(c)
       PROVE  Singly'
  <2>1. /\ queue' = queue /\ waiting' = [waiting EXCEPT ![c] = Append(@, hand[c])]
        /\ hand' = [hand EXCEPT ![c] = NoRequest] /\ wpc[c] = "move"
    BY <1>15 DEF MoveRequest
  <2>2. hand[c] \in Request /\ hand[c] \notin SeqRange(queue[c]) \cup SeqRange(waiting[c])
    BY <1>0, <2>1 DEF Typed, WorkersWired, Singly, Pending
  <2>3. /\ SeqRange(Append(waiting[c], hand[c])) = SeqRange(waiting[c]) \cup {hand[c]}
        /\ Once(Append(waiting[c], hand[c]))
    BY <1>0, <2>2, RangeAppend, OnceAppend DEF Singly
  <2>4. \A d \in Conn : NoRequest \notin Pending(d)
    BY <1>0, RangeType DEF Pending
  <2> QED
    BY <1>0, <2>1, <2>2, <2>3, <2>4 DEF Singly, Pending
<1>16. ASSUME NEW n \in Node, Exit(n)
       PROVE  Singly'
  BY <1>4, <1>16 DEF Exit
<1>17. CASE UNCHANGED vars
  BY <1>3, <1>17 DEF vars
<1> QED
  BY <1>6, <1>7, <1>8, <1>9, <1>10, <1>11, <1>12, <1>13, <1>14, <1>15, <1>16, <1>17
  DEF Next, Clean, Worker, Proceed, Call, Proc

(* A request object is filed at most once with a connection, in its queue,  *)
(* its worker's hand or its waiting list, so one answer completes one call.*)
THEOREM FiledAtMostOnce == Spec => []FiledOnce
<1>1. Init => Singly
  BY ConstAssumption DEF Init, Singly, Pending, Once, SeqRange
<1>2. Filing /\ Filing' /\ Singly /\ [Next]_vars => Singly'
  BY StepSingly DEF Filing
<1>3. Filing /\ Singly => FiledOnce
  BY SinglyFiledOnce DEF Filing, Typed
<1> QED
  BY <1>1, <1>2, <1>3, FilingInvariant, PTL DEF Spec

----------------------------------------------------------------------------
(* Answers arrive in the order in which the requests were filed.            *)

----------------------------------------------------------------------------
(* The packets of one type in a sequence.  The recursive function in        *)
(* OfType is defined, and its value on a prefix depends on the prefix only.*)

Filters(f, s, ty, m) ==
  f = [i \in 0..m |-> IF i = 0 THEN <<>>
                      ELSE IF s[i].type = ty THEN Append(f[i - 1], s[i]) ELSE f[i - 1]]

(* OfType's recursion has a value on every prefix.                          *)
LEMMA FilterExists ==
  ASSUME NEW s, NEW ty, NEW m \in Nat
  PROVE  \E f : Filters(f, s, ty, m)
<1> DEFINE T == {n \in Nat : \E f : Filters(f, s, ty, n)}
<1>1. 0 \in T
  <2>1. Filters([i \in 0..0 |-> <<>>], s, ty, 0)
    BY DEF Filters
  <2> QED
    BY <2>1
<1>2. ASSUME NEW n \in Nat, n \in T
      PROVE  n + 1 \in T
  <2>1. PICK f : Filters(f, s, ty, n)
    BY <1>2
  <2> DEFINE last1 == IF s[n + 1].type = ty THEN Append(f[n], s[n + 1]) ELSE f[n]
             g == [i \in 0..(n + 1) |-> IF i = n + 1 THEN last1 ELSE f[i]]
  <2>2. ASSUME NEW i \in 0..(n + 1)
        PROVE  g[i] = IF i = 0 THEN <<>>
                      ELSE IF s[i].type = ty THEN Append(g[i - 1], s[i]) ELSE g[i - 1]
    <3>1. CASE i = n + 1
      <4>1. i # 0 /\ i - 1 \in 0..(n + 1) /\ i - 1 # n + 1 /\ i - 1 = n
        BY <3>1
      <4>2. g[i - 1] = f[n] /\ g[i] = last1
        BY <3>1, <4>1
      <4> QED
        BY <3>1, <4>1, <4>2
    <3>2. CASE i # n + 1
      <4>1. i \in 0..n /\ g[i] = f[i]
        BY <3>2
      <4>2. f[i] = IF i = 0 THEN <<>>
                   ELSE IF s[i].type = ty THEN Append(f[i - 1], s[i]) ELSE f[i - 1]
        BY <2>1, <4>1 DEF Filters
      <4>3. i # 0 => i - 1 \in 0..(n + 1) /\ i - 1 # n + 1
        BY <4>1
      <4>4. i # 0 => g[i - 1] = f[i - 1]
        BY <4>3
      <4> QED
        BY <4>1, <4>2, <4>4
    <3> QED
      BY <3>1, <3>2
  <2>3. g = [i \in 0..(n + 1) |-> g[i]]
    OBVIOUS
  <2> HIDE DEF g
  <2>4. Filters(g, s, ty, n + 1)
    BY <2>2, <2>3 DEF Filters
  <2> QED
    BY <2>4
<1> HIDE DEF T
<1>3. m \in T
  BY <1>1, <1>2, NatInductive
<1> QED
  BY <1>3 DEF T

(* What the recursive function in OfType satisfies. *)
LEMMA OfTypeFilters ==
  ASSUME NEW S, NEW s \in Seq(S), NEW ty
  PROVE  \E f : /\ Filters(f, s, ty, Len(s))
                /\ OfType(s, ty) = f[Len(s)]
<1> DEFINE F[i \in 0..Len(s)] ==
             IF i = 0 THEN <<>>
             ELSE IF s[i].type = ty THEN Append(F[i - 1], s[i]) ELSE F[i - 1]
<1>1. F = CHOOSE f : Filters(f, s, ty, Len(s))
  BY DEF Filters
<1>2. \E f : Filters(f, s, ty, Len(s))
  BY FilterExists, LenProperties
<1>3. Filters(F, s, ty, Len(s))
  BY <1>1, <1>2
<1>4. OfType(s, ty) = F[Len(s)]
  BY DEF OfType
<1> QED
  BY <1>3, <1>4

(* Its value on the next prefix.                                            *)
LEMMA FilterStep ==
  ASSUME NEW f, NEW s, NEW ty, NEW m \in Nat, Filters(f, s, ty, m)
  PROVE  /\ f[0] = <<>>
         /\ \A i \in Nat : i < m =>
              f[i + 1] = IF s[i + 1].type = ty THEN Append(f[i], s[i + 1]) ELSE f[i]
<1>1. \A i \in 0..m : f[i] = IF i = 0 THEN <<>>
                           ELSE IF s[i].type = ty THEN Append(f[i - 1], s[i]) ELSE f[i - 1]
  BY DEF Filters
<1>2. f[0] = <<>>
  <2>1. 0 \in 0..m
    OBVIOUS
  <2> QED
    BY <1>1, <2>1
<1>3. ASSUME NEW i \in Nat, i < m
      PROVE  f[i + 1] = IF s[i + 1].type = ty THEN Append(f[i], s[i + 1]) ELSE f[i]
  <2>1. i + 1 \in 0..m /\ i + 1 # 0 /\ (i + 1) - 1 = i
    BY <1>3
  <2> QED
    BY <1>1, <2>1
<1> QED
  BY <1>2, <1>3

(* What it selects is of the type of the sequence.                          *)
LEMMA FilterType ==
  ASSUME NEW S, NEW s \in Seq(S), NEW f, NEW ty, Filters(f, s, ty, Len(s))
  PROVE  \A i \in 0..Len(s) : f[i] \in Seq(S)
<1> DEFINE n == Len(s)
           T == {i \in Nat : i <= n => f[i] \in Seq(S)}
<1>0. n \in Nat /\ Filters(f, s, ty, n)
  BY LenProperties
<1> HIDE DEF n
<1>1. 0 \in T
  <2>1. f[0] = <<>>
    BY <1>0, FilterStep
  <2> QED
    BY <2>1, EmptySeq
<1>2. ASSUME NEW i \in Nat, i \in T
      PROVE  i + 1 \in T
  <2> SUFFICES ASSUME i + 1 <= n
               PROVE  f[i + 1] \in Seq(S)
    OBVIOUS
  <2>1. i < n /\ i <= n /\ i + 1 \in 1..n
    BY <1>0
  <2>2. s[i + 1] \in S /\ f[i] \in Seq(S)
    BY <1>2, <2>1, ElementOfSeq DEF n
  <2>3. Append(f[i], s[i + 1]) \in Seq(S)
    BY <2>2, AppendProperties
  <2>4. f[i + 1] = IF s[i + 1].type = ty THEN Append(f[i], s[i + 1]) ELSE f[i]
    BY <1>0, <2>1, FilterStep
  <2> QED
    BY <2>2, <2>3, <2>4
<1> HIDE DEF T
<1>3. \A i \in Nat : i \in T
  BY <1>1, <1>2, NatInductive
<1> QED
  BY <1>0, <1>3 DEF T, n

(* Its value on a prefix depends on nothing behind it.                      *)
LEMMA FilterPrefix ==
  ASSUME NEW f, NEW s, NEW m \in Nat, NEW g, NEW u, NEW n \in Nat, NEW ty, NEW k \in Nat,
         Filters(f, s, ty, m), Filters(g, u, ty, n), k <= m, k <= n,
         \A i \in 1..k : s[i] = u[i]
  PROVE  f[k] = g[k]
<1> DEFINE T == {i \in Nat : i <= k => f[i] = g[i]}
<1>1. 0 \in T
  BY FilterStep
<1>2. ASSUME NEW i \in Nat, i \in T
      PROVE  i + 1 \in T
  <2> SUFFICES ASSUME i + 1 <= k
               PROVE  f[i + 1] = g[i + 1]
    OBVIOUS
  <2>1. i < m /\ i < n /\ i <= k /\ i + 1 \in 1..k
    OBVIOUS
  <2>2. s[i + 1] = u[i + 1] /\ f[i] = g[i]
    BY <1>2, <2>1
  <2>3. f[i + 1] = IF s[i + 1].type = ty THEN Append(f[i], s[i + 1]) ELSE f[i]
    BY <2>1, FilterStep
  <2>4. g[i + 1] = IF u[i + 1].type = ty THEN Append(g[i], u[i + 1]) ELSE g[i]
    BY <2>1, FilterStep
  <2> QED
    BY <2>2, <2>3, <2>4
<1> HIDE DEF T
<1>3. k \in T
  BY <1>1, <1>2, NatInductive
<1> QED
  BY <1>3 DEF T

(* The packets of one type are packets.                                     *)
LEMMA OfTypeType ==
  ASSUME NEW S, NEW s \in Seq(S), NEW ty
  PROVE  OfType(s, ty) \in Seq(S)
<1>1. PICK f : Filters(f, s, ty, Len(s)) /\ OfType(s, ty) = f[Len(s)]
  BY OfTypeFilters
<1>2. Len(s) \in 0..Len(s)
  BY LenProperties
<1> QED
  BY <1>1, <1>2, FilterType

(* There are none in an empty sequence.                                     *)
LEMMA OfTypeEmpty ==
  ASSUME NEW ty
  PROVE  OfType(<<>>, ty) = <<>>
<1>1. <<>> \in Seq({}) /\ Len(<<>>) = 0
  BY EmptySeq
<1>2. PICK f : Filters(f, <<>>, ty, 0) /\ OfType(<<>>, ty) = f[0]
  BY <1>1, OfTypeFilters
<1> QED
  BY <1>2, FilterStep

(* A packet at the end is kept if it has the type. *)
LEMMA OfTypeAppend ==
  ASSUME NEW S, NEW s \in Seq(S), NEW e \in S, NEW ty
  PROVE  OfType(Append(s, e), ty)
           = IF e.type = ty THEN Append(OfType(s, ty), e) ELSE OfType(s, ty)
<1> DEFINE u == Append(s, e)
           n == Len(s)
<1>1. /\ u \in Seq(S) /\ Len(u) = n + 1 /\ n \in Nat
      /\ \A i \in 1..n : u[i] = s[i]
      /\ u[n + 1] = e
  BY AppendProperties, LenProperties
<1>2. PICK f : Filters(f, s, ty, n) /\ OfType(s, ty) = f[n]
  BY OfTypeFilters
<1> HIDE DEF u, n
<1>3. PICK g : Filters(g, u, ty, n + 1) /\ OfType(u, ty) = g[n + 1]
  BY <1>1, OfTypeFilters
<1>4. g[n + 1] = IF e.type = ty THEN Append(g[n], e) ELSE g[n]
  <2>1. n + 1 \in Nat /\ n < n + 1
    BY <1>1
  <2> QED
    BY <1>1, <1>3, <2>1, FilterStep
<1>5. f[n] = g[n]
  <2>1. n + 1 \in Nat /\ n <= n + 1 /\ n <= n
    BY <1>1
  <2> QED
    BY <1>1, <1>2, <1>3, <2>1, FilterPrefix, SMTT(30)
<1> QED
  BY <1>2, <1>3, <1>4, <1>5 DEF u

(* A packet at the front is kept if it has the type. *)
LEMMA OfTypeTail ==
  ASSUME NEW S, NEW s \in Seq(S), s # <<>>, NEW ty
  PROVE  OfType(s, ty)
           = IF Head(s).type = ty THEN <<Head(s)>> \o OfType(Tail(s), ty)
                                  ELSE OfType(Tail(s), ty)
<1> DEFINE n == Len(s)
           h == Head(s)
           u == Tail(s)
           Fronted(x) == IF h.type = ty THEN <<h>> \o x ELSE x
<1>1. /\ n \in Nat /\ n # 0 /\ h = s[1] /\ h \in S
      /\ u \in Seq(S) /\ Len(u) = n - 1 /\ \A i \in 1..(n - 1) : u[i] = s[i + 1]
  BY LenProperties, EmptySeq, HeadTailProperties
<1>2. PICK f : Filters(f, s, ty, n) /\ OfType(s, ty) = f[n]
  BY OfTypeFilters
<1> HIDE DEF u, n, h
<1>3. PICK g : Filters(g, u, ty, n - 1) /\ OfType(u, ty) = g[n - 1]
  BY <1>1, OfTypeFilters
<1> DEFINE T == {i \in Nat : i <= n - 1 => f[i + 1] = Fronted(g[i])}
<1>4. 0 \in T
  <2>1. f[0] = <<>> /\ g[0] = <<>> /\ f[0 + 1] = IF s[0 + 1].type = ty THEN Append(f[0], s[0 + 1]) ELSE f[0]
    <3>1. 0 < n /\ n - 1 \in Nat
      BY <1>1
    <3> QED
      BY <1>1, <1>2, <1>3, <3>1, FilterStep
  <2>2. f[1] = IF h.type = ty THEN Append(<<>>, h) ELSE <<>>
    BY <1>1, <2>1
  <2>3. Append(<<>>, h) = <<>> \o <<h>> /\ <<>> \in Seq(S) /\ <<h>> \in Seq(S)
    BY <1>1, EmptySeq, AppendIsConcat
  <2>4. <<>> \o <<h>> = <<h>> /\ <<h>> \o <<>> = <<h>>
    BY <2>3, ConcatEmptySeq
  <2>5. f[1] = Fronted(g[0])
    BY <2>1, <2>2, <2>3, <2>4
  <2> QED
    BY <2>5
<1>5. ASSUME NEW i \in Nat, i \in T
      PROVE  i + 1 \in T
  <2> SUFFICES ASSUME i + 1 <= n - 1
               PROVE  f[(i + 1) + 1] = Fronted(g[i + 1])
    OBVIOUS
  <2>1. /\ i + 1 \in Nat /\ i + 1 < n /\ i < n - 1 /\ i <= n - 1 /\ n - 1 \in Nat
        /\ i + 1 \in 1..(n - 1) /\ i \in 0..(n - 1)
    BY <1>1
  <2>2. f[i + 1] = Fronted(g[i]) /\ u[i + 1] = s[(i + 1) + 1]
    BY <1>1, <1>5, <2>1
  <2>3. f[(i + 1) + 1] = IF u[i + 1].type = ty THEN Append(f[i + 1], u[i + 1]) ELSE f[i + 1]
    BY <1>1, <1>2, <2>1, <2>2, FilterStep
  <2>4. g[i + 1] = IF u[i + 1].type = ty THEN Append(g[i], u[i + 1]) ELSE g[i]
    BY <1>3, <2>1, FilterStep
  <2>5. g[i] \in Seq(S) /\ u[i + 1] \in S /\ <<h>> \in Seq(S)
    <3>1. g[i] \in Seq(S)
      BY <1>1, <1>3, <2>1, FilterType
    <3>2. u[i + 1] \in S
      BY <1>1, <2>1, ElementOfSeq
    <3> QED
      BY <1>1, <3>1, <3>2
  <2>6. <<h>> \o Append(g[i], u[i + 1]) = Append(<<h>> \o g[i], u[i + 1])
    <3> DEFINE e == u[i + 1]
               x == g[i]
               y == <<h>>
    <3> HIDE DEF e, x, y
    <3>1. x \in Seq(S) /\ y \in Seq(S) /\ <<e>> \in Seq(S) /\ e \in S
      BY <2>5 DEF e, x, y
    <3>2. y \o x \in Seq(S)
      BY <3>1, ConcatProperties
    <3>3. Append(x, e) = x \o <<e>> /\ Append(y \o x, e) = (y \o x) \o <<e>>
      BY <3>1, <3>2, AppendIsConcat
    <3>4. (y \o x) \o <<e>> = y \o (x \o <<e>>)
      BY <3>1, ConcatAssociative
    <3> QED
      BY <3>3, <3>4 DEF e, x, y
  <2> QED
    BY <2>2, <2>3, <2>4, <2>6
<1> HIDE DEF T
<1>6. n - 1 \in T
  BY <1>1, <1>4, <1>5, NatInductive
<1>7. f[n] = Fronted(g[n - 1])
  <2>1. n - 1 <= n - 1 /\ (n - 1) + 1 = n
    BY <1>1
  <2> QED
    BY <1>6, <2>1 DEF T
<1> QED
  BY <1>2, <1>3, <1>7 DEF h, u

----------------------------------------------------------------------------
(* Packets in a row. *)

(* Taking the first packet from the buffer takes it from the whole row. *)
LEMMA RowParts ==
  ASSUME NEW S, NEW r \in Seq(S), NEW n \in Seq(S), NEW o \in Seq(S), r # <<>>
  PROVE  /\ r \o n \o o \in Seq(S) /\ r \o n \o o # <<>>
         /\ Head(r \o n \o o) = Head(r)
         /\ Tail(r \o n \o o) = Tail(r) \o n \o o
<1> DEFINE h == <<Head(r)>>
           t == Tail(r)
<1>1. /\ Head(r) \in S /\ t \in Seq(S) /\ Len(t) = Len(r) - 1 /\ Head(r) = r[1]
      /\ \A i \in 1..Len(t) : t[i] = r[i + 1]
  BY HeadTailProperties
<1>2. h \in Seq(S) /\ Len(h) = 1 /\ h[1] = Head(r)
  BY <1>1
<1>3. Len(r) \in Nat /\ Len(r) # 0
  BY LenProperties, EmptySeq
<1> HIDE DEF h, t
<1>a. h \in Seq(S)
  BY <1>2
<1>b. t \in Seq(S)
  BY <1>1
<1>4. /\ h \o t \in Seq(S) /\ Len(h \o t) = 1 + Len(t)
      /\ \A i \in 1..(1 + Len(t)) : (h \o t)[i] = IF i <= 1 THEN h[i] ELSE t[i - 1]
  <2>1. Len(h) = 1
    BY <1>2
  <2>2. /\ h \o t \in Seq(S) /\ Len(h \o t) = Len(h) + Len(t)
        /\ \A i \in 1..(Len(h) + Len(t)) :
             (h \o t)[i] = IF i <= Len(h) THEN h[i] ELSE t[i - Len(h)]
    BY <1>a, <1>b, ConcatProperties
  <2> QED
    BY <2>1, <2>2
<1>5. r = h \o t
  <2>1. Len(h \o t) = Len(r)
    BY <1>1, <1>3, <1>4
  <2>2. ASSUME NEW i \in 1..Len(r)
        PROVE  r[i] = (h \o t)[i]
    <3>1. CASE i = 1
      BY <1>1, <1>2, <1>3, <1>4, <3>1
    <3>2. CASE i # 1
      <4>1. i - 1 \in 1..Len(t) /\ (i - 1) + 1 = i /\ ~(i <= 1) /\ i \in 1..(1 + Len(t))
        BY <1>1, <1>3, <3>2
      <4> QED
        BY <1>1, <1>4, <4>1
    <3> QED
      BY <3>1, <3>2
  <2> QED
    BY <1>4, <2>1, <2>2, SeqEqual
<1> DEFINE y == t \o n \o o
<1>6. t \o n \in Seq(S)
  BY <1>b, ConcatProperties
<1>c. y \in Seq(S)
  BY <1>6, ConcatProperties
<1>7. r \o n \o o = h \o y
  <2>a. \A a, b, c \in Seq(S) : (a \o b) \o c = a \o (b \o c)
    BY ConcatAssociative, SMTT(30)
  <2>1. (h \o t) \o n = h \o (t \o n)
    BY <1>a, <1>b, <2>a
  <2>2. (h \o (t \o n)) \o o = h \o ((t \o n) \o o)
    BY <1>a, <1>6, ConcatAssociative, SMTT(30)
  <2> QED
    BY <1>5, <2>1, <2>2
<1> DEFINE x == r \o n \o o
<1> HIDE DEF y, x
<1>8. /\ x \in Seq(S) /\ Len(x) = 1 + Len(y)
      /\ \A i \in 1..(1 + Len(y)) : x[i] = IF i <= 1 THEN h[i] ELSE y[i - 1]
  <2>1. Len(h) = 1
    BY <1>2
  <2>2. /\ h \o y \in Seq(S) /\ Len(h \o y) = Len(h) + Len(y)
        /\ \A i \in 1..(Len(h) + Len(y)) :
             (h \o y)[i] = IF i <= Len(h) THEN h[i] ELSE y[i - Len(h)]
    BY <1>a, <1>c, ConcatProperties
  <2>3. x = h \o y
    BY <1>7 DEF x, y
  <2> QED
    BY <2>1, <2>2, <2>3
<1>9. Len(y) \in Nat
  BY <1>c, LenProperties
<1>10. x # <<>> /\ Head(x) = x[1]
  BY <1>8, <1>9, EmptySeq
<1>11. Head(x) = Head(r)
  <2>1. 1 \in 1..(1 + Len(y))
    BY <1>9
  <2> QED
    BY <1>2, <1>8, <1>10, <2>1
<1>12. Tail(x) = y
  <2>1. /\ Tail(x) \in Seq(S) /\ Len(Tail(x)) = Len(x) - 1
        /\ \A i \in 1..Len(Tail(x)) : Tail(x)[i] = x[i + 1]
    BY <1>8, <1>10, HeadTailProperties
  <2>2. Len(Tail(x)) = Len(y)
    BY <1>8, <1>9, <2>1
  <2>3. ASSUME NEW i \in 1..Len(y)
        PROVE  Tail(x)[i] = y[i]
    <3>1. i + 1 \in 1..(1 + Len(y)) /\ ~(i + 1 <= 1) /\ (i + 1) - 1 = i
      BY <1>9
    <3> QED
      BY <1>8, <2>1, <2>2, <3>1
  <2> QED
    BY <1>c, <2>1, <2>2, <2>3, SeqEqual
<1> QED
  BY <1>8, <1>10, <1>11, <1>12 DEF x, y, t

(* What is on its way: buffer, socket and the packet being sent. *)
Row(r, n, o) == r \o n \o o

(* A row with something received is not empty.                              *)
LEMMA RowNotEmpty ==
  ASSUME NEW S, NEW r \in Seq(S), NEW n \in Seq(S), NEW o \in Seq(S), r # <<>>
  PROVE  Row(r, n, o) # <<>>
  BY RowParts DEF Row

(* Its first packet is the first one received.                              *)
LEMMA RowHead ==
  ASSUME NEW S, NEW r \in Seq(S), NEW n \in Seq(S), NEW o \in Seq(S), r # <<>>
  PROVE  Head(Row(r, n, o)) = Head(r)
  BY RowParts DEF Row

(* Taking that one leaves the rest in line.                                 *)
LEMMA RowTail ==
  ASSUME NEW S, NEW r \in Seq(S), NEW n \in Seq(S), NEW o \in Seq(S), r # <<>>
  PROVE  Tail(Row(r, n, o)) = Row(Tail(r), n, o)
  BY RowParts, SMTT(30) DEF Row

(* A worker with nothing to send gets a packet: the row grows at the end. *)
LEMMA RowAppend ==
  ASSUME NEW S, NEW r \in Seq(S), NEW n \in Seq(S), NEW p \in S
  PROVE  Row(r, n, <<p>>) = Append(Row(r, n, <<>>), p)
<1>1. r \o n \in Seq(S)
  BY ConcatProperties
<1>2. (r \o n) \o <<>> = r \o n
  BY <1>1, ConcatEmptySeq
<1>3. Append(r \o n, p) = (r \o n) \o <<p>>
  BY <1>1, AppendIsConcat
<1> QED
  BY <1>1, <1>2, <1>3 DEF Row

(* It puts the packet into the socket: the row stays as it is. *)
LEMMA RowSend ==
  ASSUME NEW S, NEW r \in Seq(S), NEW n \in Seq(S), NEW p \in S
  PROVE  Row(r, Append(n, p), <<>>) = Row(r, n, <<p>>)
<1> DEFINE e == <<p>>
<1>1. e \in Seq(S)
  OBVIOUS
<1>2. Append(n, p) = n \o e
  BY AppendIsConcat
<1> HIDE DEF e
<1>3. n \o e \in Seq(S) /\ r \o (n \o e) \in Seq(S)
  BY <1>1, ConcatProperties
<1>4. (r \o (n \o e)) \o <<>> = r \o (n \o e)
  BY <1>3, ConcatEmptySeq
<1>5. (r \o n) \o e = r \o (n \o e)
  BY <1>1, ConcatAssociative
<1> QED
  BY <1>2, <1>4, <1>5 DEF e, Row

(* So it does when the first packets of the socket, a, go to the buffer. *)
LEMMA RowReceive ==
  ASSUME NEW S, NEW r \in Seq(S), NEW a \in Seq(S), NEW b \in Seq(S), NEW o \in Seq(S)
  PROVE  Row(r \o a, b, o) = Row(r, a \o b, o)
<1>1. (r \o a) \o b = r \o (a \o b)
  BY ConcatAssociative
<1> QED
  BY <1>1 DEF Row

(* A sequence is a prefix and the rest.                                     *)
LEMMA SplitSeq ==
  ASSUME NEW S, NEW s \in Seq(S), NEW m \in 0..Len(s)
  PROVE  /\ SubSeq(s, 1, m) \in Seq(S) /\ SubSeq(s, m + 1, Len(s)) \in Seq(S)
         /\ SubSeq(s, 1, m) \o SubSeq(s, m + 1, Len(s)) = s
<1>0. Len(s) \in Nat /\ m \in Nat /\ m <= Len(s) /\ m + 1 \in Nat \ {0}
  BY LenProperties
<1>1. SubSeq(s, 1, m) \in Seq(S) /\ SubSeq(s, m + 1, Len(s)) \in Seq(S)
  BY <1>0, SubSeqType
<1>2. 1 \in 1..(Len(s) + 1) /\ m \in (1 - 1)..Len(s) /\ Len(s) \in m..Len(s)
  BY <1>0
<1>3. SubSeq(s, 1, m) \o SubSeq(s, m + 1, Len(s)) = SubSeq(s, 1, Len(s))
  BY <1>2, ConcatAdjacentSubSeq
<1>4. SubSeq(s, 1, Len(s)) = s
  BY SubSeqFull
<1> QED
  BY <1>1, <1>3, <1>4

----------------------------------------------------------------------------
(* Requests w and packets x name the same keys, rk being the requests' keys. *)

Agree(rk, w, x) ==
  Len(w) = Len(x) /\ \A i \in 1..Len(x) : rk[w[i]] = x[i].key

(* A request filed and its packet sent agree at the end.                    *)
LEMMA AgreeAppend ==
  ASSUME NEW R, NEW S, NEW rk, NEW w \in Seq(R), NEW x \in Seq(S), Agree(rk, w, x),
         NEW r \in R, NEW p \in S, rk[r] = p.key
  PROVE  Agree(rk, Append(w, r), Append(x, p))
<1>1. /\ Len(Append(w, r)) = Len(w) + 1 /\ Len(Append(x, p)) = Len(x) + 1
      /\ \A i \in 1..Len(w) : Append(w, r)[i] = w[i]
      /\ \A i \in 1..Len(x) : Append(x, p)[i] = x[i]
      /\ Append(w, r)[Len(w) + 1] = r /\ Append(x, p)[Len(x) + 1] = p
  BY AppendProperties
<1>2. Len(x) \in Nat /\ Len(w) = Len(x)
  BY LenProperties DEF Agree
<1>3. \A i \in 1..(Len(x) + 1) : i \in 1..Len(x) \/ i = Len(x) + 1
  BY <1>2
<1> QED
  BY <1>1, <1>2, <1>3 DEF Agree

(* The first packet answers the first request. *)
LEMMA AgreeFirst ==
  ASSUME NEW R, NEW S, NEW rk, NEW w \in Seq(R), NEW p \in S, NEW y \in Seq(S),
         Agree(rk, w, <<p>> \o y)
  PROVE  /\ 1 \in 1..Len(w) /\ rk[w[1]] = p.key
         /\ Agree(rk, Without(w, 1), y)
<1> DEFINE x == <<p>> \o y
           v == Without(w, 1)
<1>1. <<p>> \in Seq(S) /\ Len(<<p>>) = 1 /\ <<p>>[1] = p
  OBVIOUS
<1>2. /\ Len(x) = 1 + Len(y)
      /\ \A i \in 1..(1 + Len(y)) : x[i] = IF i <= 1 THEN <<p>>[i] ELSE y[i - 1]
  BY <1>1, ConcatProperties
<1>3. Len(y) \in Nat /\ Len(w) \in Nat
  BY LenProperties
<1> HIDE DEF x, v
<1>4. Len(w) = 1 + Len(y) /\ \A i \in 1..(1 + Len(y)) : rk[w[i]] = x[i].key
  BY <1>2 DEF Agree, x
<1>5. 1 \in 1..Len(w) /\ 1 \in 1..(1 + Len(y))
  BY <1>3, <1>4
<1>6. rk[w[1]] = p.key
  BY <1>1, <1>2, <1>4, <1>5
<1>7. /\ Len(v) = Len(w) - 1
      /\ \A j \in 1..(Len(w) - 1) : v[j] = IF j <= 1 - 1 THEN w[j] ELSE w[j + 1]
  BY <1>5, WithoutProperties DEF v
<1>8. ASSUME NEW j \in 1..Len(y)
      PROVE  rk[v[j]] = y[j].key
  <2>1. /\ j \in 1..(Len(w) - 1) /\ ~(j <= 1 - 1)
        /\ j + 1 \in 1..(1 + Len(y)) /\ ~(j + 1 <= 1) /\ (j + 1) - 1 = j
    BY <1>3, <1>4
  <2>2. v[j] = w[j + 1] /\ x[j + 1] = y[j]
    BY <1>2, <1>7, <2>1
  <2> QED
    BY <1>4, <2>1, <2>2
<1>9. Len(v) = Len(y)
  BY <1>3, <1>4, <1>7
<1> QED
  BY <1>5, <1>6, <1>8, <1>9 DEF Agree, v

(* A request turns into its answer. *)
LEMMA AgreeSwap ==
  ASSUME NEW S, NEW rk, NEW w, NEW x \in Seq(S), NEW y \in Seq(S),
         NEW p \in S, NEW q \in S, p.key = q.key,
         Agree(rk, w, x \o (<<p>> \o y))
  PROVE  Agree(rk, w, Append(x, q) \o y)
<1> DEFINE a == <<p>> \o y
           b == <<q>> \o y
           u == x \o a
           v == x \o b
<1>1. /\ <<p>> \in Seq(S) /\ Len(<<p>>) = 1 /\ <<p>>[1] = p
      /\ <<q>> \in Seq(S) /\ Len(<<q>>) = 1 /\ <<q>>[1] = q
  OBVIOUS
<1>2. /\ a \in Seq(S) /\ Len(a) = 1 + Len(y)
      /\ \A i \in 1..(1 + Len(y)) : a[i] = IF i <= 1 THEN <<p>>[i] ELSE y[i - 1]
  BY <1>1, ConcatProperties
<1>3. /\ b \in Seq(S) /\ Len(b) = 1 + Len(y)
      /\ \A i \in 1..(1 + Len(y)) : b[i] = IF i <= 1 THEN <<q>>[i] ELSE y[i - 1]
  BY <1>1, ConcatProperties
<1>4. Append(x, q) \o y = v
  <2>1. Append(x, q) = x \o <<q>>
    BY AppendIsConcat
  <2> DEFINE e == <<q>>
  <2>2. e \in Seq(S)
    BY <1>1
  <2> HIDE DEF e
  <2>3. (x \o e) \o y = x \o (e \o y)
    BY <2>2, ConcatAssociative
  <2> QED
    BY <2>1, <2>3 DEF e
<1>5. Len(x) \in Nat /\ Len(y) \in Nat
  BY LenProperties
<1>6. \A i \in 1..(1 + Len(y)) : a[i].key = b[i].key
  BY <1>1, <1>2, <1>3, <1>5
<1> HIDE DEF a, b
<1>7. /\ Len(u) = Len(x) + Len(a)
      /\ \A i \in 1..(Len(x) + Len(a)) : u[i] = IF i <= Len(x) THEN x[i] ELSE a[i - Len(x)]
  BY <1>2, ConcatProperties
<1>8. /\ Len(v) = Len(x) + Len(b)
      /\ \A i \in 1..(Len(x) + Len(b)) : v[i] = IF i <= Len(x) THEN x[i] ELSE b[i - Len(x)]
  BY <1>3, ConcatProperties
<1> HIDE DEF u, v
<1>9. Agree(rk, w, u)
  BY DEF u, a
<1>10. ASSUME NEW i \in 1..(Len(x) + Len(a))
       PROVE  u[i].key = v[i].key
  <2>1. Len(b) = Len(a)
    BY <1>2, <1>3
  <2>2. CASE i <= Len(x)
    BY <1>7, <1>8, <2>1, <2>2
  <2>3. CASE ~(i <= Len(x))
    <3>1. i - Len(x) \in 1..(1 + Len(y))
      BY <1>2, <1>5, <2>3
    <3> QED
      BY <1>6, <1>7, <1>8, <2>1, <2>3, <3>1
  <2> QED
    BY <2>2, <2>3
<1>11. Len(u) = Len(v)
  BY <1>2, <1>3, <1>7, <1>8
<1>12. Agree(rk, w, v)
  BY <1>7, <1>9, <1>10, <1>11 DEF Agree
<1> QED
  BY <1>4, <1>12

----------------------------------------------------------------------------
(* The inductive invariant: AnswersInOrder with what is on its way towards  *)
(* a connection taken apart, that a worker holds a packet only while it    *)
(* sends, and that the two ends of a TCP connection agree on whether it    *)
(* lives.                                                                  *)

Down(c) == Row(rbuf[c], net[c], Sending(Peer[c]))
Answers(c) == ResponsesIn(Down(c))
Asked(c) == RequestsIn(Down(Peer[c]))
InOrder(c) == Agree(rkey, waiting[c], Answers(c) \o Asked(c))

OutIdle == \A c \in Conn : wpc[c] \in Sends \/ out[c] = NoPacket
LinkSym == \A c \in Conn : link[c] = link[Peer[c]]
Ordered == \A c \in Conn : link[c] => InOrder(c)

(* What is being sent is a packet or none.                                  *)
LEMMA SendingType ==
  ASSUME TypeOK, NEW c \in Conn
  PROVE  Sending(c) \in Seq(Packet)
<1>1. CASE out[c] = NoPacket
  BY <1>1, EmptySeq DEF Sending
<1>2. CASE out[c] # NoPacket
  <2>1. out[c] \in Packet
    BY <1>2 DEF TypeOK
  <2> HIDE DEF Packet
  <2>2. <<out[c]>> \in Seq(Packet)
    BY <2>1
  <2> QED
    BY <1>2, <2>2 DEF Sending
<1> QED
  BY <1>1, <1>2

(* What comes down a connection are packets.                                *)
LEMMA DownType ==
  ASSUME TypeOK, NEW c \in Conn
  PROVE  /\ Down(c) \in Seq(Packet)
         /\ Answers(c) \in Seq(Packet) /\ Asked(c) \in Seq(Packet)
<1>1. ASSUME NEW d \in Conn
      PROVE  Down(d) \in Seq(Packet)
  <2>1. rbuf[d] \in Seq(Packet) /\ net[d] \in Seq(Packet) /\ Peer[d] \in Conn
    BY ConstAssumption DEF TypeOK
  <2>2. Sending(Peer[d]) \in Seq(Packet)
    BY <2>1, SendingType
  <2>3. rbuf[d] \o net[d] \in Seq(Packet)
    BY <2>1, ConcatProperties
  <2> QED
    BY <2>2, <2>3, ConcatProperties DEF Down, Row
<1>2. Peer[c] \in Conn
  BY ConstAssumption
<1> QED
  BY <1>1, <1>2, OfTypeType DEF Answers, Asked, ResponsesIn, RequestsIn

(* In these terms the property is what it says. *)
LEMMA OrderedAnswersInOrder ==
  ASSUME TypeOK, Ordered
  PROVE  AnswersInOrder
<1> SUFFICES ASSUME NEW c \in Conn, link[c]
             PROVE  LET path == Answers(c) \o Asked(c)
                    IN [i \in DOMAIN waiting[c] |-> rkey[waiting[c][i]]]
                       = [i \in DOMAIN path |-> path[i].key]
  <2>1. \A c \in Conn : Peer[Peer[c]] = c
    BY ConstAssumption
  <2> QED
    BY <2>1 DEF AnswersInOrder, Answers, Asked, Down, Row
<1> DEFINE path == Answers(c) \o Asked(c)
<1>1. path \in Seq(Packet) /\ waiting[c] \in Seq(Request)
  BY DownType, ConcatProperties DEF TypeOK
<1>2. Agree(rkey, waiting[c], path)
  BY DEF Ordered, InOrder
<1> HIDE DEF path
<1>3. DOMAIN waiting[c] = 1..Len(waiting[c]) /\ DOMAIN path = 1..Len(path)
  BY <1>1, LenProperties
<1>4. /\ DOMAIN waiting[c] = DOMAIN path
      /\ \A i \in DOMAIN path : rkey[waiting[c][i]] = path[i].key
  BY <1>2, <1>3 DEF Agree
<1>5. [i \in DOMAIN waiting[c] |-> rkey[waiting[c][i]]] = [i \in DOMAIN path |-> path[i].key]
  BY <1>4
<1> QED
  BY <1>5 DEF path

----------------------------------------------------------------------------
(* What leaves the property of one connection alone. *)

(* Order depends on the waiting list, its keys and the packets of both      *)
(* kinds.                                                                   *)
LEMMA InOrderKept ==
  ASSUME TypeOK, NEW c \in Conn, InOrder(c),
         waiting'[c] = waiting[c],
         \A r \in SeqRange(waiting[c]) : rkey'[r] = rkey[r],
         Answers(c)' = Answers(c), Asked(c)' = Asked(c)
  PROVE  InOrder(c)'
<1> DEFINE path == Answers(c) \o Asked(c)
<1>1. Agree(rkey, waiting[c], path)
  BY DEF InOrder
<1>2. DOMAIN waiting[c] = 1..Len(waiting[c])
  BY LenProperties DEF TypeOK
<1> HIDE DEF path
<1>3. \A i \in 1..Len(path) : rkey'[waiting[c][i]] = rkey[waiting[c][i]]
  BY <1>1, <1>2 DEF Agree, SeqRange
<1>4. Agree(rkey', waiting[c], path)
  BY <1>1, <1>3 DEF Agree
<1> QED
  BY <1>4 DEF InOrder, path

(* What comes down depends on buffer, socket and the packet being sent.     *)
LEMMA DownKept ==
  ASSUME NEW c \in Conn, rbuf'[c] = rbuf[c], net'[c] = net[c], out'[Peer[c]] = out[Peer[c]]
  PROVE  Down(c)' = Down(c)
  BY DEF Down, Sending

(* An action that leaves the row towards c alone leaves its packets alone. *)
LEMMA RowKept ==
  ASSUME NEW c \in Conn, Down(c)' = Down(c), Down(Peer[c])' = Down(Peer[c])
  PROVE  Answers(c)' = Answers(c) /\ Asked(c)' = Asked(c)
  BY DEF Answers, Asked

(* A step that leaves lists and packets of all connections alone, or cuts   *)
(* some, keeps them in order.                                               *)
LEMMA OrderFrame ==
  ASSUME TypeOK, Ordered, LinkSym',
         \A c \in Conn : link'[c] =>
           /\ link[c] /\ waiting'[c] = waiting[c]
           /\ \A r \in SeqRange(waiting[c]) : rkey'[r] = rkey[r]
           /\ Down(c)' = Down(c)
  PROVE  Ordered'
<1> SUFFICES ASSUME NEW c \in Conn, link'[c]
             PROVE  InOrder(c)'
  BY DEF Ordered
<1>1. Peer[c] \in Conn /\ link'[Peer[c]]
  BY ConstAssumption DEF LinkSym
<1>2. Down(c)' = Down(c) /\ Down(Peer[c])' = Down(Peer[c])
  BY <1>1
<1> QED
  BY <1>2, RowKept, InOrderKept DEF Ordered

----------------------------------------------------------------------------
(* The steps. *)

(* A worker has a packet only while it sends one. *)
LEMMA StepIdle ==
  ASSUME Typed, OutIdle, [Next]_vars
  PROVE  OutIdle'
<1> USE ConstAssumption DEF OutIdle, nodeVars, threadVars, reqVars, workVars, listVars, netVars
<1>0. wpc \in [Conn -> WorkerPc] /\ out \in [Conn -> Packet \cup {NoPacket}]
  BY DEF Typed, TypeOK
<1>1. ASSUME UNCHANGED <<wpc, out>>
      PROVE  OutIdle'
  BY <1>1
<1>2. ASSUME NEW n \in Node, NEW how, NodeDown(n, how)
      PROVE  OutIdle'
  BY <1>0, <1>2 DEF NodeDown
<1>3. ASSUME NEW t \in Thread, NEW k \in Key, Get(t, k) \/ SetCheck(t, k)
      PROVE  OutIdle'
  BY <1>1, <1>2, <1>3 DEF Get, SetCheck
<1>4. ASSUME NEW p \in Proc,
             \/ CleanLock(p) \/ CleanUnlock(p)
             \/ \E c \in Conn : CleanErase(p, c)
             \/ /\ p \in Thread
                /\ \/ SetInsert(p) \/ FindConn(p) \/ AddRequest(p) \/ Wait(p)
                   \/ SpuriousWakeup(p) \/ Return(p)
      PROVE  OutIdle'
  BY <1>1, <1>4 DEF CleanLock, CleanUnlock, CleanErase, SetInsert, FindConn, AddRequest, Wait,
     SpuriousWakeup, Return
<1>5. ASSUME NEW t \in Thread, NEW r \in Request, CreateRequest(t, r)
      PROVE  OutIdle'
  BY <1>1, <1>2, <1>5 DEF CreateRequest
<1>6. ASSUME NEW c \in Conn, wpc[c] \notin Sends,
             \/ Receive(c) \/ ParseNothing(c) \/ UpdateKeys(c) \/ Deliver(c)
             \/ CheckRequests(c) \/ Reset(c)
      PROVE  OutIdle'
  <2>1. /\ out' = out /\ out[c] = NoPacket
        /\ wpc' = wpc \/ \E w \in WorkerPc : wpc' = [wpc EXCEPT ![c] = w]
    BY <1>6 DEF Receive, ParseNothing, UpdateKeys, Deliver, CheckRequests, Reset,
       AfterReceive, WorkerPc
  <2> QED
    BY <1>0, <2>1
<1>7. ASSUME NEW c \in Conn, Reset(c)
      PROVE  OutIdle'
  BY <1>1, <1>7 DEF Reset
<1>8. ASSUME NEW c \in Conn,
             \/ Receive(c) \/ ParseNothing(c) \/ UpdateKeys(c) \/ Deliver(c) \/ CheckRequests(c)
      PROVE  wpc[c] \notin Sends
  BY <1>8 DEF Receive, ParseNothing, UpdateKeys, Deliver, CheckRequests, Sends
<1>9. ASSUME NEW c \in Conn, ParseRequest(c) \/ SnapshotKeys(c) \/ MoveRequest(c)
      PROVE  OutIdle'
  <2>1. /\ \E w \in Sends : wpc' = [wpc EXCEPT ![c] = w]
        /\ \A d \in Conn : d # c => out'[d] = out[d]
    BY <1>0, <1>9 DEF ParseRequest, SnapshotKeys, MoveRequest, Sends
  <2> QED
    BY <1>0, <2>1
<1>10. ASSUME NEW c \in Conn, SendResponse(c) \/ SendKeys(c) \/ SendRequest(c)
       PROVE  OutIdle'
  <2>1. /\ \A d \in Conn : d # c => wpc'[d] = wpc[d]
        /\ out' = [out EXCEPT ![c] = NoPacket]
    BY <1>0, <1>10 DEF SendResponse, SendKeys, SendRequest, Send
  <2> QED
    BY <1>0, <2>1
<1>11. ASSUME NEW n \in Node, Exit(n)
       PROVE  OutIdle'
  BY <1>2, <1>11 DEF Exit
<1>12. CASE UNCHANGED vars
  BY <1>1, <1>12 DEF vars
<1> QED
  BY <1>3, <1>4, <1>5, <1>6, <1>7, <1>8, <1>9, <1>10, <1>11, <1>12
  DEF Next, Clean, Worker, Proceed, Call, Proc

(* The two ends agree on whether the TCP connection lives, and it does not  *)
(* come back.                                                              *)
LEMMA StepLink ==
  ASSUME Typed, LinkSym, [Next]_vars
  PROVE  LinkSym' /\ \A c \in Conn : link'[c] => link[c]
<1> USE ConstAssumption DEF LinkSym, nodeVars, threadVars, reqVars, workVars, listVars, netVars
<1> DEFINE G == LinkSym' /\ \A c \in Conn : link'[c] => link[c]
<1>0. link \in [Conn -> BOOLEAN]
  BY DEF Typed, TypeOK
<1>1. ASSUME link' = link
      PROVE  G
  BY <1>1
<1>2. ASSUME NEW n \in Node, NEW how, NodeDown(n, how)
      PROVE  G
  <2>1. link' = [c \in Conn |-> link[c] /\ n \notin {Owner[c], Owner[Peer[c]]}]
    BY <1>2 DEF NodeDown
  <2>2. ASSUME NEW c \in Conn
        PROVE  link'[c] = link'[Peer[c]] /\ (link'[c] => link[c])
    <3>1. Peer[c] \in Conn /\ Peer[Peer[c]] = c /\ link[c] = link[Peer[c]]
      OBVIOUS
    <3>2. /\ link'[c] = (link[c] /\ n \notin {Owner[c], Owner[Peer[c]]})
          /\ link'[Peer[c]] = (link[Peer[c]] /\ n \notin {Owner[Peer[c]], Owner[c]})
      BY <2>1, <3>1
    <3> QED
      BY <3>1, <3>2
  <2> QED
    BY <2>2
<1>3. ASSUME NEW x \in Conn, link' = [link EXCEPT ![x] = FALSE, ![Peer[x]] = FALSE]
      PROVE  G
  <2>1. ASSUME NEW c \in Conn
        PROVE  link'[c] = link'[Peer[c]] /\ (link'[c] => link[c])
    <3>1. Peer[c] \in Conn /\ Peer[Peer[c]] = c /\ link[c] = link[Peer[c]]
      OBVIOUS
    <3>2. /\ link'[c] = IF c = x \/ c = Peer[x] THEN FALSE ELSE link[c]
          /\ link'[Peer[c]] = IF Peer[c] = x \/ Peer[c] = Peer[x] THEN FALSE ELSE link[Peer[c]]
      BY <1>0, <1>3, <3>1
    <3>3. (c = x \/ c = Peer[x]) <=> (Peer[c] = x \/ Peer[c] = Peer[x])
      BY <3>1
    <3> QED
      BY <3>1, <3>2, <3>3
  <2> QED
    BY <2>1
<1> HIDE DEF G, LinkSym
<1>4. ASSUME NEW t \in Thread, NEW k \in Key, Get(t, k) \/ SetCheck(t, k)
      PROVE  G
  BY <1>1, <1>2, <1>4 DEF Get, SetCheck
<1>5. ASSUME NEW p \in Proc,
             \/ CleanLock(p) \/ CleanUnlock(p)
             \/ /\ p \in Thread
                /\ \/ SetInsert(p) \/ FindConn(p) \/ AddRequest(p) \/ Wait(p)
                   \/ SpuriousWakeup(p)
      PROVE  G
  BY <1>1, <1>5 DEF CleanLock, CleanUnlock, SetInsert, FindConn, AddRequest, Wait,
     SpuriousWakeup
<1>6. ASSUME NEW t \in Thread, NEW r \in Request, CreateRequest(t, r)
      PROVE  G
  BY <1>1, <1>2, <1>6 DEF CreateRequest
<1>7. ASSUME NEW p \in Proc, NEW c \in Conn, CleanErase(p, c)
      PROVE  G
  BY <1>1, <1>3, <1>7 DEF CleanErase, Keep, Destroy
<1>8. ASSUME NEW t \in Thread, Return(t)
      PROVE  G
  <2>1. tconn[t] \in Conn
    BY <1>8 DEF Return, Typed, ThreadsWired, Calling
  <2>2. Destroy(tconn[t]) \/ link' = link
    BY <1>8 DEF Return, Keep
  <2> QED
    BY <1>1, <1>3, <2>1, <2>2 DEF Destroy
<1>9. ASSUME NEW c \in Conn, Worker(c) \/ Reset(c)
      PROVE  G
  BY <1>1, <1>3, <1>9 DEF Worker, Receive, ParseNothing, UpdateKeys, ParseRequest,
     SendResponse, Deliver, SnapshotKeys, SendKeys, CheckRequests, MoveRequest, SendRequest,
     Reset
<1>10. ASSUME NEW n \in Node, Exit(n)
       PROVE  G
  BY <1>2, <1>10 DEF Exit
<1>11. ASSUME UNCHANGED vars
       PROVE  G
  BY <1>1, <1>11 DEF vars
<1>12. G
  BY <1>4, <1>5, <1>6, <1>7, <1>8, <1>9, <1>10, <1>11 DEF Next, Clean, Proceed, Call, Proc
<1> QED
  BY <1>12 DEF G

(* What a worker takes from the buffer, and what it starts to send. *)
LEMMA TakeFirst ==
  ASSUME TypeOK, NEW x \in Conn, rbuf[x] # <<>>, rbuf' = [rbuf EXCEPT ![x] = Tail(@)],
         net' = net, out'[Peer[x]] = out[Peer[x]]
  PROVE  /\ Down(x) \in Seq(Packet) /\ Down(x) # <<>>
         /\ Head(Down(x)) = Head(rbuf[x])
         /\ Down(x)' = Tail(Down(x))
<1>1. /\ rbuf[x] \in Seq(Packet) /\ net[x] \in Seq(Packet) /\ Peer[x] \in Conn
      /\ rbuf'[x] = Tail(rbuf[x])
  BY ConstAssumption DEF TypeOK
<1>2. Sending(Peer[x]) \in Seq(Packet)
  BY <1>1, SendingType
<1>3. /\ Down(x) \in Seq(Packet) /\ Down(x) # <<>>
      /\ Head(Down(x)) = Head(rbuf[x])
      /\ Tail(Down(x)) = Row(Tail(rbuf[x]), net[x], Sending(Peer[x]))
  <2>1. rbuf[x] \in Seq(Packet) /\ net[x] \in Seq(Packet)
    BY <1>1
  <2>2. Row(rbuf[x], net[x], Sending(Peer[x])) # <<>>
    BY <1>2, <2>1, RowNotEmpty
  <2>3. Head(Row(rbuf[x], net[x], Sending(Peer[x]))) = Head(rbuf[x])
    BY <1>2, <2>1, RowHead
  <2>4. Tail(Row(rbuf[x], net[x], Sending(Peer[x])))
        = Row(Tail(rbuf[x]), net[x], Sending(Peer[x]))
    BY <1>2, <2>1, RowTail
  <2>5. Down(x) \in Seq(Packet)
    BY DownType
  <2> QED
    BY <2>2, <2>3, <2>4, <2>5 DEF Down
<1>4. Down(x)' = Row(Tail(rbuf[x]), net[x], Sending(Peer[x]))
  BY <1>1 DEF Down, Sending
<1> QED
  BY <1>3, <1>4

(* A packet about to be sent is the last one in line.                       *)
LEMMA StartSending ==
  ASSUME TypeOK, NEW x \in Conn, out[x] = NoPacket, NEW p \in Packet,
         out' = [out EXCEPT ![x] = p], net' = net, rbuf'[Peer[x]] = rbuf[Peer[x]]
  PROVE  Down(Peer[x])' = Append(Down(Peer[x]), p)
<1> DEFINE d == Peer[x]
<1>1. /\ d \in Conn /\ Peer[d] = x /\ rbuf[d] \in Seq(Packet) /\ net[d] \in Seq(Packet)
      /\ out'[x] = p
  BY ConstAssumption DEF TypeOK
<1>2. p # NoPacket
  BY DEF Packet, NoPacket
<1> HIDE DEF Packet, NoPacket
<1>3. Row(rbuf[d], net[d], <<p>>) = Append(Row(rbuf[d], net[d], <<>>), p)
  <2>1. rbuf[d] \in Seq(Packet) /\ net[d] \in Seq(Packet)
    BY <1>1
  <2> QED
    BY <2>1, RowAppend
<1>4. Down(d) = Row(rbuf[d], net[d], <<>>)
  BY <1>1 DEF Down, Sending
<1>5. Down(d)' = Row(rbuf[d], net[d], <<p>>)
  BY <1>1, <1>2 DEF Down, Sending
<1> QED
  BY <1>3, <1>4, <1>5

(* receive_data moves packets from the socket to the buffer. *)
LEMMA ReceiveDown ==
  ASSUME Typed, NEW x \in Conn, Receive(x)
  PROVE  \A c \in Conn : (c = x => link[x]) => Down(c)' = Down(c)
<1> USE ConstAssumption DEF nodeVars, threadVars, reqVars, workVars, listVars, netVars
<1>1. ASSUME link[x]
      PROVE  Down(x)' = Down(x)
  <2> DEFINE room == RCap - Len(rbuf[x])
             m == IF Len(net[x]) < room THEN Len(net[x]) ELSE room
  <2>0. /\ rbuf[x] \in Seq(Packet) /\ net[x] \in Seq(Packet) /\ Peer[x] \in Conn
        /\ out' = out
    BY DEF Typed, TypeOK, Receive
  <2>1. CASE /\ rbuf' = [rbuf EXCEPT ![x] = @ \o SubSeq(net[x], 1, m)]
             /\ net' = [net EXCEPT ![x] = SubSeq(@, m + 1, Len(@))]
    <3>1. /\ rbuf'[x] = rbuf[x] \o SubSeq(net[x], 1, m)
          /\ net'[x] = SubSeq(net[x], m + 1, Len(net[x]))
      BY <2>1 DEF Typed, TypeOK
    <3>2. Sending(Peer[x]) \in Seq(Packet)
      BY <2>0, SendingType DEF Typed
    <3>3. m \in 0..Len(net[x])
      <4>1. Len(net[x]) \in Nat /\ Len(rbuf[x]) \in Nat /\ Len(rbuf[x]) <= RCap
        BY <2>0, LenProperties DEF Typed, WorkersWired
      <4> QED
        BY <4>1
    <3>4. Sending(Peer[x])' = Sending(Peer[x])
      BY <2>0 DEF Sending
    <3> HIDE DEF m, room
    <3> DEFINE a == SubSeq(net[x], 1, m)
               b == SubSeq(net[x], m + 1, Len(net[x]))
    <3>5. a \in Seq(Packet) /\ b \in Seq(Packet) /\ a \o b = net[x]
      BY <2>0, <3>3, SplitSeq
    <3>a. a \in Seq(Packet) /\ b \in Seq(Packet)
      BY <3>5
    <3> HIDE DEF a, b
    <3>6. Row(rbuf[x] \o a, b, Sending(Peer[x])) = Row(rbuf[x], a \o b, Sending(Peer[x]))
      BY <2>0, <3>2, <3>a, RowReceive
    <3>7. Down(x)' = Row(rbuf[x] \o a, b, Sending(Peer[x]))
      BY <3>1, <3>4 DEF Down, a, b
    <3> QED
      BY <3>5, <3>6, <3>7 DEF Down
  <2>2. CASE UNCHANGED <<rbuf, net>>
    BY <2>0, <2>2, DownKept
  <2>3. \/ UNCHANGED <<rbuf, net>>
        \/ /\ rbuf' = [rbuf EXCEPT ![x] = @ \o SubSeq(net[x], 1, m)]
           /\ net' = [net EXCEPT ![x] = SubSeq(@, m + 1, Len(@))]
    <3>1. [net EXCEPT ![x] = net[x]] = net
      BY DEF Typed, TypeOK
    <3> QED
      BY <1>1, <3>1 DEF Receive
  <2> QED
    BY <2>1, <2>2, <2>3
<1>2. ASSUME NEW c \in Conn, c # x
      PROVE  Down(c)' = Down(c)
  <2>1. rbuf'[c] = rbuf[c] /\ net'[c] = net[c] /\ out' = out
    <3>1. rbuf \in [Conn -> Seq(Packet)] /\ net \in [Conn -> Seq(Packet)]
      BY DEF Typed, TypeOK
    <3>2. /\ out' = out
          /\ rbuf' = rbuf \/ \E e : rbuf' = [rbuf EXCEPT ![x] = e]
          /\ net' = net \/ \E e : net' = [net EXCEPT ![x] = e]
      BY DEF Receive
    <3> QED
      BY <1>2, <3>1, <3>2
  <2> QED
    BY <2>1, DownKept
<1> QED
  BY <1>1, <1>2

(* So order is kept.                                                        *)
LEMMA ReceiveOrdered ==
  ASSUME Typed, Ordered, LinkSym', NEW x \in Conn, Receive(x)
  PROVE  Ordered'
<1>1. \A c \in Conn : link[c] => Down(c)' = Down(c)
  BY ReceiveDown
<1>2. UNCHANGED <<link, waiting, rkey>>
  BY DEF Receive, listVars, reqVars
<1> QED
  BY <1>1, <1>2, OrderFrame DEF Typed

(* _send_packet moves the packet it sends into the socket. *)
LEMMA SendDown ==
  ASSUME TypeOK, LinkSym', NEW x \in Conn, out[x] \in Packet, Send(x), UNCHANGED <<rbuf, link>>
  PROVE  \A c \in Conn : link[c] => Down(c)' = Down(c)
<1> USE ConstAssumption
<1>0. /\ rbuf \in [Conn -> Seq(Packet)] /\ net \in [Conn -> Seq(Packet)]
      /\ out \in [Conn -> Packet \cup {NoPacket}]
  BY DEF TypeOK
<1>1. ASSUME NEW c \in Conn, link[c]
      PROVE  Down(c)' = Down(c)
  <2>1. CASE Peer[c] # x
    <3>1. c # Peer[x]
      BY <2>1
    <3>2. rbuf'[c] = rbuf[c] /\ net'[c] = net[c] /\ out'[Peer[c]] = out[Peer[c]]
      BY <1>0, <2>1, <3>1 DEF Send
    <3> QED
      BY <3>2, DownKept
  <2>2. CASE Peer[c] = x
    <3>1. c = Peer[x] /\ link[x] = link'[x] /\ link[c] = link'[c]
      BY <2>2
    <3>2. link[x]
      BY <1>1, <3>1 DEF LinkSym
    <3>3. /\ rbuf'[c] = rbuf[c] /\ net'[c] = Append(net[c], out[x]) /\ out'[x] = NoPacket
          /\ out[x] # NoPacket
      <4>1. out[x] # NoPacket
        BY DEF Packet, NoPacket
      <4> QED
        BY <1>0, <3>1, <3>2, <4>1 DEF Send
    <3>4. rbuf[c] \in Seq(Packet) /\ net[c] \in Seq(Packet)
      BY <1>0
    <3>5. Row(rbuf[c], Append(net[c], out[x]), <<>>) = Row(rbuf[c], net[c], <<out[x]>>)
      BY <3>4, RowSend
    <3>6. Down(c) = Row(rbuf[c], net[c], <<out[x]>>)
      BY <2>2, <3>3 DEF Down, Sending
    <3>7. Down(c)' = Row(rbuf[c], Append(net[c], out[x]), <<>>)
      BY <2>2, <3>3 DEF Down, Sending
    <3> QED
      BY <3>5, <3>6, <3>7
  <2> QED
    BY <2>1, <2>2
<1> QED
  BY <1>1

(* So order is kept.                                                        *)
LEMMA SendOrdered ==
  ASSUME TypeOK, Ordered, LinkSym', NEW x \in Conn, out[x] \in Packet, Send(x),
         UNCHANGED <<rbuf, link, waiting, rkey>>
  PROVE  Ordered'
<1>1. \A c \in Conn : link[c] => Down(c)' = Down(c)
  BY SendDown
<1> QED
  BY <1>1, OrderFrame

(* The steps that end a process, a socket or an object. *)
LEMMA NodeDownOrdered ==
  ASSUME TypeOK, Ordered, LinkSym', NEW n \in Node, NEW how, NodeDown(n, how)
  PROVE  Ordered'
<1>1. ASSUME NEW c \in Conn, link'[c]
      PROVE  /\ link[c] /\ waiting'[c] = waiting[c] /\ rkey' = rkey /\ Down(c)' = Down(c)
  <2>1. link[c] /\ Owner[c] # n /\ Owner[Peer[c]] # n /\ Peer[c] \in Conn
    BY <1>1, ConstAssumption DEF NodeDown
  <2>2. /\ waiting'[c] = waiting[c] /\ rkey' = rkey
        /\ rbuf'[c] = rbuf[c] /\ net'[c] = net[c] /\ out'[Peer[c]] = out[Peer[c]]
    BY <2>1 DEF NodeDown, reqVars
  <2> QED
    BY <2>1, <2>2, DownKept
<1> QED
  BY <1>1, OrderFrame

(* A lost connection is nobody's order any more.                            *)
LEMMA LinkDownOrdered ==
  ASSUME TypeOK, Ordered, LinkSym', NEW x \in Conn,
         link' = [link EXCEPT ![x] = FALSE, ![Peer[x]] = FALSE],
         \A c \in Conn : c # x =>
           waiting'[c] = waiting[c] /\ rbuf'[c] = rbuf[c] /\ net'[c] = net[c],
         UNCHANGED <<rkey, out>>
  PROVE  Ordered'
<1>1. ASSUME NEW c \in Conn, link'[c]
      PROVE  /\ link[c] /\ waiting'[c] = waiting[c] /\ Down(c)' = Down(c)
  <2>1. c # x /\ c # Peer[x] /\ link[c]
    BY <1>1, ConstAssumption DEF TypeOK
  <2> QED
    BY <2>1, DownKept
<1> QED
  BY <1>1, OrderFrame

(* The answers and the requests among the packets on their way. *)
LEMMA TakeKinds ==
  ASSUME TypeOK, NEW x \in Conn, rbuf[x] # <<>>, rbuf' = [rbuf EXCEPT ![x] = Tail(@)],
         net' = net, out'[Peer[x]] = out[Peer[x]]
  PROVE  /\ Answers(x) = IF Head(rbuf[x]).type = "VALUE_RESPONSE"
                         THEN <<Head(rbuf[x])>> \o Answers(x)' ELSE Answers(x)'
         /\ Asked(Peer[x]) = IF Head(rbuf[x]).type = "VALUE_REQUEST"
                             THEN <<Head(rbuf[x])>> \o Asked(Peer[x])' ELSE Asked(Peer[x])'
         /\ Answers(x)' \in Seq(Packet) /\ Asked(Peer[x])' \in Seq(Packet)
<1>1. /\ Down(x) \in Seq(Packet) /\ Down(x) # <<>> /\ Head(Down(x)) = Head(rbuf[x])
      /\ Down(x)' = Tail(Down(x))
  BY TakeFirst
<1>2. Peer[Peer[x]] = x
  BY ConstAssumption
<1>3. OfType(Down(x), "VALUE_RESPONSE")
        = IF Head(Down(x)).type = "VALUE_RESPONSE"
          THEN <<Head(Down(x))>> \o OfType(Tail(Down(x)), "VALUE_RESPONSE")
          ELSE OfType(Tail(Down(x)), "VALUE_RESPONSE")
  BY <1>1, OfTypeTail
<1>4. OfType(Down(x), "VALUE_REQUEST")
        = IF Head(Down(x)).type = "VALUE_REQUEST"
          THEN <<Head(Down(x))>> \o OfType(Tail(Down(x)), "VALUE_REQUEST")
          ELSE OfType(Tail(Down(x)), "VALUE_REQUEST")
  BY <1>1, OfTypeTail
<1>5. /\ Answers(x) = OfType(Down(x), "VALUE_RESPONSE")
      /\ Answers(x)' = OfType(Tail(Down(x)), "VALUE_RESPONSE")
  BY <1>1 DEF Answers, ResponsesIn
<1>6. /\ Asked(Peer[x]) = OfType(Down(x), "VALUE_REQUEST")
      /\ Asked(Peer[x])' = OfType(Tail(Down(x)), "VALUE_REQUEST")
  BY <1>1, <1>2 DEF Asked, RequestsIn
<1>7. Head(Down(x)) = Head(rbuf[x])
  BY <1>1
<1>8. Tail(Down(x)) \in Seq(Packet)
  BY <1>1, HeadTailProperties
<1>9. /\ OfType(Tail(Down(x)), "VALUE_RESPONSE") \in Seq(Packet)
      /\ OfType(Tail(Down(x)), "VALUE_REQUEST") \in Seq(Packet)
  BY <1>8, OfTypeType
<1> QED
  BY <1>3, <1>4, <1>5, <1>6, <1>7, <1>9

(* It is the last one of its type.                                          *)
LEMMA SendKinds ==
  ASSUME TypeOK, NEW x \in Conn, out[x] = NoPacket, NEW p \in Packet,
         out' = [out EXCEPT ![x] = p], net' = net, rbuf'[Peer[x]] = rbuf[Peer[x]]
  PROVE  /\ Answers(Peer[x])' = IF p.type = "VALUE_RESPONSE" THEN Append(Answers(Peer[x]), p)
                                ELSE Answers(Peer[x])
         /\ Asked(x)' = IF p.type = "VALUE_REQUEST" THEN Append(Asked(x), p) ELSE Asked(x)
<1> DEFINE d == Peer[x]
<1>1. d \in Conn /\ Down(d) \in Seq(Packet)
  BY DownType, ConstAssumption
<1>2. Down(d)' = Append(Down(d), p)
  BY StartSending
<1>3. OfType(Append(Down(d), p), "VALUE_RESPONSE")
        = IF p.type = "VALUE_RESPONSE" THEN Append(OfType(Down(d), "VALUE_RESPONSE"), p)
          ELSE OfType(Down(d), "VALUE_RESPONSE")
  BY <1>1, OfTypeAppend
<1>4. OfType(Append(Down(d), p), "VALUE_REQUEST")
        = IF p.type = "VALUE_REQUEST" THEN Append(OfType(Down(d), "VALUE_REQUEST"), p)
          ELSE OfType(Down(d), "VALUE_REQUEST")
  BY <1>1, OfTypeAppend
<1>5. /\ Answers(d) = OfType(Down(d), "VALUE_RESPONSE")
      /\ Answers(d)' = OfType(Append(Down(d), p), "VALUE_RESPONSE")
  BY <1>2 DEF Answers, ResponsesIn
<1>6. /\ Asked(x) = OfType(Down(d), "VALUE_REQUEST")
      /\ Asked(x)' = OfType(Append(Down(d), p), "VALUE_REQUEST")
  BY <1>2 DEF Asked, RequestsIn
<1> QED
  BY <1>3, <1>4, <1>5, <1>6

(* What the connections an action does not touch keep. *)
LEMMA DownFrame ==
  ASSUME NEW y \in Conn, \A c \in Conn : c # y => Down(c)' = Down(c)
  PROVE  \A c \in Conn : /\ c # y => Answers(c)' = Answers(c)
                         /\ Peer[c] # y => Asked(c)' = Asked(c)
<1>1. \A c \in Conn : Peer[c] \in Conn
  BY ConstAssumption
<1> QED
  BY <1>1 DEF Answers, Asked

(* Only one line of packets changes, and not in answers or requests.        *)
LEMMA KindsKept ==
  ASSUME NEW y \in Conn, \A c \in Conn : c # y => Down(c)' = Down(c),
         Answers(y)' = Answers(y), Asked(Peer[y])' = Asked(Peer[y])
  PROVE  \A c \in Conn : Answers(c)' = Answers(c) /\ Asked(c)' = Asked(c)
<1> SUFFICES ASSUME NEW c \in Conn
             PROVE  Answers(c)' = Answers(c) /\ Asked(c)' = Asked(c)
  OBVIOUS
<1>1. Answers(c)' = Answers(c)
  <2>1. CASE c = y
    BY <2>1
  <2>2. CASE c # y
    BY <2>2, DownFrame
  <2> QED
    BY <2>1, <2>2
<1>2. Asked(c)' = Asked(c)
  <2>1. CASE Peer[c] = y
    <3>1. c = Peer[y]
      BY <2>1, ConstAssumption
    <3> QED
      BY <3>1
  <2>2. CASE Peer[c] # y
    BY <2>2, DownFrame
  <2> QED
    BY <2>1, <2>2
<1> QED
  BY <1>1, <1>2

(* _update_keys takes a key list, which is no answer and no request. *)
LEMMA UpdateKeysOrdered ==
  ASSUME TypeOK, Ordered, NEW x \in Conn, UpdateKeys(x)
  PROVE  Ordered'
<1> USE ConstAssumption
<1>1. /\ rbuf[x] # <<>> /\ rbuf' = [rbuf EXCEPT ![x] = Tail(@)] /\ net' = net /\ out' = out
      /\ Head(rbuf[x]).type = "KEY_LIST" /\ link' = link /\ waiting' = waiting /\ rkey' = rkey
  BY DEF UpdateKeys, reqVars, listVars
<1>2. \A c \in Conn : c # x => Down(c)' = Down(c)
  BY <1>1, DownKept DEF TypeOK
<1>3. Answers(x)' = Answers(x) /\ Asked(Peer[x])' = Asked(Peer[x])
  BY <1>1, TakeKinds
<1> QED
  BY <1>1, <1>2, <1>3, KindsKept, InOrderKept DEF Ordered

(* _send_keys starts to send one. *)
LEMMA SnapshotKeysOrdered ==
  ASSUME TypeOK, OutIdle, Ordered, NEW x \in Conn, SnapshotKeys(x)
  PROVE  Ordered'
<1> USE ConstAssumption
<1> DEFINE p == KeyList(store[Owner[x]])
<1>1. /\ rbuf' = rbuf /\ net' = net /\ out' = [out EXCEPT ![x] = p] /\ out[x] = NoPacket
      /\ link' = link /\ waiting' = waiting /\ rkey' = rkey
  BY DEF SnapshotKeys, reqVars, listVars, netVars, OutIdle, Sends
<1>2. p \in Packet /\ p.type = "KEY_LIST"
  BY DEF TypeOK, KeyList, Packet
<1> HIDE DEF p
<1>3. Answers(Peer[x])' = Answers(Peer[x]) /\ Asked(x)' = Asked(x)
  BY <1>1, <1>2, SendKinds
<1>4. \A c \in Conn : c # Peer[x] => Down(c)' = Down(c)
  <2>1. ASSUME NEW c \in Conn, c # Peer[x]
        PROVE  out'[Peer[c]] = out[Peer[c]]
    <3>1. Peer[c] \in Conn /\ Peer[c] # x
      BY <2>1
    <3> QED
      BY <1>1, <3>1 DEF TypeOK
  <2> QED
    BY <1>1, <2>1, DownKept
<1>5. Peer[x] \in Conn /\ Asked(Peer[Peer[x]])' = Asked(Peer[Peer[x]])
  <2>1. Peer[Peer[x]] = x /\ Peer[x] \in Conn
    OBVIOUS
  <2> QED
    BY <1>3, <2>1
<1> QED
  BY <1>1, <1>3, <1>4, <1>5, KindsKept, InOrderKept DEF Ordered

(* _respond answers a request: it leaves the row towards x and its answer   *)
(* joins the row towards the peer.                                         *)
LEMMA ParseRequestOrdered ==
  ASSUME TypeOK, OutIdle, Ordered, NEW x \in Conn, ParseRequest(x)
  PROVE  Ordered'
<1> USE ConstAssumption
<1> DEFINE d == Peer[x]
           p == Head(rbuf[x])
<1>1. /\ rbuf[x] # <<>> /\ rbuf' = [rbuf EXCEPT ![x] = Tail(@)] /\ net' = net
      /\ p.type = "VALUE_REQUEST" /\ out[x] = NoPacket
      /\ link' = link /\ waiting' = waiting /\ rkey' = rkey
      /\ d \in Conn /\ Peer[d] = x /\ d # x
  BY DEF ParseRequest, reqVars, listVars, OutIdle, Sends
<1>2. p \in Packet
  <2>1. rbuf[x] \in Seq(Packet)
    BY DEF TypeOK
  <2> QED
    BY <1>1, <2>1, HeadTailProperties
<1>3. PICK q \in Packet : /\ out' = [out EXCEPT ![x] = q]
                          /\ q.type = "VALUE_RESPONSE" /\ q.key = p.key
  <2> DEFINE v == IF p.key \in store[Owner[x]] THEN DataFrame(Owner[x], p.key) ELSE Null
             a == ValueResponse(p.key, v)
  <2>1. out' = [out EXCEPT ![x] = a]
    BY DEF ParseRequest
  <2>2. p.key \in Key
    BY <1>1, <1>2 DEF Packet
  <2>3. v \in Value
    BY <2>2 DEF Value, DataFrame
  <2> HIDE DEF p, v
  <2>4. a \in Packet /\ a.type = "VALUE_RESPONSE" /\ a.key = p.key
    BY <2>2, <2>3 DEF ValueResponse, Packet
  <2> QED
    BY <2>1, <2>4
<1>4. out'[d] = out[d] /\ rbuf'[d] = rbuf[d]
  BY <1>1, <1>3 DEF TypeOK
<1>5. /\ Answers(x)' = Answers(x) /\ Asked(d) = <<p>> \o Asked(d)'
      /\ Asked(d)' \in Seq(Packet)
  <2>1. Head(rbuf[x]).type # "VALUE_RESPONSE" /\ Head(rbuf[x]).type = "VALUE_REQUEST"
    BY <1>1
  <2> QED
    BY <1>1, <1>4, <2>1, TakeKinds
<1>6. Asked(x)' = Asked(x) /\ Answers(d)' = Append(Answers(d), q)
  <2>1. q.type # "VALUE_REQUEST"
    BY <1>3
  <2>2. out[x] = NoPacket /\ net' = net
    BY <1>1
  <2>3. out' = [out EXCEPT ![x] = q]
    BY <1>3
  <2>4. rbuf'[Peer[x]] = rbuf[Peer[x]]
    BY <1>4
  <2>5. Answers(Peer[x])' = IF q.type = "VALUE_RESPONSE" THEN Append(Answers(Peer[x]), q)
                            ELSE Answers(Peer[x])
    BY <2>2, <2>3, <2>4, SendKinds
  <2>6. Asked(x)' = IF q.type = "VALUE_REQUEST" THEN Append(Asked(x), q) ELSE Asked(x)
    BY <2>2, <2>3, <2>4, SendKinds
  <2> QED
    BY <1>3, <2>1, <2>5, <2>6
<1>7. ASSUME NEW c \in Conn, c # x, c # d
      PROVE  Answers(c)' = Answers(c) /\ Asked(c)' = Asked(c)
  <2>1. \A e \in Conn : e # x /\ e # d => Down(e)' = Down(e)
    <3> SUFFICES ASSUME NEW e \in Conn, e # x, e # d
                 PROVE  Down(e)' = Down(e)
      OBVIOUS
    <3>1. Peer[e] \in Conn /\ Peer[e] # x
      BY <1>1
    <3> QED
      BY <1>1, <1>3, <3>1, DownKept DEF TypeOK
  <2>2. Peer[c] \in Conn /\ Peer[c] # x /\ Peer[c] # d
    BY <1>1, <1>7
  <2> QED
    BY <1>7, <2>1, <2>2 DEF Answers, Asked
<1>8. ASSUME link[d]
      PROVE  InOrder(d)'
  <2>1. PICK y : y = Asked(d)'
    OBVIOUS
  <2>2. PICK w : w = waiting[d]
    OBVIOUS
  <2>3. PICK rk : rk = rkey
    OBVIOUS
  <2>4. Answers(d) \in Seq(Packet) /\ y \in Seq(Packet)
    BY <1>1, <1>5, <2>1, DownType
  <2>5. Agree(rk, w, Answers(d) \o (<<p>> \o y))
    BY <1>1, <1>5, <1>8, <2>1, <2>2, <2>3 DEF Ordered, InOrder
  <2>6. Agree(rk, w, Append(Answers(d), q) \o y)
    BY <1>2, <1>3, <2>4, <2>5, AgreeSwap
  <2> QED
    BY <1>1, <1>6, <2>1, <2>2, <2>3, <2>6 DEF InOrder
<1>9. ASSUME NEW c \in Conn, c # d, link[c]
      PROVE  InOrder(c)'
  <2>1. Answers(c)' = Answers(c) /\ Asked(c)' = Asked(c)
    BY <1>5, <1>6, <1>7, <1>9
  <2> QED
    BY <1>1, <1>9, <2>1, InOrderKept DEF Ordered
<1> QED
  BY <1>1, <1>8, <1>9 DEF Ordered

(* The worker files a request and starts to send it. *)
LEMMA MoveRequestOrdered ==
  ASSUME Typed, OutIdle, Ordered, NEW x \in Conn, MoveRequest(x)
  PROVE  Ordered'
<1> USE ConstAssumption DEF Typed
<1> DEFINE d == Peer[x]
           r == hand[x]
           p == ValueRequest(rkey[r])
<1>1. /\ rbuf' = rbuf /\ net' = net /\ out' = [out EXCEPT ![x] = p] /\ out[x] = NoPacket
      /\ link' = link /\ waiting' = [waiting EXCEPT ![x] = Append(@, r)] /\ rkey' = rkey
      /\ d \in Conn /\ Peer[d] = x /\ d # x
  BY DEF MoveRequest, reqVars, netVars, OutIdle, Sends
<1>2. r \in Request /\ rkey[r] \in Key
  BY DEF MoveRequest, WorkersWired, TypeOK
<1>3. p \in Packet /\ p.type = "VALUE_REQUEST" /\ p.key = rkey[r]
  BY <1>2 DEF ValueRequest, Packet
<1>4. waiting[x] \in Seq(Request) /\ \A c \in Conn : c # x => waiting'[c] = waiting[c]
  BY <1>1 DEF TypeOK
<1>5. waiting'[x] = Append(waiting[x], r)
  BY <1>1 DEF TypeOK
<1> HIDE DEF p, r
<1>6. Asked(x)' = Append(Asked(x), p) /\ Answers(d)' = Answers(d)
  <2>1. p.type # "VALUE_RESPONSE"
    BY <1>3
  <2> QED
    BY <1>1, <1>3, <2>1, SendKinds
<1>7. \A c \in Conn : c # d => Down(c)' = Down(c)
  <2> SUFFICES ASSUME NEW c \in Conn, c # d
               PROVE  Down(c)' = Down(c)
    OBVIOUS
  <2>1. Peer[c] \in Conn /\ Peer[c] # x
    BY <1>1
  <2> QED
    BY <1>1, <2>1, DownKept DEF TypeOK
<1>8. ASSUME NEW c \in Conn, c # x
      PROVE  Answers(c)' = Answers(c) /\ Asked(c)' = Asked(c)
  <2>1. Peer[c] # d
    BY <1>1, <1>8
  <2>2. Asked(c)' = Asked(c)
    BY <1>1, <1>7, <2>1, DownFrame
  <2>3. Answers(c)' = Answers(c)
    <3>1. CASE c = d
      BY <1>6, <3>1
    <3>2. CASE c # d
      BY <1>1, <1>7, <3>2, DownFrame
    <3> QED
      BY <3>1, <3>2
  <2> QED
    BY <2>2, <2>3
<1>9. ASSUME link[x]
      PROVE  InOrder(x)'
  <2>1. Answers(x) \in Seq(Packet) /\ Asked(x) \in Seq(Packet)
    BY DownType
  <2>2. Answers(x)' = Answers(x)
    BY <1>1, <1>7, DownFrame
  <2>3. PICK a : a = Answers(x)
    OBVIOUS
  <2>4. PICK b : b = Asked(x)
    OBVIOUS
  <2>5. a \in Seq(Packet) /\ b \in Seq(Packet)
    BY <2>1, <2>3, <2>4
  <2>6. a \o b \in Seq(Packet) /\ a \o Append(b, p) = Append(a \o b, p)
    <3> DEFINE e == <<p>>
    <3>1. e \in Seq(Packet)
      BY <1>3
    <3>2. Append(b, p) = b \o e
      BY <1>3, <2>5, AppendIsConcat
    <3> HIDE DEF e
    <3>3. a \o b \in Seq(Packet)
      BY <2>5, ConcatProperties
    <3>4. Append(a \o b, p) = (a \o b) \o e
      BY <1>3, <3>3, AppendIsConcat DEF e
    <3>5. (a \o b) \o e = a \o (b \o e)
      BY <2>5, <3>1, ConcatAssociative
    <3> QED
      BY <3>2, <3>3, <3>4, <3>5
  <2>7. Agree(rkey, waiting[x], a \o b)
    BY <1>9, <2>3, <2>4 DEF Ordered, InOrder
  <2>8. Agree(rkey, Append(waiting[x], r), Append(a \o b, p))
    BY <1>2, <1>3, <1>4, <2>6, <2>7, AgreeAppend
  <2> QED
    BY <1>1, <1>5, <1>6, <2>2, <2>3, <2>4, <2>6, <2>8 DEF InOrder
<1>10. ASSUME NEW c \in Conn, c # x, link[c]
       PROVE  InOrder(c)'
  BY <1>1, <1>4, <1>8, <1>10, InOrderKept DEF Ordered
<1> QED
  BY <1>1, <1>9, <1>10 DEF Ordered

(* _parse_request_response completes the first waiting request: the answer  *)
(* at the head of the row is for it.                                       *)
LEMMA DeliverOrdered ==
  ASSUME TypeOK, Ordered, NEW x \in Conn, Deliver(x)
  PROVE  Ordered'
<1> USE ConstAssumption
<1> DEFINE d == Peer[x]
           p == Head(rbuf[x])
           i == Match(x, p.key)
<1>1. /\ rbuf[x] # <<>> /\ rbuf' = [rbuf EXCEPT ![x] = Tail(@)] /\ net' = net /\ out' = out
      /\ p.type = "VALUE_RESPONSE" /\ link' = link /\ rkey' = rkey
      /\ waiting' = IF i = 0 THEN waiting ELSE [waiting EXCEPT ![x] = Without(@, i)]
      /\ d \in Conn /\ Peer[d] = x /\ d # x
  BY DEF Deliver
<1>2. p \in Packet /\ waiting[x] \in Seq(Request)
  <2>1. rbuf[x] \in Seq(Packet) /\ waiting[x] \in Seq(Request)
    BY DEF TypeOK
  <2> QED
    BY <1>1, <2>1, HeadTailProperties
<1>3. /\ Answers(x) = <<p>> \o Answers(x)' /\ Asked(d)' = Asked(d)
      /\ Answers(x)' \in Seq(Packet)
  <2>1. Head(rbuf[x]).type = "VALUE_RESPONSE" /\ Head(rbuf[x]).type # "VALUE_REQUEST"
    BY <1>1
  <2> QED
    BY <1>1, <2>1, TakeKinds
<1>4. \A c \in Conn : c # x => Down(c)' = Down(c)
  BY <1>1, DownKept DEF TypeOK
<1>5. Asked(x)' = Asked(x)
  BY <1>1, <1>4, DownFrame
<1>6. ASSUME link[x]
      PROVE  InOrder(x)'
  <2>1. PICK a : a = Answers(x)'
    OBVIOUS
  <2>2. PICK b : b = Asked(x)
    OBVIOUS
  <2>3. a \in Seq(Packet) /\ b \in Seq(Packet)
    BY <1>3, <2>1, <2>2, DownType
  <2>4. a \o b \in Seq(Packet) /\ (<<p>> \o a) \o b = <<p>> \o (a \o b)
    <3> DEFINE e == <<p>>
    <3>1. e \in Seq(Packet)
      BY <1>2
    <3> HIDE DEF e, p
    <3>2. a \o b \in Seq(Packet)
      BY <2>3, ConcatProperties
    <3>3. (e \o a) \o b = e \o (a \o b)
      BY <2>3, <3>1, ConcatAssociative
    <3> QED
      BY <3>2, <3>3 DEF e
  <2>5. Agree(rkey, waiting[x], <<p>> \o (a \o b))
    BY <1>3, <1>6, <2>1, <2>2, <2>4 DEF Ordered, InOrder
  <2>6. /\ 1 \in 1..Len(waiting[x]) /\ rkey[waiting[x][1]] = p.key
        /\ Agree(rkey, Without(waiting[x], 1), a \o b)
    BY <1>2, <2>4, <2>5, AgreeFirst
  <2>7. i = 1
    <3>1. i \in 0..Len(waiting[x]) /\ i # 0 /\ i <= 1
      BY <2>6, MatchProperties
    <3>2. Len(waiting[x]) \in Nat
      BY <1>2, LenProperties
    <3> HIDE DEF i
    <3> QED
      BY <3>1, <3>2
  <2> HIDE DEF i
  <2>8. waiting'[x] = Without(waiting[x], 1)
    BY <1>1, <2>7 DEF TypeOK
  <2> QED
    BY <1>1, <1>5, <2>1, <2>2, <2>6, <2>8 DEF InOrder
<1>7. ASSUME NEW c \in Conn, c # x, link[c]
      PROVE  InOrder(c)'
  <2>1. Answers(c)' = Answers(c)
    BY <1>4, <1>7, DownFrame
  <2>2. Asked(c)' = Asked(c)
    <3>1. CASE Peer[c] = x
      <4>1. c = d
        BY <3>1
      <4> QED
        BY <1>3, <4>1
    <3>2. CASE Peer[c] # x
      BY <1>4, <3>2, DownFrame
    <3> QED
      BY <3>1, <3>2
  <2> HIDE DEF i
  <2>3. waiting'[c] = waiting[c]
    BY <1>1, <1>7 DEF TypeOK
  <2> QED
    BY <1>1, <1>7, <2>1, <2>2, <2>3, InOrderKept DEF Ordered
<1> QED
  BY <1>1, <1>6, <1>7 DEF Ordered

(* Every action keeps the order. *)
LEMMA StepOrdered ==
  ASSUME Typed, OutIdle, LinkSym, Ordered, [Next]_vars
  PROVE  OutIdle' /\ LinkSym' /\ Ordered'
<1> USE DEF nodeVars, threadVars, reqVars, workVars, listVars, netVars
<1>0. TypeOK /\ OutIdle' /\ LinkSym'
  BY StepIdle, StepLink DEF Typed
<1>1. ASSUME UNCHANGED <<rbuf, net, out, waiting, rkey, link>>
      PROVE  Ordered'
  BY <1>0, <1>1, OrderFrame, DownKept
<1>2. ASSUME NEW n \in Node, NEW how, NodeDown(n, how)
      PROVE  Ordered'
  BY <1>0, <1>2, NodeDownOrdered
<1>3. ASSUME NEW x \in Conn, Destroy(x), UNCHANGED <<rkey, out>>
      PROVE  Ordered'
  <2>1. \A c \in Conn : c # x =>
          waiting'[c] = waiting[c] /\ rbuf'[c] = rbuf[c] /\ net'[c] = net[c]
    BY <1>0, <1>3 DEF Destroy, TypeOK
  <2> QED
    BY <1>0, <1>3, <2>1, LinkDownOrdered DEF Destroy
<1>4. ASSUME NEW t \in Thread, NEW k \in Key, Get(t, k) \/ SetCheck(t, k)
      PROVE  Ordered'
  BY <1>1, <1>2, <1>4, ConstAssumption DEF Get, SetCheck
<1>5. ASSUME NEW p \in Proc,
             \/ CleanLock(p) \/ CleanUnlock(p)
             \/ /\ p \in Thread
                /\ \/ SetInsert(p) \/ FindConn(p) \/ AddRequest(p) \/ Wait(p)
                   \/ SpuriousWakeup(p)
      PROVE  Ordered'
  BY <1>1, <1>5 DEF CleanLock, CleanUnlock, SetInsert, FindConn, AddRequest, Wait,
     SpuriousWakeup
<1>6. ASSUME NEW t \in Thread, NEW r \in Request, CreateRequest(t, r)
      PROVE  Ordered'
  <2>1. CASE NodeDown(Home[t], "aborted")
    BY <1>2, <2>1, ConstAssumption
  <2>2. CASE /\ rkey' = [rkey EXCEPT ![r] = tkey[t]] /\ ~InUse(r)
             /\ UNCHANGED <<rbuf, net, out, waiting, link>>
    <3>1. \A c \in Conn : \A q \in SeqRange(waiting[c]) : rkey'[q] = rkey[q]
      BY <1>0, <2>2, RangeType DEF InUse, TypeOK
    <3>2. \A c \in Conn : Down(c)' = Down(c)
      BY <2>2, DownKept
    <3> QED
      BY <1>0, <2>2, <3>1, <3>2, OrderFrame
  <2> QED
    BY <1>6, <2>1, <2>2 DEF CreateRequest
<1>7. ASSUME NEW p \in Proc, NEW c \in Conn, CleanErase(p, c)
      PROVE  Ordered'
  BY <1>1, <1>3, <1>7 DEF CleanErase, Keep
<1>8. ASSUME NEW t \in Thread, Return(t)
      PROVE  Ordered'
  <2>1. tconn[t] \in Conn /\ out' = out /\ rkey' = rkey
    BY <1>8 DEF Return, Typed, ThreadsWired, Calling
  <2>2. Destroy(tconn[t]) \/ UNCHANGED <<waiting, rbuf, net, link>>
    BY <1>8 DEF Return, Keep
  <2> QED
    BY <1>1, <1>3, <2>1, <2>2
<1>9. ASSUME NEW c \in Conn, ParseNothing(c) \/ CheckRequests(c)
      PROVE  Ordered'
  BY <1>1, <1>9 DEF ParseNothing, CheckRequests
<1>10. ASSUME NEW c \in Conn, Receive(c)
       PROVE  Ordered'
  BY <1>0, <1>10, ReceiveOrdered
<1>11. ASSUME NEW c \in Conn, SendResponse(c) \/ SendKeys(c) \/ SendRequest(c)
       PROVE  Ordered'
  <2>1. /\ Send(c) /\ UNCHANGED <<rbuf, link, waiting, rkey>> /\ wpc[c] \in Sends
    BY <1>11 DEF SendResponse, SendKeys, SendRequest, Sends
  <2>2. out[c] \in Packet
    BY <2>1 DEF Typed, WorkersWired
  <2> QED
    BY <1>0, <2>1, <2>2, SendOrdered
<1>12. ASSUME NEW c \in Conn,
              UpdateKeys(c) \/ ParseRequest(c) \/ Deliver(c) \/ SnapshotKeys(c) \/ MoveRequest(c)
       PROVE  Ordered'
  BY <1>0, <1>12, UpdateKeysOrdered, ParseRequestOrdered, DeliverOrdered,
     SnapshotKeysOrdered, MoveRequestOrdered
<1>13. ASSUME NEW c \in Conn, Reset(c)
       PROVE  Ordered'
  <2>1. /\ link' = [link EXCEPT ![c] = FALSE, ![Peer[c]] = FALSE]
        /\ UNCHANGED <<rkey, out, waiting, rbuf, net>>
    BY <1>13 DEF Reset
  <2> QED
    BY <1>0, <2>1, LinkDownOrdered
<1>14. ASSUME NEW n \in Node, Exit(n)
       PROVE  Ordered'
  BY <1>2, <1>14 DEF Exit
<1>15. CASE UNCHANGED vars
  BY <1>0, <1>1, <1>15 DEF vars
<1>16. CASE Next
  BY <1>0, <1>4, <1>5, <1>6, <1>7, <1>8, <1>9, <1>10, <1>11, <1>12, <1>13, <1>14, <1>16
  DEF Next, Clean, Worker, Proceed, Call, Proc
<1> QED
  BY <1>15, <1>16

(* As long as a TCP connection lives, the waiting list of each end is, in   *)
(* order and key by key, what is under way for it (_check_requests files a *)
(* request before it sends it, _parse_request_response takes the first for *)
(* the key): every answer finds its request and no request is skipped.     *)
THEOREM AnswersOrdered == Spec => []AnswersInOrder
<1>1. Init => OutIdle /\ LinkSym /\ Ordered
  <2> SUFFICES ASSUME Init
               PROVE  OutIdle /\ LinkSym /\ Ordered
    OBVIOUS
  <2>1. OutIdle /\ LinkSym
    BY ConstAssumption DEF Init, OutIdle, LinkSym
  <2>2. ASSUME NEW c \in Conn
        PROVE  Down(c) = <<>>
    <3>1. rbuf[c] = <<>> /\ net[c] = <<>> /\ Sending(Peer[c]) = <<>>
      BY ConstAssumption DEF Init, Sending
    <3> QED
      BY <3>1, EmptySeq, ConcatEmptySeq DEF Down, Row
  <2>3. ASSUME NEW c \in Conn
        PROVE  InOrder(c)
    <3>1. Answers(c) = <<>> /\ Asked(c) = <<>>
      BY <2>2, OfTypeEmpty, ConstAssumption DEF Answers, Asked, ResponsesIn, RequestsIn
    <3>2. Answers(c) \o Asked(c) = <<>>
      BY <3>1, EmptySeq, ConcatEmptySeq
    <3>3. waiting[c] = <<>>
      BY DEF Init
    <3> QED
      BY <3>2, <3>3 DEF InOrder, Agree
  <2> QED
    BY <2>1, <2>3 DEF Ordered
<1>2. Typed /\ OutIdle /\ LinkSym /\ Ordered /\ [Next]_vars => OutIdle' /\ LinkSym' /\ Ordered'
  BY StepOrdered
<1>3. Typed /\ Ordered => AnswersInOrder
  BY OrderedAnswersInOrder DEF Typed
<1> QED
  BY <1>1, <1>2, <1>3, TypedInvariant, PTL DEF Spec

----------------------------------------------------------------------------
(* The request machinery implements RemoteRead: it does nothing to a call of*)
(* KVStore::get but ask, answer and return.                                 *)

(* What RemoteRead sees of a thread. *)
CallOf(t) == IF InCall(t) THEN <<Owner[Peer[tconn[t]]], tkey[t]>> ELSE <<>>
AnswerOf(t) == IF pc[t] = "woken" THEN {rval[treq[t]]} ELSE {}

SameCall(t) == CallOf(t)' = CallOf(t) /\ AnswerOf(t)' = AnswerOf(t)

(* A call is not the absence of one.                                        *)
LEMMA PairNotEmpty == \A x, y : <<x, y>> # <<>>
  OBVIOUS

----------------------------------------------------------------------------
(* The steps of RemoteRead, thread by thread. *)

(* A step that changes no call and no store.                                *)
LEMMA ReadStutters ==
  ASSUME store' = store, \A t \in Thread : SameCall(t)
  PROVE  UNCHANGED Read!vars
<1>1. [t \in Thread |-> CallOf(t)]' = [t \in Thread |-> CallOf(t)]
  BY DEF SameCall
<1>2. [t \in Thread |-> AnswerOf(t)]' = [t \in Thread |-> AnswerOf(t)]
  BY DEF SameCall
<1> QED
  BY <1>1, <1>2 DEF Read!vars, CallOf, AnswerOf

(* A step that adds a key to a store is Store.                              *)
LEMMA ReadStores ==
  ASSUME NEW n \in Node, NEW k \in Key, store' = [store EXCEPT ![n] = @ \cup {k}],
         \A t \in Thread : SameCall(t)
  PROVE  Read!Next
<1>1. [t \in Thread |-> CallOf(t)]' = [t \in Thread |-> CallOf(t)]
  BY DEF SameCall
<1>2. [t \in Thread |-> AnswerOf(t)]' = [t \in Thread |-> AnswerOf(t)]
  BY DEF SameCall
<1>3. Read!Store(n, k)
  BY <1>1, <1>2 DEF Read!Store, CallOf, AnswerOf
<1> QED
  BY <1>3 DEF Read!Next

(* The lookup is Ask.                                                       *)
LEMMA ReadAsks ==
  ASSUME NEW t \in Thread, NEW n \in Node, NEW k \in Key, store' = store,
         ~InCall(t), n # Home[t], k \in store[n],
         CallOf(t)' = <<n, k>>, AnswerOf(t)' = AnswerOf(t),
         \A u \in Thread : u # t => SameCall(u)
  PROVE  Read!Next
<1>1. [u \in Thread |-> CallOf(u)]' = [[u \in Thread |-> CallOf(u)] EXCEPT ![t] = <<n, k>>]
  BY DEF SameCall
<1>2. [u \in Thread |-> AnswerOf(u)]' = [u \in Thread |-> AnswerOf(u)]
  BY DEF SameCall
<1>3. CallOf(t) = <<>>
  BY DEF CallOf
<1>4. Read!Ask(t, n, k)
  BY <1>1, <1>2, <1>3 DEF Read!Ask, Read!NoCall, CallOf, AnswerOf
<1> QED
  BY <1>4 DEF Read!Next

(* The wake-up is Answer.                                                   *)
LEMMA ReadAnswers ==
  ASSUME NEW t \in Thread, store' = store, InCall(t), pc[t] # "woken",
         tkey[t] \in store[Owner[Peer[tconn[t]]]],
         CallOf(t)' = CallOf(t), AnswerOf(t)' = {CallOf(t)},
         \A u \in Thread : u # t => SameCall(u)
  PROVE  Read!Next
<1>1. [u \in Thread |-> CallOf(u)]' = [u \in Thread |-> CallOf(u)]
  BY DEF SameCall
<1>2. [u \in Thread |-> AnswerOf(u)]'
        = [[u \in Thread |-> AnswerOf(u)] EXCEPT ![t] = {CallOf(t)}]
  BY DEF SameCall
<1>3. /\ CallOf(t) = <<Owner[Peer[tconn[t]]], tkey[t]>> /\ CallOf(t) # <<>>
      /\ AnswerOf(t) = {}
  BY PairNotEmpty DEF CallOf, AnswerOf
<1>4. CallOf(t)[1] = Owner[Peer[tconn[t]]] /\ CallOf(t)[2] = tkey[t]
  BY <1>3
<1>5. Read!Answer(t)
  BY <1>1, <1>2, <1>3, <1>4 DEF Read!Answer, Read!NoCall, CallOf, AnswerOf
<1> QED
  BY <1>5 DEF Read!Next

(* The end of get_value is Return.                                          *)
LEMMA ReadReturns ==
  ASSUME NEW t \in Thread, store' = store, InCall(t), ~InCall(t)', pc'[t] # "woken",
         \A u \in Thread : u # t => SameCall(u)
  PROVE  Read!Next
<1>1. CallOf(t)' = <<>> /\ AnswerOf(t)' = {} /\ CallOf(t) # <<>>
  BY PairNotEmpty DEF CallOf, AnswerOf
<1>2. [u \in Thread |-> CallOf(u)]' = [[u \in Thread |-> CallOf(u)] EXCEPT ![t] = <<>>]
  BY <1>1 DEF SameCall
<1>3. [u \in Thread |-> AnswerOf(u)]' = [[u \in Thread |-> AnswerOf(u)] EXCEPT ![t] = {}]
  BY <1>1 DEF SameCall
<1>4. Read!Return(t)
  BY <1>1, <1>2, <1>3 DEF Read!Return, Read!NoCall, CallOf, AnswerOf
<1> QED
  BY <1>4 DEF Read!Next

(* The end of a process is Crash. *)
LEMMA ReadCrashes ==
  ASSUME NEW n \in Node, NEW how, NodeDown(n, how)
  PROVE  Read!Next
<1>1. ASSUME NEW t \in Thread
      PROVE  /\ CallOf(t)' = IF Home[t] = n THEN <<>> ELSE CallOf(t)
             /\ AnswerOf(t)' = IF Home[t] = n THEN {} ELSE AnswerOf(t)
  <2>1. CASE Home[t] = n
    <3>1. pc'[t] = "idle"
      BY <2>1, ConstAssumption DEF NodeDown, Proc, HomeOf
    <3> QED
      BY <2>1, <3>1 DEF CallOf, AnswerOf, InCall
  <2>2. CASE Home[t] # n
    <3>1. /\ pc'[t] = pc[t] /\ tconn'[t] = tconn[t] /\ treq'[t] = treq[t]
          /\ tkey' = tkey /\ rval' = rval
      BY <2>2, ConstAssumption DEF NodeDown, Proc, HomeOf, reqVars
    <3> QED
      BY <2>2, <3>1 DEF CallOf, AnswerOf, InCall
  <2> QED
    BY <2>1, <2>2
<1>2. [t \in Thread |-> CallOf(t)]'
        = [t \in Thread |-> IF Home[t] = n THEN <<>> ELSE [u \in Thread |-> CallOf(u)][t]]
  BY <1>1
<1>3. [t \in Thread |-> AnswerOf(t)]'
        = [t \in Thread |-> IF Home[t] = n THEN {} ELSE [u \in Thread |-> AnswerOf(u)][t]]
  BY <1>1
<1>4. Read!Crash(n)
  BY <1>2, <1>3 DEF Read!Crash, Read!NoCall, CallOf, AnswerOf, NodeDown
<1> QED
  BY <1>4 DEF Read!Next

(* A thread whose place in the call is the same. *)
LEMMA SameCallIf ==
  ASSUME NEW t \in Thread,
         \/ /\ pc'[t] = pc[t]
            /\ InCall(t) => tconn'[t] = tconn[t] /\ tkey'[t] = tkey[t]
            /\ pc[t] = "woken" => treq'[t] = treq[t] /\ rval'[treq[t]] = rval[treq[t]]
         \/ /\ InCall(t) /\ InCall(t)' /\ pc[t] # "woken" /\ pc'[t] # "woken"
            /\ tconn'[t] = tconn[t] /\ tkey'[t] = tkey[t]
         \/ ~InCall(t) /\ ~InCall(t)'
  PROVE  SameCall(t)
  BY DEF SameCall, CallOf, AnswerOf, InCall

----------------------------------------------------------------------------
(* The steps of CtCRequests. *)

(* An answer completes at most the one call whose request it takes off the  *)
(* waiting list.                                                           *)
LEMMA DeliverImplements ==
  ASSUME Honest, Honest', WokenHasValue, WokenHasValue', NEW c \in Conn, Deliver(c)
  PROVE  Read!Next \/ UNCHANGED Read!vars
<1> USE ConstAssumption DEF nodeVars, threadVars, reqVars, workVars, listVars, netVars
<1> DEFINE p == Head(rbuf[c])
           i == Match(c, p.key)
           r == waiting[c][i]
<1>0. TypeOK /\ Typed /\ Typed' /\ pc \in [Proc -> ThreadPc] /\ rval \in [Request -> Value]
  BY DEF Honest, Filing, Typed, TypeOK
<1>1. UNCHANGED <<store, tkey, tconn, treq>>
  BY DEF Deliver
<1>2. CASE i = 0
  <2>1. UNCHANGED <<pc, rval>>
    BY <1>2 DEF Deliver
  <2> QED
    BY <1>1, <2>1, SameCallIf, ReadStutters
<1>3. CASE i # 0
  <2>1. rval' = [rval EXCEPT ![r] = p.value] /\ pc' = Notify(pc, {r})
    BY <1>3 DEF Deliver
  <2>2. r \in Request
    BY <1>0, <1>3, MatchProperties
  <2> HIDE DEF p, i, r
  <2>3. \A q : q # r => rval'[q] = rval[q]
    BY <1>0, <2>1, <2>2
  <2>4. \A u \in Thread : pc'[u] = IF pc[u] = "waiting" /\ treq[u] = r THEN "woken" ELSE pc[u]
    BY <2>1 DEF Notify, Proc
  <2>5. ASSUME NEW u \in Thread, pc'[u] = "woken"
        PROVE  rval'[treq[u]] = DataFrame(Owner[Peer[tconn[u]]], tkey[u])
    <3>1. RequestWired(u)'
      BY <2>5 DEF Honest, RequestsWired, Requesting
    <3>2. rval'[treq'[u]] # Null
      BY <2>5 DEF WokenHasValue
    <3> QED
      BY <1>1, <3>1, <3>2 DEF RequestWired
  <2>6. ASSUME NEW u \in Thread, pc[u] = "woken"
        PROVE  rval[treq[u]] = DataFrame(Owner[Peer[tconn[u]]], tkey[u])
    <3>1. RequestWired(u)
      BY <2>6 DEF Honest, RequestsWired, Requesting
    <3> QED
      BY <2>6, <3>1 DEF RequestWired, WokenHasValue
  <2>7. ASSUME NEW u \in Thread, ~(pc[u] = "waiting" /\ treq[u] = r)
        PROVE  SameCall(u)
    <3>1. pc'[u] = pc[u]
      BY <2>4, <2>7
    <3>2. pc[u] = "woken" => rval'[treq[u]] = rval[treq[u]]
      BY <2>5, <2>6, <3>1
    <3> QED
      BY <1>1, <3>1, <3>2, SameCallIf
  <2>8. CASE \E t \in Thread : pc[t] = "waiting" /\ treq[t] = r
    <3>1. PICK t \in Thread : pc[t] = "waiting" /\ treq[t] = r
      BY <2>8
    <3>2. \A u \in Thread : u # t => SameCall(u)
      <4>1. \A u \in Thread : u # t => treq[u] # r
        BY <2>2, <3>1 DEF Honest, Filing, Distinct
      <4> QED
        BY <2>7, <4>1
    <3>3. pc'[t] = "woken" /\ InCall(t) /\ InCall(t)'
      BY <2>4, <3>1 DEF InCall
    <3>4. tkey[t] \in store[Owner[Peer[tconn[t]]]]
      BY <3>1 DEF Honest, CallsStored, Calling, StoredAt
    <3>5. CallOf(t) = <<Owner[Peer[tconn[t]]], tkey[t]>> /\ CallOf(t)' = CallOf(t)
      BY <1>1, <3>3 DEF CallOf
    <3>6. rval'[treq'[t]] = CallOf(t)
      BY <1>1, <2>5, <3>3, <3>5 DEF DataFrame
    <3>7. AnswerOf(t)' = {CallOf(t)}
      BY <3>3, <3>6 DEF AnswerOf
    <3> QED
      BY <1>1, <3>1, <3>2, <3>3, <3>4, <3>5, <3>7, ReadAnswers
  <2>9. CASE ~ \E t \in Thread : pc[t] = "waiting" /\ treq[t] = r
    BY <1>1, <2>7, <2>9, ReadStutters
  <2> QED
    BY <2>8, <2>9
<1> QED
  BY <1>2, <1>3

(* A destructor that nobody waits on leaves the calls alone. *)
LEMMA EraseImplements ==
  ASSUME Honest, Honest', NEW p \in Proc, NEW c \in Conn, CleanErase(p, c)
  PROVE  UNCHANGED Read!vars
<1>1. UNCHANGED <<store, known, tkey, tconn, treq, rkey, hand, out>>
  BY DEF CleanErase, workVars
<1>2. ASSUME NEW u \in Thread
      PROVE  pc'[u] = pc[u] /\ (pc[u] = "woken" => rval'[treq[u]] = rval[treq[u]])
  <2>1. CASE Refs(c) = {}
    <3>1. Destroy(c) /\ pc' = Notify(pc, Pending(c))
      BY <2>1 DEF CleanErase
    <3>2. Filing'
      BY DEF Honest
    <3>3. \A w \in Thread : /\ pc'[w] = pc[w]
                            /\ pc'[w] \in Requesting => rval'[treq[w]] = rval[treq[w]]
      BY <1>1, <2>1, <3>1, <3>2, DestroyHonest
    <3> QED
      BY <3>3 DEF Requesting
  <2>2. CASE Refs(c) # {}
    BY <2>2 DEF CleanErase, Keep
  <2> QED
    BY <2>1, <2>2
<1> QED
  BY <1>1, <1>2, SameCallIf, ReadStutters

(* Return, with the destructor it may run, ends the one call.               *)
LEMMA ReturnImplements ==
  ASSUME Honest, Honest', NEW t \in Thread, Return(t)
  PROVE  Read!Next
<1> USE ConstAssumption
<1> DEFINE c == tconn[t]
           gone == [pc EXCEPT ![t] = "idle"]
<1>0. Filing' /\ Typed /\ TypeOK /\ pc \in [Proc -> ThreadPc]
  BY DEF Honest, Filing, Typed, TypeOK
<1>1. c \in Conn
  BY <1>0 DEF Return, Typed, ThreadsWired, Calling
<1>2. /\ UNCHANGED <<store, known, tkey, rkey, hand, out>>
      /\ gone[t] = "idle"
      /\ \A u \in Thread : u # t => /\ gone[u] = pc[u]
                                    /\ treq'[u] = treq[u] /\ tconn'[u] = tconn[u]
  BY <1>0 DEF Return, TypeOK, Proc, nodeVars, workVars
<1> HIDE DEF gone
<1>3. \A u \in Thread : /\ pc'[u] = gone[u]
                        /\ pc'[u] = "woken" => rval'[treq[u]] = rval[treq[u]]
  <2>1. CASE Refs(c) = {t} /\ c \notin conns[Home[t]]
    <3>1. Destroy(c) /\ pc' = Notify(gone, Pending(c))
      BY <2>1 DEF Return, gone
    <3> HIDE DEF c
    <3>2. \A u \in Thread : /\ pc'[u] = gone[u]
                            /\ pc'[u] \in Requesting => rval'[treq[u]] = rval[treq[u]]
      BY <1>0, <1>1, <1>2, <2>1, <3>1, DestroyHonest
    <3> QED
      BY <3>2 DEF Requesting
  <2>2. CASE ~(Refs(c) = {t} /\ c \notin conns[Home[t]])
    BY <2>2 DEF Return, Keep, gone
  <2> QED
    BY <2>1, <2>2
<1>4. \A u \in Thread : u # t => SameCall(u)
  BY <1>2, <1>3, SameCallIf
<1>5. pc[t] = "woken" /\ pc'[t] = "idle"
  BY <1>2, <1>3 DEF Return
<1> QED
  BY <1>2, <1>4, <1>5, ReadReturns DEF InCall

(* Every step is a step of RemoteRead or none. *)
LEMMA StepImplements ==
  ASSUME "spurious" \notin Faults, Honest, Honest', WokenHasValue, WokenHasValue', [Next]_vars
  PROVE  Read!Next \/ UNCHANGED Read!vars
<1> USE ConstAssumption DEF nodeVars, threadVars, reqVars, workVars, listVars, netVars
<1> DEFINE G == Read!Next \/ UNCHANGED Read!vars
<1>0. /\ TypeOK /\ Typed /\ Typed' /\ pc \in [Proc -> ThreadPc] /\ pc' \in [Proc -> ThreadPc]
      /\ tkey \in [Thread -> Key \cup {NoKey}] /\ tconn \in [Thread -> Conn \cup {NoConn}]
      /\ rval \in [Request -> Value]
  BY DEF Honest, Filing, Typed, TypeOK
<1>1. ASSUME UNCHANGED <<store, pc, tkey, tconn, treq, rval>>
      PROVE  G
  BY <1>1, SameCallIf, ReadStutters
<1>2. ASSUME NEW n \in Node, NEW how, NodeDown(n, how)
      PROVE  G
  BY <1>2, ReadCrashes
<1>3. ASSUME UNCHANGED <<store, treq, rval>>, NEW t \in Thread,
             \A u \in Thread : u # t =>
               pc'[u] = pc[u] /\ tkey'[u] = tkey[u] /\ tconn'[u] = tconn[u],
             SameCall(t)
      PROVE  G
  BY <1>3, SameCallIf, ReadStutters
<1> HIDE DEF G
<1>4. ASSUME NEW t \in Thread, NEW k \in Key, Get(t, k)
      PROVE  G
  <2> DEFINE c == known[Home[t]][k]
             n == Owner[Peer[c]]
  <2>1. c \in Conn /\ Owner[c] = Home[t]
    BY <1>0, <1>4 DEF Get, TypeOK, Typed, NodesWired
  <2>2. n \in Node /\ n # Home[t]
    BY <2>1
  <2>3. k \in store[n]
    BY <1>4 DEF Get, Honest, KnownStored, StoredAt
  <2>4. /\ UNCHANGED <<store, treq, rval>>
        /\ pc[t] = "idle" /\ pc' = [pc EXCEPT ![t] = "get"]
        /\ tkey' = [tkey EXCEPT ![t] = k] /\ tconn' = [tconn EXCEPT ![t] = c]
    BY <1>4 DEF Get
  <2> HIDE DEF c
  <2>5. /\ pc'[t] = "get" /\ tkey'[t] = k /\ tconn'[t] = c
        /\ \A u \in Thread : u # t =>
             pc'[u] = pc[u] /\ tkey'[u] = tkey[u] /\ tconn'[u] = tconn[u]
    BY <1>0, <2>4 DEF Proc
  <2>6. \A u \in Thread : u # t => SameCall(u)
    BY <2>4, <2>5, SameCallIf
  <2>7. ~InCall(t) /\ CallOf(t)' = <<n, k>> /\ AnswerOf(t)' = AnswerOf(t)
    BY <2>4, <2>5 DEF InCall, CallOf, AnswerOf
  <2> QED
    BY <2>2, <2>3, <2>4, <2>6, <2>7, ReadAsks DEF G
<1>5. ASSUME NEW t \in Thread, NEW k \in Key, SetCheck(t, k)
      PROVE  G
  <2>1. CASE NodeDown(Home[t], "aborted")
    BY <1>2, <2>1
  <2>2. CASE ~NodeDown(Home[t], "aborted")
    <3>1. /\ pc[t] = "idle" /\ pc' = [pc EXCEPT ![t] = "setting"]
          /\ tkey' = [tkey EXCEPT ![t] = k] /\ UNCHANGED <<store, tconn, treq, rval>>
      BY <1>5, <2>2 DEF SetCheck
    <3>2. /\ pc'[t] = "setting"
          /\ \A u \in Thread : u # t =>
               pc'[u] = pc[u] /\ tkey'[u] = tkey[u] /\ tconn'[u] = tconn[u]
      BY <1>0, <3>1 DEF Proc
    <3>3. SameCall(t)
      BY <3>1, <3>2, SameCallIf DEF InCall
    <3> QED
      BY <1>3, <3>1, <3>2, <3>3
  <2> QED
    BY <2>1, <2>2
<1>6. ASSUME NEW t \in Thread, SetInsert(t)
      PROVE  G
  <2>1. /\ pc[t] = "setting" /\ pc' = [pc EXCEPT ![t] = "idle"]
        /\ store' = [store EXCEPT ![Home[t]] = @ \cup {tkey[t]}]
        /\ UNCHANGED <<tkey, tconn, treq, rval>>
    BY <1>6 DEF SetInsert
  <2>2. tkey[t] \in Key
    BY <1>0, <2>1 DEF Typed, ThreadsWired
  <2>3. pc'[t] = "idle" /\ \A u \in Thread : u # t => pc'[u] = pc[u]
    BY <1>0, <2>1 DEF Proc
  <2>4. \A u \in Thread : SameCall(u)
    BY <2>1, <2>3, SameCallIf DEF InCall
  <2> QED
    BY <2>1, <2>2, <2>4, ReadStores DEF G
<1>7. ASSUME NEW p \in Proc,
             \/ CleanLock(p) \/ CleanUnlock(p)
             \/ p \in Thread /\ (AddRequest(p) \/ Wait(p))
      PROVE  G
  <2>1. /\ UNCHANGED <<store, tkey, tconn, treq, rval>>
        /\ \A u \in Thread :
             \/ pc'[u] = pc[u]
             \/ /\ pc[u] \in {"get", "cleaning", "created", "added"}
                /\ pc'[u] \in {"find", "cleaning", "added", "waiting"}
    BY <1>0, <1>7 DEF CleanLock, CleanUnlock, AddRequest, Wait, Proc
  <2>2. \A u \in Thread : SameCall(u)
    BY <2>1, SameCallIf DEF InCall
  <2> QED
    BY <2>1, <2>2, ReadStutters DEF G
<1>8. ASSUME NEW t \in Thread, FindConn(t)
      PROVE  G
  <2>1. UNCHANGED <<store, tkey, treq, rval>> /\ pc[t] = "find"
    BY <1>8 DEF FindConn
  <2>2. CASE tconn[t] \in conns[Home[t]]
    <3>1. pc' = [pc EXCEPT ![t] = "found"] /\ tconn' = tconn
      BY <1>8, <2>2 DEF FindConn
    <3>2. pc'[t] = "found" /\ \A u \in Thread : u # t => pc'[u] = pc[u]
      BY <1>0, <3>1 DEF Proc
    <3>3. SameCall(t)
      BY <2>1, <3>1, <3>2, SameCallIf DEF InCall
    <3> QED
      BY <1>3, <2>1, <3>1, <3>2, <3>3
  <2>3. CASE tconn[t] \notin conns[Home[t]]
    <3>1. pc' = [pc EXCEPT ![t] = "idle"] /\ tconn' = [tconn EXCEPT ![t] = NoConn]
      BY <1>8, <2>3 DEF FindConn
    <3>2. /\ pc'[t] = "idle"
          /\ \A u \in Thread : u # t => pc'[u] = pc[u] /\ tconn'[u] = tconn[u]
      BY <1>0, <3>1 DEF Proc
    <3>3. \A u \in Thread : u # t => SameCall(u)
      BY <2>1, <3>2, SameCallIf
    <3> QED
      BY <2>1, <3>2, <3>3, ReadReturns DEF G, InCall
  <2> QED
    BY <2>2, <2>3
<1>9. ASSUME NEW t \in Thread, NEW r \in Request, CreateRequest(t, r)
      PROVE  G
  <2>1. CASE finished[tconn[t]]
    BY <1>2, <1>9, <2>1 DEF CreateRequest
  <2>2. CASE ~finished[tconn[t]]
    <3>1. /\ ~InUse(r) /\ pc[t] = "found"
          /\ pc' = [pc EXCEPT ![t] = "created"] /\ treq' = [treq EXCEPT ![t] = r]
          /\ rval' = [rval EXCEPT ![r] = Null] /\ UNCHANGED <<store, tkey, tconn>>
      BY <1>9, <2>2 DEF CreateRequest
    <3>2. /\ pc'[t] = "created"
          /\ \A u \in Thread : u # t =>
               /\ pc'[u] = pc[u] /\ treq'[u] = treq[u]
               /\ rval'[treq[u]] = rval[treq[u]]
      BY <1>0, <3>1 DEF Proc, InUse, TypeOK
    <3>3. \A u \in Thread : SameCall(u)
      BY <3>1, <3>2, SameCallIf DEF InCall
    <3> QED
      BY <3>1, <3>3, ReadStutters DEF G
  <2> QED
    BY <2>1, <2>2
<1>10. ASSUME NEW p \in Proc, NEW c \in Conn, CleanErase(p, c)
       PROVE  G
  BY <1>10, EraseImplements DEF G
<1>11. ASSUME NEW t \in Thread, Return(t)
       PROVE  G
  BY <1>11, ReturnImplements DEF G
<1>12. ASSUME NEW c \in Conn,
             \/ Receive(c) \/ ParseNothing(c) \/ UpdateKeys(c) \/ ParseRequest(c)
             \/ SendResponse(c) \/ SnapshotKeys(c) \/ SendKeys(c) \/ SendRequest(c)
             \/ CheckRequests(c) \/ MoveRequest(c) \/ Reset(c)
       PROVE  G
  BY <1>1, <1>12 DEF Receive, ParseNothing, UpdateKeys, ParseRequest, SendResponse,
     SnapshotKeys, SendKeys, SendRequest, CheckRequests, MoveRequest, Reset
<1>13. ASSUME NEW c \in Conn, Deliver(c)
       PROVE  G
  BY <1>13, DeliverImplements DEF G
<1>14. ASSUME NEW n \in Node, Exit(n)
       PROVE  G
  BY <1>2, <1>14 DEF Exit
<1>15. ASSUME NEW t \in Thread, SpuriousWakeup(t)
       PROVE  G
  BY <1>15 DEF SpuriousWakeup
<1>16. ASSUME UNCHANGED vars
       PROVE  G
  BY <1>1, <1>16 DEF vars
<1>17. ASSUME Next
       PROVE  G
  BY <1>4, <1>5, <1>6, <1>7, <1>8, <1>9, <1>10, <1>11, <1>12, <1>13, <1>14, <1>15, <1>17
  DEF Next, Clean, Worker, Proceed, Call, Proc
<1> QED
  BY <1>16, <1>17 DEF G

(* Unless cv.wait wakes up by itself, remote reads through threads,         *)
(* connections, packets and worker threads do what RemoteRead promises: a  *)
(* call asks another node for a key that node holds, obtains that node's   *)
(* DataFrame or none, and returns, whatever is reset or ends meanwhile.    *)
THEOREM RequestsImplementRead ==
  ASSUME "spurious" \notin Faults
  PROVE  Spec => ImplementsRead
<1>1. Init => Read!Init
  <2> SUFFICES ASSUME Init
               PROVE  Read!Init
    OBVIOUS
  <2>1. \A t \in Thread : CallOf(t) = <<>> /\ AnswerOf(t) = {}
    BY DEF Init, CallOf, AnswerOf, InCall, Proc
  <2>2. store \in [Node -> SUBSET Key]
    BY ConstAssumption DEF Init
  <2> QED
    BY <2>1, <2>2 DEF Read!Init, Read!NoCall, CallOf, AnswerOf
<1>2. /\ Honest /\ Honest' /\ WokenHasValue /\ WokenHasValue' /\ [Next]_vars
      => [Read!Next]_Read!vars
  BY StepImplements
<1> QED
  BY <1>1, <1>2, HonestInvariant, WokenAlwaysHasValue, PTL DEF Spec, ImplementsRead, Read!Spec


----------------------------------------------------------------------------
(* How much room two workers need.  Both are stuck in _send_packet only     *)
(* when both sockets are full, and what fills a socket beyond the packets   *)
(* of an idle connection are the reads the threads began: a request is one *)
(* packet, its answer another.  What a connection still has to put on the  *)
(* way is counted below, and weighed against the calls that came as far as *)
(* add_request.                                                            *)

InNet(c) == Len(net[c])
InSend(c) == Len(Sending(c))
Unread(c) == Len(Asked(c))
Serves(c) == IF wpc[c] = "respond" THEN 1 ELSE 0
Owes(c) == IF wpc[c] \in {"parse", "respond", "keys"} THEN 1 ELSE 0
ToSend(c) == Len(queue[c]) + (IF hand[c] = NoRequest THEN 0 ELSE 1)

(* Requests of c that are not answered, and the packets that are or may     *)
(* still be on their way because of c.                                     *)
Asks(c) == Unread(c) + Serves(c) + ToSend(c)
Load(c) == InNet(c) + InSend(c) + Unread(c) + Owes(c) + 2 * ToSend(c)

(* The calls that came as far as add_request or were given up before it.    *)
Preparing == {"get", "cleaning", "find", "found", "created"}
Added == {tc \in Thread \X (1..MaxCalls) :
            /\ tc[2] <= calls[tc[1]]
            /\ pc[tc[1]] \in Preparing => tc[2] # calls[tc[1]]}

(* A thread that prepares a request is in a call; a socket holds no more    *)
(* than its capacity, and a receive buffer that is not being parsed has     *)
(* room for a packet.                                                      *)
Prepared == \A t \in Thread : pc[t] \in Preparing => calls[t] # 0
Roomy == \A c \in Conn : Len(net[c]) <= Cap /\ (wpc[c] # "parse" => Len(rbuf[c]) < RCap)
(* The two ends of a connection ask no more than was added, and have no     *)
(* more on the way than an idle connection and two packets per read.       *)
PairBounded(c) ==
  /\ Asks(c) + Asks(Peer[c]) <= Cardinality(Added)
  /\ Load(c) + Load(Peer[c]) <= Cap + 2 + 2 * Cardinality(Added)
Bounded == \A c \in Conn : link[c] => PairBounded(c)

(* All amounts are numbers, and small ones where the worker sends nothing.  *)
LEMMA AmountTypes ==
  ASSUME TypeOK, NEW c \in Conn
  PROVE  /\ InNet(c) \in Nat /\ InSend(c) \in Nat /\ Unread(c) \in Nat
         /\ Serves(c) \in Nat /\ Owes(c) \in Nat /\ ToSend(c) \in Nat
         /\ InSend(c) = IF out[c] = NoPacket THEN 0 ELSE 1
<1>1. net[c] \in Seq(Packet) /\ queue[c] \in Seq(Request)
  BY DEF TypeOK
<1>2. Asked(c) \in Seq(Packet)
  BY DownType
<1>3. Len(net[c]) \in Nat /\ Len(queue[c]) \in Nat /\ Len(Asked(c)) \in Nat
  BY <1>1, <1>2, LenProperties
<1>4. InSend(c) = IF out[c] = NoPacket THEN 0 ELSE 1
  <2>1. CASE out[c] = NoPacket
    BY <2>1, EmptySeq DEF InSend, Sending
  <2>2. CASE out[c] # NoPacket
    <3>1. Sending(c) = <<out[c]>>
      BY <2>2 DEF Sending
    <3>2. Len(<<out[c]>>) = 1
      OBVIOUS
    <3> QED
      BY <2>2, <3>1, <3>2 DEF InSend
  <2> QED
    BY <2>1, <2>2
<1>5. Serves(c) \in Nat /\ Owes(c) \in Nat
  BY DEF Serves, Owes
<1>8. ToSend(c) \in Nat
  <2>1. CASE hand[c] = NoRequest
    BY <1>3, <2>1 DEF ToSend
  <2>2. CASE hand[c] # NoRequest
    BY <1>3, <2>2 DEF ToSend
  <2> QED
    BY <2>1, <2>2
<1>6. InNet(c) \in Nat /\ Unread(c) \in Nat
  BY <1>3 DEF InNet, Unread
<1>7. InSend(c) \in Nat
  BY <1>4
<1> QED
  BY <1>4, <1>5, <1>6, <1>7, <1>8

(* The calls counted are finitely many. *)
LEMMA AddedFinite ==
  ASSUME IsFiniteSet(Thread)
  PROVE  /\ IsFiniteSet(Thread \X (1..MaxCalls))
         /\ Cardinality(Thread \X (1..MaxCalls)) = Cardinality(Thread) * MaxCalls
         /\ Cardinality(Thread) \in Nat
         /\ IsFiniteSet(Added) /\ Cardinality(Added) \in Nat
         /\ Cardinality(Added) <= Cardinality(Thread) * MaxCalls
<1>1. MaxCalls \in Nat /\ 1 \in Int /\ MaxCalls \in Int
  BY ConstAssumption
<1>2. IsFiniteSet(1..MaxCalls) /\ Cardinality(1..MaxCalls) = MaxCalls
  BY <1>1, FS_Interval
<1>3. /\ IsFiniteSet(Thread \X (1..MaxCalls))
      /\ Cardinality(Thread \X (1..MaxCalls)) = Cardinality(Thread) * MaxCalls
  BY <1>2, FS_Product
<1>4. Added \in SUBSET (Thread \X (1..MaxCalls))
  BY DEF Added
<1> QED
  BY <1>3, <1>4, FS_Subset, FS_CardinalityType

(* It never loses a call. *)
LEMMA AddedMonotone ==
  ASSUME IsFiniteSet(Thread), Added \subseteq Added'
  PROVE  /\ Cardinality(Added) \in Nat /\ Cardinality(Added)' \in Nat
         /\ Cardinality(Added) <= Cardinality(Added)'
<1>1. Added' \in SUBSET (Thread \X (1..MaxCalls))
  BY DEF Added
<1>2. IsFiniteSet(Added') /\ Added \in SUBSET Added'
  BY <1>1, AddedFinite, FS_Subset
<1> QED
  BY <1>2, FS_Subset, FS_CardinalityType

(* A step keeps the calls if no thread begins to prepare one.               *)
LEMMA AddedKept ==
  ASSUME \A t \in Thread : /\ calls'[t] = calls[t]
                           /\ pc'[t] \in Preparing => pc[t] \in Preparing
  PROVE  /\ Added \subseteq Added'
         /\ Prepared => Prepared'
<1>1. ASSUME NEW tc \in Added
      PROVE  tc \in Added'
  <2>1. /\ tc \in Thread \X (1..MaxCalls) /\ tc[1] \in Thread
        /\ tc[2] <= calls[tc[1]]
        /\ pc[tc[1]] \in Preparing => tc[2] # calls[tc[1]]
    BY DEF Added
  <2>2. PICK t \in Thread : t = tc[1]
    BY <2>1
  <2>3. calls'[t] = calls[t] /\ (pc'[t] \in Preparing => pc[t] \in Preparing)
    OBVIOUS
  <2>4. /\ tc[2] <= calls'[tc[1]]
        /\ pc'[tc[1]] \in Preparing => tc[2] # calls'[tc[1]]
    BY <2>1, <2>2, <2>3
  <2> QED
    BY <2>1, <2>4 DEF Added
<1> QED
  BY <1>1 DEF Prepared

(* KVStore::get begins a call, which is not added yet.                      *)
LEMMA GetAdded ==
  ASSUME TypeOK, Prepared, NEW t \in Thread, NEW k \in Key, Get(t, k)
  PROVE  Added \subseteq Added' /\ Prepared'
<1>0. /\ pc[t] = "idle" /\ t \in Proc /\ calls[t] \in Nat
      /\ calls' = [calls EXCEPT ![t] = @ + 1] /\ pc' = [pc EXCEPT ![t] = "get"]
      /\ calls \in [Thread -> 0..MaxCalls] /\ pc \in [Proc -> ThreadPc]
  BY ConstAssumption DEF Get, TypeOK, Proc
<1>1. ASSUME NEW u \in Thread
      PROVE  /\ calls'[u] = IF u = t THEN calls[u] + 1 ELSE calls[u]
             /\ pc'[u] = IF u = t THEN "get" ELSE pc[u]
  <2>1. u \in Proc
    BY DEF Proc
  <2> QED
    BY <1>0, <2>1
<1>2. ASSUME NEW tc \in Added
      PROVE  tc \in Added'
  <2>1. /\ tc \in Thread \X (1..MaxCalls) /\ tc[1] \in Thread /\ tc[2] \in 1..MaxCalls
        /\ tc[2] <= calls[tc[1]]
        /\ pc[tc[1]] \in Preparing => tc[2] # calls[tc[1]]
    BY DEF Added
  <2>2. PICK u \in Thread : u = tc[1]
    BY <2>1
  <2>3. PICK n \in 1..MaxCalls : n = tc[2]
    BY <2>1
  <2>4. n <= calls'[u] /\ (pc'[u] \in Preparing => n # calls'[u])
    <3>1. CASE u = t
      <4>1. calls'[u] = calls[u] + 1 /\ n <= calls[u] /\ calls[u] \in Nat /\ n \in Nat
        BY <1>0, <1>1, <2>1, <2>2, <2>3, <3>1, ConstAssumption
      <4> QED
        BY <4>1
    <3>2. CASE u # t
      BY <1>1, <2>1, <2>2, <2>3, <3>2
    <3> QED
      BY <3>1, <3>2
  <2> QED
    BY <2>1, <2>2, <2>3, <2>4 DEF Added
<1>3. ASSUME NEW u \in Thread, pc'[u] \in Preparing
      PROVE  calls'[u] # 0
  <2>1. CASE u = t
    BY <1>0, <1>1, <2>1
  <2>2. CASE u # t
    BY <1>1, <1>3, <2>2 DEF Prepared
  <2> QED
    BY <2>1, <2>2
<1> QED
  BY <1>2, <1>3 DEF Prepared

(* add_request adds one.                                                    *)
LEMMA AddRequestAdded ==
  ASSUME TypeOK, Prepared, IsFiniteSet(Thread), NEW t \in Thread, AddRequest(t)
  PROVE  /\ Prepared'
         /\ Cardinality(Added) \in Nat
         /\ Cardinality(Added)' = Cardinality(Added) + 1
<1>0. /\ pc[t] = "created" /\ t \in Proc /\ calls[t] \in 1..MaxCalls
      /\ calls' = calls /\ pc' = [pc EXCEPT ![t] = "added"]
      /\ calls \in [Thread -> 0..MaxCalls] /\ pc \in [Proc -> ThreadPc]
  <2>1. calls[t] \in 0..MaxCalls /\ pc[t] = "created" /\ calls[t] # 0 /\ MaxCalls \in Nat
    BY ConstAssumption DEF AddRequest, TypeOK, Prepared, Preparing
  <2>2. calls[t] \in 1..MaxCalls
    BY <2>1
  <2> QED
    BY <2>2 DEF AddRequest, TypeOK, Proc
<1>1. ASSUME NEW u \in Thread
      PROVE  pc'[u] = IF u = t THEN "added" ELSE pc[u]
  <2>1. u \in Proc
    BY DEF Proc
  <2> QED
    BY <1>0, <2>1
<1>2. Prepared'
  BY <1>0, <1>1 DEF Prepared, Preparing
<1> DEFINE e == <<t, calls[t]>>
<1>3. e \in Thread \X (1..MaxCalls) /\ e[1] = t /\ e[2] = calls[t]
  BY <1>0
<1> HIDE DEF e
<1>4. e \notin Added
  BY <1>0, <1>3 DEF Added, Preparing
<1>5. Added' = Added \cup {e}
  <2>1. ASSUME NEW tc \in Thread \X (1..MaxCalls)
        PROVE  tc \in Added' <=> tc \in Added \cup {e}
    <3>1. /\ tc \in Added <=> /\ tc[2] <= calls[tc[1]]
                              /\ pc[tc[1]] \in Preparing => tc[2] # calls[tc[1]]
          /\ tc \in Added' <=> /\ tc[2] <= calls'[tc[1]]
                               /\ pc'[tc[1]] \in Preparing => tc[2] # calls'[tc[1]]
      BY DEF Added
    <3>2. tc[1] \in Thread /\ tc[2] \in 1..MaxCalls /\ tc = <<tc[1], tc[2]>>
      OBVIOUS
    <3>3. CASE tc[1] # t
      <4>1. tc # e /\ pc'[tc[1]] = pc[tc[1]] /\ calls' = calls
        BY <1>0, <1>1, <1>3, <3>2, <3>3
      <4> QED
        BY <3>1, <4>1
    <3>4. CASE tc[1] = t
      <4>1. pc'[tc[1]] \notin Preparing /\ pc[tc[1]] \in Preparing /\ calls' = calls
        BY <1>0, <1>1, <3>4 DEF Preparing
      <4>2. tc = e <=> tc[2] = calls[t]
        BY <1>3, <3>2, <3>4 DEF e
      <4>3. tc[2] = calls[t] => tc[2] <= calls[t]
        BY <1>0
      <4>4. tc \in Added <=> tc[2] <= calls[t] /\ tc[2] # calls[t]
        BY <3>1, <3>4, <4>1
      <4>5. tc \in Added' <=> tc[2] <= calls[t]
        BY <3>1, <3>4, <4>1
      <4> QED
        BY <4>2, <4>3, <4>4, <4>5
    <3> QED
      BY <3>3, <3>4
  <2>2. Added' \subseteq Thread \X (1..MaxCalls) /\ Added \subseteq Thread \X (1..MaxCalls)
    BY DEF Added
  <2> QED
    BY <1>3, <2>1, <2>2
<1>6. IsFiniteSet(Added) /\ Cardinality(Added) \in Nat
  BY AddedFinite
<1>7. Cardinality(Added \cup {e}) = Cardinality(Added) + 1
  BY <1>4, <1>6, FS_AddElement
<1> QED
  BY <1>2, <1>5, <1>6, <1>7

----------------------------------------------------------------------------
(* What a step of one worker leaves alone. *)

LEMMA WorkerLocal ==
  ASSUME TypeOK, NEW x \in Conn, Worker(x)
  PROVE  /\ link' = link /\ calls' = calls
         /\ \A c \in Conn : c # x => /\ wpc'[c] = wpc[c] /\ out'[c] = out[c]
                                     /\ queue'[c] = queue[c] /\ hand'[c] = hand[c]
                                     /\ rbuf'[c] = rbuf[c]
         /\ \A c \in Conn : c # x /\ c # Peer[x] => net'[c] = net[c]
         /\ \A t \in Thread : pc'[t] = pc[t] \/ pc'[t] = "woken"
<1> USE DEF nodeVars, threadVars, reqVars, workVars, listVars, netVars
<1>0. /\ wpc \in [Conn -> WorkerPc] /\ out \in [Conn -> Packet \cup {NoPacket}]
      /\ queue \in [Conn -> Seq(Request)] /\ hand \in [Conn -> Request \cup {NoRequest}]
      /\ rbuf \in [Conn -> Seq(Packet)] /\ net \in [Conn -> Seq(Packet)]
      /\ pc \in [Proc -> ThreadPc]
  BY DEF TypeOK
<1> DEFINE G == /\ link' = link /\ calls' = calls
                /\ \A c \in Conn : c # x => /\ wpc'[c] = wpc[c] /\ out'[c] = out[c]
                                            /\ queue'[c] = queue[c] /\ hand'[c] = hand[c]
                                            /\ rbuf'[c] = rbuf[c]
                /\ \A c \in Conn : c # x /\ c # Peer[x] => net'[c] = net[c]
                /\ \A t \in Thread : pc'[t] = pc[t] \/ pc'[t] = "woken"
<1> SUFFICES G
  OBVIOUS
<1>1. CASE Receive(x)
  <2>1. /\ UNCHANGED <<link, calls, out, queue, hand, pc>>
        /\ wpc' = [wpc EXCEPT ![x] = wpc'[x]] /\ net' = [net EXCEPT ![x] = net'[x]]
        /\ rbuf' = [rbuf EXCEPT ![x] = rbuf'[x]]
    BY <1>0, <1>1 DEF Receive
  <2> QED
    BY <1>0, <2>1
<1>2. CASE ParseNothing(x)
  BY <1>0, <1>2 DEF ParseNothing
<1>3. CASE UpdateKeys(x) \/ ParseRequest(x)
  BY <1>0, <1>3 DEF UpdateKeys, ParseRequest
<1>4. CASE Deliver(x)
  <2>1. /\ UNCHANGED <<link, calls, out, queue, hand, net>>
        /\ wpc' = [wpc EXCEPT ![x] = AfterReceive(x)] /\ rbuf' = [rbuf EXCEPT ![x] = Tail(@)]
    BY <1>4 DEF Deliver
  <2>2. pc' = pc \/ \E R : pc' = Notify(pc, R)
    BY <1>4 DEF Deliver
  <2>3. \A t \in Thread : pc'[t] = pc[t] \/ pc'[t] = "woken"
    <3>1. \A t \in Thread : t \in Proc
      BY DEF Proc
    <3> QED
      BY <2>2, <3>1 DEF Notify
  <2> QED
    BY <1>0, <2>1, <2>3
<1>5. CASE SendResponse(x) \/ SendKeys(x) \/ SendRequest(x)
  <2>1. /\ UNCHANGED <<link, calls, queue, hand, rbuf, pc>>
        /\ \E w : wpc' = [wpc EXCEPT ![x] = w]
        /\ out' = [out EXCEPT ![x] = NoPacket]
        /\ net' = net \/ net' = [net EXCEPT ![Peer[x]] = Append(@, out[x])]
    BY <1>5 DEF SendResponse, SendKeys, SendRequest, Send
  <2> QED
    BY <1>0, <2>1
<1>6. CASE SnapshotKeys(x) \/ CheckRequests(x) \/ MoveRequest(x)
  <2>1. /\ UNCHANGED <<link, calls, rbuf, net, pc>>
        /\ \E w : wpc' = [wpc EXCEPT ![x] = w]
        /\ out' = out \/ \E w : out' = [out EXCEPT ![x] = w]
        /\ hand' = hand \/ \E w : hand' = [hand EXCEPT ![x] = w]
        /\ queue' = queue \/ \E w : queue' = [queue EXCEPT ![x] = w]
    BY <1>6 DEF SnapshotKeys, CheckRequests, MoveRequest
  <2> QED
    BY <1>0, <2>1
<1> HIDE DEF G
<1> QED
  BY <1>1, <1>2, <1>3, <1>4, <1>5, <1>6 DEF Worker

(* The peer's worker owes, serves and sends what it did. *)
LEMMA PeerAmounts ==
  ASSUME NEW c \in Conn, wpc'[c] = wpc[c], out'[c] = out[c], queue'[c] = queue[c],
         hand'[c] = hand[c]
  PROVE  /\ InSend(c)' = InSend(c) /\ Serves(c)' = Serves(c)
         /\ Owes(c)' = Owes(c) /\ ToSend(c)' = ToSend(c)
<1>1. InSend(c)' = InSend(c)
  BY DEF InSend, Sending
<1>2. Serves(c)' = Serves(c)
  BY DEF Serves
<1>3. Owes(c)' = Owes(c)
  BY DEF Owes
<1>4. ToSend(c)' = ToSend(c)
  BY DEF ToSend
<1> QED
  BY <1>1, <1>2, <1>3, <1>4

(* What a connection's amounts depend on.                                  *)
LEMMA AmountsKept ==
  ASSUME NEW c \in Conn, wpc'[c] = wpc[c], out'[c] = out[c], queue'[c] = queue[c],
         hand'[c] = hand[c], net'[c] = net[c], Asked(c)' = Asked(c)
  PROVE  Asks(c)' = Asks(c) /\ Load(c)' = Load(c)
<1>1. /\ InSend(c)' = InSend(c) /\ Serves(c)' = Serves(c)
      /\ Owes(c)' = Owes(c) /\ ToSend(c)' = ToSend(c)
  BY PeerAmounts
<1>2. InNet(c)' = InNet(c) /\ Unread(c)' = Unread(c)
  BY DEF InNet, Unread
<1> QED
  BY <1>1, <1>2 DEF Asks, Load

(* The bound only grows. *)
LEMMA BoundKept ==
  ASSUME TypeOK, IsFiniteSet(Thread), Added \subseteq Added', NEW c \in Conn, PairBounded(c),
         Asks(c)' = Asks(c), Load(c)' = Load(c),
         Asks(Peer[c])' = Asks(Peer[c]), Load(Peer[c])' = Load(Peer[c])
  PROVE  PairBounded(c)'
<1>1. /\ Cardinality(Added) \in Nat /\ Cardinality(Added)' \in Nat
      /\ Cardinality(Added) <= Cardinality(Added)'
  BY AddedMonotone
<1>2. Peer[c] \in Conn /\ Cap \in Nat
  BY ConstAssumption
<1>3. /\ Asks(c) \in Nat /\ Load(c) \in Nat
      /\ Asks(Peer[c]) \in Nat /\ Load(Peer[c]) \in Nat
  BY <1>2, AmountTypes DEF Asks, Load
<1>4. PICK a \in Nat : a = Asks(c) + Asks(Peer[c])
  BY <1>3
<1>5. PICK l \in Nat : l = Load(c) + Load(Peer[c])
  BY <1>3
<1>6. PICK m \in Nat : m = Cardinality(Added)
  BY <1>1
<1>7. PICK n \in Nat : n = Cardinality(Added)'
  BY <1>1
<1>8. a <= m /\ l <= Cap + 2 + 2 * m /\ m <= n
  BY <1>1, <1>4, <1>5, <1>6, <1>7 DEF PairBounded
<1>9. a <= n /\ l <= Cap + 2 + 2 * n
  BY <1>2, <1>8
<1>10. (Asks(c) + Asks(Peer[c]))' = a /\ (Load(c) + Load(Peer[c]))' = l
  BY <1>4, <1>5
<1> QED
  BY <1>7, <1>9, <1>10 DEF PairBounded

(* Connections other than the worker's two ends carry the same load. *)
LEMMA ElsewhereKept ==
  ASSUME TypeOK, NEW x \in Conn, Worker(x), NEW c \in Conn, c # x, c # Peer[x]
  PROVE  Asks(c)' = Asks(c) /\ Load(c)' = Load(c)
<1>1. /\ Peer[c] \in Conn /\ Peer[c] # x /\ Peer[c] # Peer[x] /\ Peer[Peer[c]] = c
      /\ Peer[x] \in Conn
  BY ConstAssumption
<1>2. /\ wpc'[c] = wpc[c] /\ out'[c] = out[c] /\ queue'[c] = queue[c]
      /\ hand'[c] = hand[c] /\ net'[c] = net[c]
  BY WorkerLocal
<1>3. rbuf'[Peer[c]] = rbuf[Peer[c]] /\ net'[Peer[c]] = net[Peer[c]]
  BY <1>1, WorkerLocal
<1>4. Down(Peer[c])' = Down(Peer[c])
  BY <1>1, <1>2, <1>3, DownKept
<1>5. Asked(c)' = Asked(c)
  BY <1>4 DEF Asked
<1> QED
  BY <1>2, <1>5, AmountsKept

(* So a step of a worker keeps the bound if it does at its two ends. *)
LEMMA PairSuffices ==
  ASSUME TypeOK, Bounded, LinkSym, IsFiniteSet(Thread), NEW x \in Conn, Worker(x),
         link[x] => PairBounded(x)' /\ PairBounded(Peer[x])'
  PROVE  Bounded'
<1> SUFFICES ASSUME NEW c \in Conn, link'[c]
             PROVE  PairBounded(c)'
  BY DEF Bounded
<1>1. link' = link /\ link[c] /\ Peer[c] \in Conn /\ Peer[Peer[c]] = c /\ Peer[x] \in Conn
      /\ Peer[Peer[x]] = x
  BY WorkerLocal, ConstAssumption
<1>2. CASE c = x
  BY <1>1, <1>2
<1>3. CASE c = Peer[x]
  <2>1. link[x]
    BY <1>1, <1>3 DEF LinkSym
  <2> QED
    BY <2>1, <1>3
<1>4. CASE c # x /\ c # Peer[x]
  <2>1. Peer[c] # x /\ Peer[c] # Peer[x]
    BY <1>1, <1>4
  <2>2. /\ Asks(c)' = Asks(c) /\ Load(c)' = Load(c)
        /\ Asks(Peer[c])' = Asks(Peer[c]) /\ Load(Peer[c])' = Load(Peer[c])
    BY <1>1, <1>4, <2>1, ElsewhereKept
  <2>3. \A t \in Thread : /\ calls'[t] = calls[t]
                          /\ pc'[t] \in Preparing => pc[t] \in Preparing
    BY WorkerLocal DEF Preparing
  <2>4. Added \subseteq Added'
    BY <2>3, AddedKept
  <2>5. PairBounded(c)'
    BY <1>1, <2>2, <2>4, BoundKept DEF Bounded
  <2> QED
    BY <2>5
<1> QED
  BY <1>2, <1>3, <1>4

(* What is left of a sequence whose first m elements are parsed.            *)
LEMMA DroppedLength ==
  ASSUME NEW S, NEW s \in Seq(S), NEW m \in Nat, m <= Len(s)
  PROVE  Len(SubSeq(s, m + 1, Len(s))) = Len(s) - m
<1>1. Len(s) \in Nat /\ \A i \in (m + 1)..Len(s) : s[i] \in S
  BY LenProperties, ElementOfSeq
<1>2. m + 1 \in Int /\ Len(s) \in Int
  BY <1>1
<1>3. Len(SubSeq(s, m + 1, Len(s))) = IF m + 1 <= Len(s) THEN Len(s) - (m + 1) + 1 ELSE 0
  BY <1>1, <1>2, SubSeqProperties
<1> QED
  BY <1>1, <1>3

(* A worker has at most one packet in hand.                                *)
LEMMA SendingLength ==
  \A c \in Conn : /\ InSend(c) = IF out[c] = NoPacket THEN 0 ELSE 1
                  /\ InSend(c)' = IF out'[c] = NoPacket THEN 0 ELSE 1
<1>1. Len(<<>>) = 0 /\ \A p : Len(<<p>>) = 1
  BY EmptySeq
<1>2. \A c \in Conn : InSend(c) = IF out[c] = NoPacket THEN 0 ELSE 1
  BY <1>1 DEF InSend, Sending
<1>3. \A c \in Conn : InSend(c)' = IF out'[c] = NoPacket THEN 0 ELSE 1
  BY <1>1 DEF InSend, Sending
<1> QED
  BY <1>2, <1>3

(* All amounts are numbers.                                                *)
AmountsOK ==
  \A c \in Conn : /\ InNet(c) \in Nat /\ InSend(c) \in Nat /\ Unread(c) \in Nat
                  /\ Serves(c) \in Nat /\ Owes(c) \in Nat /\ ToSend(c) \in Nat

(* They are, before a step and after it.                                   *)
LEMMA AmountsAlways == (TypeOK => AmountsOK) /\ (TypeOK => AmountsOK)'
<1>1. TypeOK => AmountsOK
  BY AmountTypes DEF AmountsOK
<1> QED
  BY <1>1, PTL

(* A step of one worker keeps the bound if it adds to neither of the two    *)
(* sums over the amounts that it may change.                               *)
LEMMA PairStep ==
  ASSUME TypeOK, TypeOK', IsFiniteSet(Thread), Bounded, NEW x \in Conn, Worker(x), link[x],
         Unread(x)' + Unread(Peer[x])' + Serves(x)' + ToSend(x)'
           <= Unread(x) + Unread(Peer[x]) + Serves(x) + ToSend(x),
         InNet(x)' + InNet(Peer[x])' + Unread(x)' + Unread(Peer[x])' + InSend(x)' + Owes(x)'
           + 2 * ToSend(x)'
           <= InNet(x) + InNet(Peer[x]) + Unread(x) + Unread(Peer[x]) + InSend(x) + Owes(x)
              + 2 * ToSend(x)
  PROVE  PairBounded(x)' /\ PairBounded(Peer[x])'
<1> DEFINE y == Peer[x]
<1>1. y \in Conn /\ Peer[y] = x /\ y # x /\ Cap \in Nat
  BY ConstAssumption
<1>2. /\ InSend(y)' = InSend(y) /\ Serves(y)' = Serves(y)
      /\ Owes(y)' = Owes(y) /\ ToSend(y)' = ToSend(y)
  <2>1. wpc'[y] = wpc[y] /\ out'[y] = out[y] /\ queue'[y] = queue[y] /\ hand'[y] = hand[y]
    BY <1>1, WorkerLocal
  <2> QED
    BY <1>1, <2>1, PeerAmounts
<1>3. Added \subseteq Added'
  <2>1. \A t \in Thread : /\ calls'[t] = calls[t]
                          /\ pc'[t] \in Preparing => pc[t] \in Preparing
    BY WorkerLocal DEF Preparing
  <2> QED
    BY <2>1, AddedKept
<1>4. /\ Cardinality(Added) \in Nat /\ Cardinality(Added)' \in Nat
      /\ Cardinality(Added) <= Cardinality(Added)'
  BY <1>3, AddedMonotone
<1>5. AmountsOK /\ AmountsOK'
  BY AmountsAlways
<1>6. PairBounded(x)
  BY DEF Bounded
<1> HIDE DEF y
<1>7. Asks(x)' + Asks(y)' <= Asks(x) + Asks(y)
  BY <1>1, <1>2, <1>5 DEF AmountsOK, Asks, y
<1>8. Load(x)' + Load(y)' <= Load(x) + Load(y)
  BY <1>1, <1>2, <1>5 DEF AmountsOK, Load, y
<1>9. /\ Asks(x) \in Nat /\ Asks(y) \in Nat /\ Load(x) \in Nat /\ Load(y) \in Nat
      /\ Asks(x)' \in Nat /\ Asks(y)' \in Nat /\ Load(x)' \in Nat /\ Load(y)' \in Nat
  BY <1>1, <1>5 DEF AmountsOK, Asks, Load
<1>10. /\ Asks(x)' + Asks(y)' <= Cardinality(Added)'
       /\ Load(x)' + Load(y)' <= Cap + 2 + 2 * Cardinality(Added)'
  BY <1>1, <1>4, <1>6, <1>7, <1>8, <1>9 DEF PairBounded, y
<1>11. /\ Asks(y)' + Asks(x)' <= Cardinality(Added)'
       /\ Load(y)' + Load(x)' <= Cap + 2 + 2 * Cardinality(Added)'
  BY <1>9, <1>10
<1> QED
  BY <1>1, <1>10, <1>11 DEF PairBounded, y


(* A packet that is no request leaves as little to do. *)
LEMMA ParseLight ==
  ASSUME TypeOK, TypeOK', IsFiniteSet(Thread), Bounded, NEW x \in Conn, link[x],
         ParseNothing(x) \/ UpdateKeys(x) \/ Deliver(x)
  PROVE  PairBounded(x)' /\ PairBounded(Peer[x])'
<1> USE DEF nodeVars, threadVars, reqVars, workVars, listVars, netVars
<1> DEFINE y == Peer[x]
<1>1. y \in Conn /\ Peer[y] = x /\ y # x
  BY ConstAssumption
<1>2. /\ out' = out /\ queue' = queue /\ hand' = hand /\ net' = net
      /\ wpc[x] = "parse" /\ wpc' = [wpc EXCEPT ![x] = AfterReceive(x)]
  BY DEF ParseNothing, UpdateKeys, Deliver
<1>3. wpc'[x] = AfterReceive(x)
  BY <1>2 DEF TypeOK
<1>4. /\ Serves(x) = 0 /\ Serves(x)' = 0 /\ Owes(x) = 1 /\ Owes(x)' \in {0, 1}
      /\ ToSend(x)' = ToSend(x) /\ InSend(x)' = InSend(x)
      /\ InNet(x)' = InNet(x) /\ InNet(y)' = InNet(y)
  BY <1>2, <1>3 DEF Serves, Owes, ToSend, InSend, InNet, Sending, AfterReceive
<1>5. Asked(y)' = Asked(y) /\ Asked(x)' = Asked(x)
  <2>1. CASE rbuf' = rbuf
    BY <1>1, <1>2, <2>1, DownKept DEF Asked
  <2>2. CASE /\ rbuf[x] # <<>> /\ rbuf' = [rbuf EXCEPT ![x] = Tail(@)]
             /\ Head(rbuf[x]).type # "VALUE_REQUEST"
    <3>1. Asked(y)' = Asked(y)
      BY <1>2, <2>2, TakeKinds
    <3>2. rbuf'[y] = rbuf[y]
      BY <1>1, <2>2 DEF TypeOK
    <3>3. Down(y)' = Down(y)
      BY <1>1, <1>2, <3>2, DownKept
    <3> QED
      BY <3>1, <3>3 DEF Asked
  <2> QED
    BY <2>1, <2>2 DEF ParseNothing, UpdateKeys, Deliver
<1>6. Unread(x)' = Unread(x) /\ Unread(y)' = Unread(y)
  BY <1>5 DEF Unread
<1>7. AmountsOK /\ AmountsOK' /\ Worker(x)
  BY AmountsAlways DEF Worker
<1> HIDE DEF y
<1>8. /\ Unread(x)' + Unread(y)' + Serves(x)' + ToSend(x)'
           <= Unread(x) + Unread(y) + Serves(x) + ToSend(x)
      /\ InNet(x)' + InNet(y)' + Unread(x)' + Unread(y)' + InSend(x)' + Owes(x)'
           + 2 * ToSend(x)'
           <= InNet(x) + InNet(y) + Unread(x) + Unread(y) + InSend(x) + Owes(x)
              + 2 * ToSend(x)
  BY <1>1, <1>4, <1>6, <1>7 DEF AmountsOK
<1> QED
  BY <1>7, <1>8, PairStep DEF y

(* A sequence with one more element in front.                               *)
LEMMA OneMore ==
  ASSUME NEW S, NEW h \in S, NEW s \in Seq(S)
  PROVE  Len(<<h>> \o s) = 1 + Len(s) /\ Len(s) \in Nat
<1>1. <<h>> \in Seq(S) /\ Len(<<h>>) = 1
  OBVIOUS
<1>2. Len(s) \in Nat
  BY LenProperties
<1> QED
  BY <1>1, <1>2, ConcatProperties

(* A request read is served next: its answer takes its place. *)
LEMMA RequestLight ==
  ASSUME TypeOK, TypeOK', IsFiniteSet(Thread), OutIdle, Bounded, NEW x \in Conn, link[x],
         WorkersWired', ParseRequest(x)
  PROVE  PairBounded(x)' /\ PairBounded(Peer[x])'
<1> USE DEF nodeVars, threadVars, reqVars, workVars, listVars, netVars
<1> DEFINE y == Peer[x]
<1>1. y \in Conn /\ Peer[y] = x /\ y # x
  BY ConstAssumption
<1>2. /\ queue' = queue /\ hand' = hand /\ net' = net
      /\ wpc[x] = "parse" /\ wpc'[x] = "respond"
      /\ rbuf[x] # <<>> /\ rbuf' = [rbuf EXCEPT ![x] = Tail(@)]
      /\ Head(rbuf[x]).type = "VALUE_REQUEST"
      /\ out[x] = NoPacket /\ out'[y] = out[y] /\ rbuf'[y] = rbuf[y]
  <2>1. /\ queue' = queue /\ hand' = hand /\ net' = net
        /\ wpc[x] = "parse" /\ wpc' = [wpc EXCEPT ![x] = "respond"]
        /\ rbuf[x] # <<>> /\ rbuf' = [rbuf EXCEPT ![x] = Tail(@)]
        /\ Head(rbuf[x]).type = "VALUE_REQUEST"
        /\ \E p : out' = [out EXCEPT ![x] = p]
    BY DEF ParseRequest
  <2>2. wpc'[x] = "respond"
    BY <2>1 DEF TypeOK
  <2>3. out[x] = NoPacket
    BY <2>1 DEF OutIdle, Sends
  <2>4. out'[y] = out[y] /\ rbuf'[y] = rbuf[y]
    BY <1>1, <2>1 DEF TypeOK
  <2> QED
    BY <2>1, <2>2, <2>3, <2>4
<1>3. Asked(y) = <<Head(rbuf[x])>> \o Asked(y)' /\ Asked(y)' \in Seq(Packet)
  BY <1>2, TakeKinds
<1>4. Head(rbuf[x]) \in Packet
  <2>1. rbuf[x] \in Seq(Packet)
    BY DEF TypeOK
  <2> QED
    BY <1>2, <2>1, HeadTailProperties
<1>5. Unread(y) = Unread(y)' + 1 /\ Unread(y)' \in Nat
  <2>1. Unread(y) = Len(<<Head(rbuf[x])>> \o Asked(y)') /\ Unread(y)' = Len(Asked(y)')
    BY <1>3 DEF Unread
  <2>2. /\ Len(<<Head(rbuf[x])>> \o Asked(y)') = 1 + Len(Asked(y)')
        /\ Len(Asked(y)') \in Nat
    BY <1>3, <1>4, OneMore
  <2> QED
    BY <2>1, <2>2
<1>6. Asked(x)' = Asked(x)
  <2>1. PICK q \in Packet : /\ out' = [out EXCEPT ![x] = q] /\ q.type = "VALUE_RESPONSE"
    <3>1. \E k, v : out' = [out EXCEPT ![x] = ValueResponse(k, v)]
      BY DEF ParseRequest
    <3>2. PICK k, v : out' = [out EXCEPT ![x] = ValueResponse(k, v)]
      BY <3>1
    <3>3. out'[x] = ValueResponse(k, v) /\ out'[x] \in Packet
      BY <1>2, <3>2 DEF TypeOK, WorkersWired, Sends
    <3>4. ValueResponse(k, v).type = "VALUE_RESPONSE"
      BY DEF ValueResponse
    <3> QED
      BY <3>2, <3>3, <3>4
  <2>2. q.type # "VALUE_REQUEST"
    BY <2>1
  <2>3. Asked(x)' = IF q.type = "VALUE_REQUEST" THEN Append(Asked(x), q) ELSE Asked(x)
    BY <1>2, <2>1, SendKinds
  <2> QED
    BY <2>2, <2>3
<1>7. Unread(x)' = Unread(x)
  BY <1>6 DEF Unread
<1>8. /\ Serves(x) = 0 /\ Serves(x)' = 1 /\ Owes(x) = 1 /\ Owes(x)' = 1
      /\ ToSend(x)' = ToSend(x) /\ InNet(x)' = InNet(x) /\ InNet(y)' = InNet(y)
  BY <1>2 DEF Serves, Owes, ToSend, InNet
<1>9. InSend(x) = 0 /\ InSend(x)' \in {0, 1}
  BY <1>2, SendingLength
<1>10. AmountsOK /\ AmountsOK' /\ Worker(x)
  BY AmountsAlways DEF Worker
<1> HIDE DEF y
<1>11. /\ Unread(x)' + Unread(y)' + Serves(x)' + ToSend(x)'
           <= Unread(x) + Unread(y) + Serves(x) + ToSend(x)
       /\ InNet(x)' + InNet(y)' + Unread(x)' + Unread(y)' + InSend(x)' + Owes(x)'
           + 2 * ToSend(x)'
           <= InNet(x) + InNet(y) + Unread(x) + Unread(y) + InSend(x) + Owes(x)
              + 2 * ToSend(x)
  BY <1>1, <1>5, <1>7, <1>8, <1>9, <1>10 DEF AmountsOK
<1> QED
  BY <1>10, <1>11, PairStep DEF y

(* A packet sent is in the socket and not in the worker's hands. *)
LEMMA SendLight ==
  ASSUME TypeOK, TypeOK', IsFiniteSet(Thread), Bounded, LinkSym', NEW x \in Conn, link[x],
         out[x] \in Packet, SendResponse(x) \/ SendKeys(x) \/ SendRequest(x)
  PROVE  PairBounded(x)' /\ PairBounded(Peer[x])'
<1> USE DEF nodeVars, threadVars, reqVars, workVars, listVars, netVars
<1> DEFINE y == Peer[x]
<1>1. y \in Conn /\ Peer[y] = x /\ y # x
  BY ConstAssumption
<1>2. /\ queue' = queue /\ hand' = hand /\ Send(x) /\ UNCHANGED <<rbuf, link>>
      /\ \/ wpc[x] = "respond" /\ wpc'[x] = "parse"
         \/ wpc[x] \in {"sendkeys", "sendreq"} /\ wpc'[x] = "check"
  BY DEF SendResponse, SendKeys, SendRequest, TypeOK
<1>3. \A c \in Conn : link[c] => Down(c)' = Down(c)
  BY <1>2, SendDown
<1>4. link[y]
  BY <1>1, <1>2 DEF LinkSym
<1>5. Unread(x)' = Unread(x) /\ Unread(y)' = Unread(y)
  BY <1>1, <1>3, <1>4 DEF Unread, Asked
<1>6. InNet(x)' = InNet(x) /\ InNet(y)' = InNet(y) + 1
  <2>1. net' = [net EXCEPT ![y] = Append(@, out[x])] /\ net \in [Conn -> Seq(Packet)]
    BY <1>2 DEF Send, TypeOK
  <2>2. net'[x] = net[x] /\ net'[y] = Append(net[y], out[x])
    BY <1>1, <2>1
  <2>3. net[y] \in Seq(Packet)
    BY <1>1, <2>1
  <2>4. Len(Append(net[y], out[x])) = Len(net[y]) + 1
    BY <2>3, AppendProperties
  <2> QED
    BY <2>2, <2>4 DEF InNet
<1>7. InSend(x) = 1 /\ InSend(x)' = 0
  <2>1. out[x] # NoPacket
    BY DEF Packet, NoPacket
  <2>2. out'[x] = NoPacket
    BY <1>2 DEF Send, TypeOK
  <2> QED
    BY <2>1, <2>2, SendingLength
<1>8. ToSend(x)' = ToSend(x)
  BY <1>2 DEF ToSend
<1>9. Serves(x)' <= Serves(x) /\ Owes(x)' <= Owes(x)
  BY <1>2 DEF Serves, Owes
<1>10. AmountsOK /\ AmountsOK' /\ Worker(x)
  BY AmountsAlways DEF Worker
<1> HIDE DEF y
<1>11. /\ Unread(x)' + Unread(y)' + Serves(x)' + ToSend(x)'
           <= Unread(x) + Unread(y) + Serves(x) + ToSend(x)
       /\ InNet(x)' + InNet(y)' + Unread(x)' + Unread(y)' + InSend(x)' + Owes(x)'
           + 2 * ToSend(x)'
           <= InNet(x) + InNet(y) + Unread(x) + Unread(y) + InSend(x) + Owes(x)
              + 2 * ToSend(x)
  BY <1>1, <1>5, <1>6, <1>7, <1>8, <1>9, <1>10 DEF AmountsOK
<1> QED
  BY <1>10, <1>11, PairStep DEF y

(* A snapshot of the keys is what a worker at "keys" owed. *)
LEMMA SnapshotLight ==
  ASSUME TypeOK, TypeOK', IsFiniteSet(Thread), OutIdle, Bounded, NEW x \in Conn, link[x],
         SnapshotKeys(x)
  PROVE  PairBounded(x)' /\ PairBounded(Peer[x])'
<1> USE DEF nodeVars, threadVars, reqVars, workVars, listVars, netVars
<1> DEFINE y == Peer[x]
           q == KeyList(store[Owner[x]])
<1>1. y \in Conn /\ Peer[y] = x /\ y # x
  BY ConstAssumption
<1>2. /\ queue' = queue /\ hand' = hand /\ net' = net /\ rbuf' = rbuf
      /\ wpc[x] = "keys" /\ wpc'[x] = "sendkeys"
      /\ out[x] = NoPacket /\ out' = [out EXCEPT ![x] = q]
  BY DEF SnapshotKeys, TypeOK, OutIdle, Sends
<1>3. q \in Packet /\ q.type = "KEY_LIST"
  BY ConstAssumption DEF TypeOK, KeyList, Packet
<1> HIDE DEF q
<1>4. Asked(x)' = Asked(x)
  BY <1>2, <1>3, SendKinds
<1>5. Asked(y)' = Asked(y)
  <2>1. out'[y] = out[y]
    BY <1>1, <1>2 DEF TypeOK
  <2>2. Down(x)' = Down(x)
    BY <1>2, <2>1, DownKept
  <2> QED
    BY <1>1, <2>2 DEF Asked
<1>6. Unread(x)' = Unread(x) /\ Unread(y)' = Unread(y)
  BY <1>4, <1>5 DEF Unread
<1>7. /\ Serves(x) = 0 /\ Serves(x)' = 0 /\ Owes(x) = 1 /\ Owes(x)' = 0
      /\ ToSend(x)' = ToSend(x) /\ InNet(x)' = InNet(x) /\ InNet(y)' = InNet(y)
  BY <1>2 DEF Serves, Owes, ToSend, InNet
<1>8. InSend(x) = 0 /\ InSend(x)' \in {0, 1}
  BY <1>2, SendingLength
<1>9. AmountsOK /\ AmountsOK' /\ Worker(x)
  BY AmountsAlways DEF Worker
<1> HIDE DEF y
<1>10. /\ Unread(x)' + Unread(y)' + Serves(x)' + ToSend(x)'
           <= Unread(x) + Unread(y) + Serves(x) + ToSend(x)
       /\ InNet(x)' + InNet(y)' + Unread(x)' + Unread(y)' + InSend(x)' + Owes(x)'
           + 2 * ToSend(x)'
           <= InNet(x) + InNet(y) + Unread(x) + Unread(y) + InSend(x) + Owes(x)
              + 2 * ToSend(x)
  BY <1>1, <1>6, <1>7, <1>8, <1>9 DEF AmountsOK
<1> QED
  BY <1>9, <1>10, PairStep DEF y

(* _check_requests takes a request in hand. *)
LEMMA CheckLight ==
  ASSUME TypeOK, TypeOK', IsFiniteSet(Thread), WorkersWired, WorkersWired', Bounded,
         NEW x \in Conn, link[x], CheckRequests(x)
  PROVE  PairBounded(x)' /\ PairBounded(Peer[x])'
<1> USE DEF nodeVars, threadVars, reqVars, workVars, listVars, netVars
<1> DEFINE y == Peer[x]
<1>1. y \in Conn /\ Peer[y] = x /\ y # x
  BY ConstAssumption
<1>2. /\ net' = net /\ rbuf' = rbuf /\ out' = out
      /\ wpc[x] = "check" /\ wpc'[x] \in {"loop", "move"} /\ hand[x] = NoRequest
  BY DEF CheckRequests, TypeOK, WorkersWired
<1>3. Unread(x)' = Unread(x) /\ Unread(y)' = Unread(y)
  BY <1>1, <1>2, DownKept DEF Unread, Asked
<1>4. ToSend(x)' = ToSend(x)
  <2>1. CASE queue[x] = <<>>
    BY <2>1 DEF CheckRequests, ToSend
  <2>2. CASE queue[x] # <<>>
    <3>1. queue'[x] = Tail(queue[x]) /\ wpc'[x] = "move" /\ queue[x] \in Seq(Request)
      BY <2>2 DEF CheckRequests, TypeOK
    <3>2. hand'[x] # NoRequest
      BY <3>1 DEF WorkersWired
    <3>3. Len(Tail(queue[x])) = Len(queue[x]) - 1 /\ Len(queue[x]) \in Nat
      BY <2>2, <3>1, HeadTailProperties, LenProperties
    <3>4. ToSend(x)' = Len(Tail(queue[x])) + 1
      BY <3>1, <3>2 DEF ToSend
    <3>5. ToSend(x) = Len(queue[x]) + 0
      BY <1>2 DEF ToSend
    <3> QED
      BY <3>3, <3>4, <3>5
  <2> QED
    BY <2>1, <2>2
<1>5. /\ Serves(x) = 0 /\ Serves(x)' = 0 /\ Owes(x) = 0 /\ Owes(x)' = 0
      /\ InSend(x)' = InSend(x) /\ InNet(x)' = InNet(x) /\ InNet(y)' = InNet(y)
  BY <1>2 DEF Serves, Owes, InSend, Sending, InNet
<1>6. AmountsOK /\ AmountsOK' /\ Worker(x)
  BY AmountsAlways DEF Worker
<1> HIDE DEF y
<1>7. /\ Unread(x)' + Unread(y)' + Serves(x)' + ToSend(x)'
           <= Unread(x) + Unread(y) + Serves(x) + ToSend(x)
      /\ InNet(x)' + InNet(y)' + Unread(x)' + Unread(y)' + InSend(x)' + Owes(x)'
           + 2 * ToSend(x)'
           <= InNet(x) + InNet(y) + Unread(x) + Unread(y) + InSend(x) + Owes(x)
              + 2 * ToSend(x)
  BY <1>1, <1>3, <1>4, <1>5, <1>6 DEF AmountsOK
<1> QED
  BY <1>6, <1>7, PairStep DEF y

(* ... and starts to send it: it counts as packet and as unread request. *)
LEMMA MoveLight ==
  ASSUME TypeOK, TypeOK', IsFiniteSet(Thread), OutIdle, WorkersWired, Bounded,
         NEW x \in Conn, link[x], MoveRequest(x)
  PROVE  PairBounded(x)' /\ PairBounded(Peer[x])'
<1> USE DEF nodeVars, threadVars, reqVars, workVars, listVars, netVars
<1> DEFINE y == Peer[x]
           q == ValueRequest(rkey[hand[x]])
<1>1. y \in Conn /\ Peer[y] = x /\ y # x
  BY ConstAssumption
<1>2. /\ queue' = queue /\ net' = net /\ rbuf' = rbuf
      /\ wpc[x] = "move" /\ wpc'[x] = "sendreq"
      /\ hand[x] # NoRequest /\ hand'[x] = NoRequest
      /\ out[x] = NoPacket /\ out' = [out EXCEPT ![x] = q]
  <2>1. /\ queue' = queue /\ net' = net /\ rbuf' = rbuf /\ wpc[x] = "move"
        /\ wpc' = [wpc EXCEPT ![x] = "sendreq"] /\ hand' = [hand EXCEPT ![x] = NoRequest]
        /\ out' = [out EXCEPT ![x] = q]
    BY DEF MoveRequest
  <2>2. wpc'[x] = "sendreq" /\ hand'[x] = NoRequest
    BY <2>1 DEF TypeOK
  <2>3. out[x] = NoPacket
    BY <2>1 DEF OutIdle, Sends
  <2>4. hand[x] # NoRequest
    BY <2>1 DEF WorkersWired
  <2> QED
    BY <2>1, <2>2, <2>3, <2>4
<1>3. q \in Packet /\ q.type = "VALUE_REQUEST"
  <2>1. rkey[hand[x]] \in Key
    BY <1>2 DEF WorkersWired
  <2> QED
    BY <2>1 DEF ValueRequest, Packet
<1> HIDE DEF q
<1>4. Asked(x)' = Append(Asked(x), q)
  BY <1>2, <1>3, SendKinds
<1>5. Unread(x)' = Unread(x) + 1
  <2>1. Asked(x) \in Seq(Packet)
    BY DownType
  <2>2. Len(Append(Asked(x), q)) = Len(Asked(x)) + 1
    BY <1>3, <2>1, AppendProperties
  <2> QED
    BY <1>4, <2>2 DEF Unread
<1>6. Unread(y)' = Unread(y)
  <2>1. out'[y] = out[y]
    BY <1>1, <1>2 DEF TypeOK
  <2>2. Down(x)' = Down(x)
    BY <1>2, <2>1, DownKept
  <2> QED
    BY <1>1, <2>2 DEF Asked, Unread
<1>7. /\ Serves(x) = 0 /\ Serves(x)' = 0 /\ Owes(x) = 0 /\ Owes(x)' = 0
      /\ InNet(x)' = InNet(x) /\ InNet(y)' = InNet(y)
  BY <1>2 DEF Serves, Owes, InNet
<1>8. InSend(x) = 0 /\ InSend(x)' \in {0, 1}
  BY <1>2, SendingLength
<1>9. ToSend(x) = ToSend(x)' + 1
  <2>1. queue[x] \in Seq(Request)
    BY DEF TypeOK
  <2>2. Len(queue[x]) \in Nat
    BY <2>1, LenProperties
  <2>3. ToSend(x) = Len(queue[x]) + 1
    BY <1>2 DEF ToSend
  <2>4. ToSend(x)' = Len(queue[x]) + 0
    BY <1>2 DEF ToSend
  <2> QED
    BY <2>2, <2>3, <2>4
<1>10. AmountsOK /\ AmountsOK' /\ Worker(x)
  BY AmountsAlways DEF Worker
<1> HIDE DEF y
<1>11. /\ Unread(x)' + Unread(y)' + Serves(x)' + ToSend(x)'
           <= Unread(x) + Unread(y) + Serves(x) + ToSend(x)
       /\ InNet(x)' + InNet(y)' + Unread(x)' + Unread(y)' + InSend(x)' + Owes(x)'
           + 2 * ToSend(x)'
           <= InNet(x) + InNet(y) + Unread(x) + Unread(y) + InSend(x) + Owes(x)
              + 2 * ToSend(x)
  BY <1>1, <1>5, <1>6, <1>7, <1>8, <1>9, <1>10 DEF AmountsOK
<1> QED
  BY <1>10, <1>11, PairStep DEF y


(* A receive takes packets off the socket, or finds it empty; the worker    *)
(* then owes a key list, and has nothing else under way.                   *)
LEMMA ReceiveLight ==
  ASSUME TypeOK, TypeOK', WorkersWired, IsFiniteSet(Thread), OutIdle, LinkSym, Roomy, Bounded,
         Typed, NEW x \in Conn, link[x], Receive(x)
  PROVE  PairBounded(x)' /\ PairBounded(Peer[x])'
<1> USE DEF nodeVars, threadVars, reqVars, workVars, listVars, netVars
<1> DEFINE y == Peer[x]
           room == RCap - Len(rbuf[x])
           m == IF Len(net[x]) < room THEN Len(net[x]) ELSE room
<1>1. y \in Conn /\ Peer[y] = x /\ y # x
  BY ConstAssumption
<1>2. /\ queue' = queue /\ hand' = hand /\ out' = out /\ wpc[x] = "loop"
      /\ net \in [Conn -> Seq(Packet)] /\ wpc \in [Conn -> WorkerPc]
      /\ out[x] = NoPacket
  BY DEF Receive, TypeOK, OutIdle, Sends
<1>3. /\ Len(net[x]) \in Nat /\ Len(rbuf[x]) \in Nat /\ Len(rbuf[x]) < RCap /\ RCap \in Nat
      /\ net[x] \in Seq(Packet) /\ Cap \in Nat
  BY <1>2, ConstAssumption, LenProperties DEF TypeOK, Roomy
<1>4. Unread(x)' = Unread(x) /\ Unread(y)' = Unread(y)
  <2>1. Down(x)' = Down(x) /\ Down(y)' = Down(y)
    BY <1>1, ReceiveDown
  <2> QED
    BY <1>1, <2>1 DEF Unread, Asked
<1>5. /\ ToSend(x)' = ToSend(x) /\ InSend(x)' = InSend(x) /\ InSend(x) = 0
      /\ Serves(x) = 0 /\ Owes(x) = 0
  BY <1>2, SendingLength DEF ToSend, InSend, Sending, Serves, Owes
<1>6. AmountsOK /\ AmountsOK' /\ Worker(x)
  BY AmountsAlways DEF Worker
<1>7. CASE /\ net[x] # <<>> \/ room = 0
           /\ net' = [net EXCEPT ![x] = SubSeq(@, m + 1, Len(@))]
           /\ wpc' = [wpc EXCEPT ![x] = "parse"]
  <2>1. m \in Nat /\ m >= 1 /\ m <= Len(net[x])
    <3>1. room \in Nat /\ room # 0
      BY <1>3
    <3>2. Len(net[x]) # 0
      BY <1>3, <1>7, <3>1, EmptySeq
    <3> QED
      BY <1>3, <3>1, <3>2
  <2> HIDE DEF m, room
  <2>2. net'[x] = SubSeq(net[x], m + 1, Len(net[x])) /\ net'[y] = net[y] /\ wpc'[x] = "parse"
    BY <1>1, <1>2, <1>7
  <2>3. Len(SubSeq(net[x], m + 1, Len(net[x]))) = Len(net[x]) - m
    BY <1>3, <2>1, DroppedLength
  <2>4. InNet(x)' + 1 <= InNet(x) /\ InNet(y)' = InNet(y)
    BY <1>3, <2>1, <2>2, <2>3 DEF InNet
  <2>5. Serves(x)' = 0 /\ Owes(x)' = 1
    BY <2>2 DEF Serves, Owes
  <2> HIDE DEF y
  <2>6. /\ Unread(x)' + Unread(y)' + Serves(x)' + ToSend(x)'
             <= Unread(x) + Unread(y) + Serves(x) + ToSend(x)
        /\ InNet(x)' + InNet(y)' + Unread(x)' + Unread(y)' + InSend(x)' + Owes(x)'
             + 2 * ToSend(x)'
             <= InNet(x) + InNet(y) + Unread(x) + Unread(y) + InSend(x) + Owes(x)
                + 2 * ToSend(x)
    BY <1>1, <1>4, <1>5, <1>6, <2>4, <2>5 DEF AmountsOK
  <2> QED
    BY <1>6, <2>6, PairStep DEF y
<1>8. CASE /\ net[x] = <<>>
           /\ net' = net
           /\ wpc' = [wpc EXCEPT ![x] = IF finished[x] THEN "done" ELSE "keys"]
  <2>1. InNet(x)' = 0 /\ InNet(y)' = InNet(y) /\ InNet(y) <= Cap
    BY <1>1, <1>8, EmptySeq DEF InNet, Roomy
  <2>2. wpc'[y] = wpc[y] /\ out'[y] = out[y] /\ queue'[y] = queue[y] /\ hand'[y] = hand[y]
    BY <1>1, <1>2, <1>8
  <2>3. /\ InSend(y)' = InSend(y) /\ Serves(y)' = Serves(y)
        /\ Owes(y)' = Owes(y) /\ ToSend(y)' = ToSend(y)
    BY <1>1, <2>2, PeerAmounts
  <2>4. wpc'[x] \in {"done", "keys"}
    BY <1>2, <1>8
  <2>5. Serves(x)' = 0 /\ Owes(x)' <= 1
    BY <2>4 DEF Serves, Owes
  <2>6. InSend(y) + Owes(y) <= 1 + Serves(y)
    <3>1. InSend(y) = IF out[y] = NoPacket THEN 0 ELSE 1
      BY <1>1, SendingLength
    <3>2. wpc[y] \in Sends \/ out[y] = NoPacket
      BY <1>1 DEF OutIdle
    <3>3. CASE wpc[y] = "respond"
      BY <3>1, <3>3 DEF Owes, Serves
    <3>4. CASE wpc[y] \in {"sendkeys", "sendreq"}
      BY <3>1, <3>4 DEF Owes, Serves
    <3>5. CASE wpc[y] \notin Sends
      BY <3>1, <3>2, <3>5 DEF Owes, Serves, Sends
    <3> QED
      BY <3>3, <3>4, <3>5 DEF Sends
  <2>7. Added \subseteq Added'
    <3>1. \A t \in Thread : /\ calls'[t] = calls[t]
                            /\ pc'[t] \in Preparing => pc[t] \in Preparing
      BY <1>6, WorkerLocal DEF Preparing
    <3> QED
      BY <3>1, AddedKept
  <2>8. /\ Cardinality(Added) \in Nat /\ Cardinality(Added)' \in Nat
        /\ Cardinality(Added) <= Cardinality(Added)'
    BY <2>7, AddedMonotone
  <2>9. PairBounded(x)
    BY DEF Bounded
  <2> HIDE DEF y
  <2>10. Asks(x)' = Asks(x) /\ Asks(y)' = Asks(y) /\ Asks(x) \in Nat /\ Asks(y) \in Nat
    BY <1>1, <1>4, <1>5, <1>6, <2>3, <2>5 DEF Asks, AmountsOK
  <2>11. Asks(x) + Asks(y) <= Cardinality(Added)
    BY <2>9 DEF PairBounded, y
  <2>12. /\ Unread(x) \in Nat /\ ToSend(x) \in Nat /\ Owes(x)' \in Nat
         /\ Unread(y) \in Nat /\ ToSend(y) \in Nat /\ Serves(y) \in Nat
         /\ InNet(y) \in Nat /\ InSend(y) \in Nat /\ Owes(y) \in Nat
    BY <1>1, <1>6 DEF AmountsOK
  <2>13. Load(x)' = 0 + 0 + Unread(x) + Owes(x)' + 2 * ToSend(x)
    BY <1>4, <1>5, <2>1 DEF Load
  <2>14. Load(y)' = InNet(y) + InSend(y) + Unread(y) + Owes(y) + 2 * ToSend(y)
    BY <1>4, <2>1, <2>3 DEF Load
  <2>15. Load(x)' <= 1 + Unread(x) + 2 * ToSend(x) /\ Load(x)' \in Nat
    BY <2>5, <2>12, <2>13
  <2>16. /\ Load(y)' <= Cap + 1 + Serves(y) + Unread(y) + 2 * ToSend(y)
         /\ Load(y)' \in Nat
    <3>1. \A k, n, s, u, o, t, v \in Nat :
            n <= k /\ s + o <= 1 + v =>
              /\ n + s + u + o + 2 * t <= k + 1 + v + u + 2 * t
              /\ n + s + u + o + 2 * t \in Nat
      OBVIOUS
    <3>2. Cap \in Nat /\ InNet(y) <= Cap
      BY <1>3, <2>1
    <3>3. /\ InNet(y) + InSend(y) + Unread(y) + Owes(y) + 2 * ToSend(y)
               <= Cap + 1 + Serves(y) + Unread(y) + 2 * ToSend(y)
          /\ InNet(y) + InSend(y) + Unread(y) + Owes(y) + 2 * ToSend(y) \in Nat
      BY <2>6, <2>12, <3>1, <3>2
    <3> QED
      BY <2>14, <3>3
  <2>17. Load(x)' + Load(y)' <= Cap + 2 + 2 * (Asks(x) + Asks(y))
    <3>1. Cap \in Nat /\ Serves(x) = 0
      BY <1>3, <1>5
    <3>2. /\ Asks(x) = Unread(x) + ToSend(x)
          /\ Asks(y) = Unread(y) + Serves(y) + ToSend(y)
      BY <2>12, <3>1 DEF Asks
    <3>3. Serves(y) <= 2 * Serves(y)
      BY <2>12
    <3> QED
      BY <2>12, <2>15, <2>16, <3>1, <3>2, <3>3
  <2>18. /\ Asks(x)' + Asks(y)' <= Cardinality(Added)'
         /\ Load(x)' + Load(y)' <= Cap + 2 + 2 * Cardinality(Added)'
    <3>1. Cap \in Nat
      BY <1>3
    <3>2. Asks(x) + Asks(y) <= Cardinality(Added)'
      BY <2>8, <2>10, <2>11
    <3>3. Load(x)' + Load(y)' <= Cap + 2 + 2 * Cardinality(Added)'
      <4>1. 2 * (Asks(x) + Asks(y)) <= 2 * Cardinality(Added)'
        BY <2>8, <2>10, <3>2
      <4> QED
        BY <2>8, <2>10, <2>15, <2>16, <2>17, <3>1, <4>1
    <3> QED
      BY <2>10, <3>2, <3>3
  <2>19. /\ Asks(y)' + Asks(x)' <= Cardinality(Added)'
         /\ Load(y)' + Load(x)' <= Cap + 2 + 2 * Cardinality(Added)'
    BY <2>10, <2>18, <2>15, <2>16
  <2> QED
    BY <1>1, <2>18, <2>19 DEF PairBounded, y
<1>9. [net EXCEPT ![x] = net[x]] = net
  BY <1>2
<1> QED
  BY <1>7, <1>8, <1>9 DEF Receive


(* Sockets and buffers stay within their capacities. *)
LEMMA StepRoomy ==
  ASSUME Typed, WorkersWired', Roomy, [Next]_vars
  PROVE  Roomy'
<1> USE DEF nodeVars, threadVars, reqVars, workVars, listVars, netVars
<1>0. /\ wpc \in [Conn -> WorkerPc] /\ rbuf \in [Conn -> Seq(Packet)]
      /\ net \in [Conn -> Seq(Packet)] /\ Cap \in Nat \ {0} /\ RCap \in Nat \ {0}
      /\ Len(<<>>) = 0 /\ 0 <= Cap /\ 0 < RCap
  BY ConstAssumption, EmptySeq DEF Typed, TypeOK
<1>1. ASSUME UNCHANGED <<wpc, rbuf, net>>
      PROVE  Roomy'
  BY <1>1 DEF Roomy
<1>2. ASSUME NEW n \in Node, NEW how, NodeDown(n, how)
      PROVE  Roomy'
  BY <1>0, <1>2 DEF Roomy, NodeDown
<1>3. ASSUME NEW x \in Conn, Destroy(x), wpc' = wpc
      PROVE  Roomy'
  BY <1>0, <1>3 DEF Roomy, Destroy
<1>4. ASSUME NEW t \in Thread, NEW k \in Key, Get(t, k) \/ SetCheck(t, k)
      PROVE  Roomy'
  BY <1>1, <1>2, <1>4, ConstAssumption DEF Get, SetCheck
<1>5. ASSUME NEW p \in Proc,
             \/ CleanLock(p) \/ CleanUnlock(p)
             \/ /\ p \in Thread
                /\ \/ SetInsert(p) \/ FindConn(p) \/ AddRequest(p) \/ Wait(p)
                   \/ SpuriousWakeup(p)
      PROVE  Roomy'
  BY <1>1, <1>5 DEF CleanLock, CleanUnlock, SetInsert, FindConn, AddRequest, Wait,
     SpuriousWakeup
<1>6. ASSUME NEW t \in Thread, NEW r \in Request, CreateRequest(t, r)
      PROVE  Roomy'
  BY <1>1, <1>2, <1>6, ConstAssumption DEF CreateRequest
<1>7. ASSUME NEW p \in Proc, NEW c \in Conn, CleanErase(p, c)
      PROVE  Roomy'
  BY <1>1, <1>3, <1>7 DEF CleanErase, Keep
<1>8. ASSUME NEW t \in Thread, Return(t)
      PROVE  Roomy'
  <2>1. tconn[t] \in Conn /\ wpc' = wpc
    BY <1>8 DEF Return, Typed, ThreadsWired, Calling
  <2>2. Destroy(tconn[t]) \/ UNCHANGED <<rbuf, net>>
    BY <1>8 DEF Return, Keep
  <2> QED
    BY <1>1, <1>3, <2>1, <2>2
<1>9. ASSUME NEW x \in Conn, Receive(x)
      PROVE  Roomy'
  <2> DEFINE room == RCap - Len(rbuf[x])
             m == IF Len(net[x]) < room THEN Len(net[x]) ELSE room
  <2>1. CASE /\ net' = [net EXCEPT ![x] = SubSeq(@, m + 1, Len(@))]
             /\ wpc' = [wpc EXCEPT ![x] = "parse"]
             /\ \E b : rbuf' = [rbuf EXCEPT ![x] = b]
    <3>1. Len(net[x]) \in Nat /\ Len(rbuf[x]) \in Nat /\ Len(rbuf[x]) <= RCap
          /\ Len(net[x]) <= Cap /\ net[x] \in Seq(Packet)
      BY <1>0, LenProperties DEF Typed, WorkersWired, Roomy
    <3>2. m \in Nat /\ m <= Len(net[x])
      BY <1>0, <3>1
    <3> HIDE DEF m
    <3>3. Len(SubSeq(net[x], m + 1, Len(net[x]))) = Len(net[x]) - m
      BY <3>1, <3>2, DroppedLength
    <3>4. Len(net'[x]) <= Cap /\ wpc'[x] = "parse"
      BY <1>0, <2>1, <3>1, <3>2, <3>3
    <3>5. \A c \in Conn : c # x => net'[c] = net[c] /\ wpc'[c] = wpc[c] /\ rbuf'[c] = rbuf[c]
      BY <1>0, <2>1
    <3> QED
      BY <3>4, <3>5 DEF Roomy
  <2>2. CASE rbuf' = rbuf /\ \A c \in Conn : net'[c] = net[c] \/ net'[c] = <<>>
    <3>1. wpc[x] # "parse" /\ \A c \in Conn : c # x => wpc'[c] = wpc[c]
      BY <1>0, <1>9 DEF Receive
    <3> QED
      BY <1>0, <2>2, <3>1 DEF Roomy
  <2> QED
    BY <1>0, <1>9, <2>1, <2>2 DEF Receive
<1>10. ASSUME NEW x \in Conn,
              ParseNothing(x) \/ UpdateKeys(x) \/ ParseRequest(x) \/ Deliver(x)
       PROVE  Roomy'
  <2>1. net' = net /\ \A c \in Conn : c # x => wpc'[c] = wpc[c] /\ rbuf'[c] = rbuf[c]
    BY <1>0, <1>10 DEF ParseNothing, UpdateKeys, ParseRequest, Deliver
  <2>2. CASE rbuf[x] = <<>> /\ rbuf' = rbuf
    BY <1>0, <2>1, <2>2 DEF Roomy
  <2>3. CASE rbuf[x] # <<>> /\ rbuf' = [rbuf EXCEPT ![x] = Tail(@)]
    <3>1. rbuf[x] \in Seq(Packet) /\ rbuf'[x] = Tail(rbuf[x]) /\ Len(rbuf[x]) <= RCap
      BY <1>0, <2>3 DEF Typed, WorkersWired
    <3>2. Len(Tail(rbuf[x])) = Len(rbuf[x]) - 1 /\ Len(rbuf[x]) \in Nat
      BY <2>3, <3>1, HeadTailProperties, LenProperties
    <3>3. Len(rbuf'[x]) < RCap
      BY <1>0, <3>1, <3>2
    <3> QED
      BY <2>1, <3>3 DEF Roomy
  <2> QED
    BY <1>10, <2>2, <2>3 DEF ParseNothing, UpdateKeys, ParseRequest, Deliver
<1>11. ASSUME NEW x \in Conn, SendResponse(x) \/ SendKeys(x) \/ SendRequest(x)
       PROVE  Roomy'
  <2>1. /\ Send(x) /\ rbuf' = rbuf /\ wpc[x] \in Sends /\ \E w : wpc' = [wpc EXCEPT ![x] = w]
    BY <1>11 DEF SendResponse, SendKeys, SendRequest, Sends
  <2>2. wpc[x] # "parse" /\ \A c \in Conn : c # x => wpc'[c] = wpc[c]
    BY <1>0, <2>1 DEF Sends
  <2>3. \A c \in Conn : Len(net'[c]) <= Cap
    <3>1. CASE ~link[x]
      BY <2>1, <3>1 DEF Send, Roomy
    <3>2. CASE link[x]
      <4>1. /\ net' = [net EXCEPT ![Peer[x]] = Append(@, out[x])] /\ Len(net[Peer[x]]) < Cap
            /\ Peer[x] \in Conn /\ out[x] \in Packet
        BY <2>1, <3>2, ConstAssumption DEF Send, CanSend, Typed, WorkersWired
      <4>2. net[Peer[x]] \in Seq(Packet)
        BY <1>0, <4>1
      <4>3. /\ Len(Append(net[Peer[x]], out[x])) = Len(net[Peer[x]]) + 1
            /\ Len(net[Peer[x]]) \in Nat
        BY <4>1, <4>2, AppendProperties, LenProperties
      <4>4. Len(net'[Peer[x]]) <= Cap
        BY <1>0, <4>1, <4>3
      <4> QED
        BY <1>0, <4>1, <4>4 DEF Roomy
    <3> QED
      BY <3>1, <3>2
  <2> QED
    BY <2>1, <2>2, <2>3 DEF Roomy
<1>12. ASSUME NEW x \in Conn, SnapshotKeys(x) \/ CheckRequests(x) \/ MoveRequest(x)
       PROVE  Roomy'
  <2>1. /\ UNCHANGED <<rbuf, net>> /\ wpc[x] # "parse"
        /\ \A c \in Conn : c # x => wpc'[c] = wpc[c]
    BY <1>0, <1>12 DEF SnapshotKeys, CheckRequests, MoveRequest
  <2> QED
    BY <2>1 DEF Roomy
<1>13. ASSUME NEW c \in Conn, Reset(c)
       PROVE  Roomy'
  BY <1>1, <1>13 DEF Reset
<1>14. ASSUME NEW n \in Node, Exit(n)
       PROVE  Roomy'
  BY <1>2, <1>14 DEF Exit
<1>15. CASE UNCHANGED vars
  BY <1>1, <1>15 DEF vars
<1>16. CASE Next
  BY <1>4, <1>5, <1>6, <1>7, <1>8, <1>9, <1>10, <1>11, <1>12, <1>13, <1>14, <1>16
  DEF Next, Clean, Worker, Proceed, Call, Proc
<1> QED
  BY <1>15, <1>16

(* No step takes a call back. *)
LEMMA StepAdded ==
  ASSUME Typed, Prepared, [Next]_vars
  PROVE  Added \subseteq Added' /\ Prepared'
<1> USE DEF nodeVars, threadVars, reqVars, workVars, listVars, netVars
<1> DEFINE G == Added \subseteq Added' /\ Prepared'
<1>0. pc \in [Proc -> ThreadPc] /\ \A t \in Thread : t \in Proc /\ t \notin Node
  BY ConstAssumption DEF Typed, TypeOK, Proc
<1>1. ASSUME calls' = calls,
             \A t \in Thread : pc'[t] \in Preparing => pc[t] \in Preparing
      PROVE  G
  BY <1>1, AddedKept
<1>2. ASSUME NEW n \in Node, NEW how, NodeDown(n, how)
      PROVE  G
  BY <1>0, <1>1, <1>2 DEF NodeDown, Preparing
<1> HIDE DEF G
<1>3. ASSUME NEW t \in Thread, NEW k \in Key, Get(t, k)
      PROVE  G
  BY <1>3, GetAdded DEF G, Typed
<1>4. ASSUME NEW t \in Thread, NEW k \in Key, SetCheck(t, k)
      PROVE  G
  BY <1>0, <1>1, <1>2, <1>4, ConstAssumption DEF SetCheck, Preparing
<1>5. ASSUME NEW p \in Proc, CleanLock(p) \/ CleanUnlock(p)
      PROVE  G
  <2>1. calls' = calls /\ \E w : pc' = [pc EXCEPT ![p] = w]
    BY <1>5 DEF CleanLock, CleanUnlock
  <2>2. p \in Thread => pc[p] \in Preparing
    BY <1>0, <1>5 DEF CleanLock, CleanUnlock, Preparing
  <2> QED
    BY <1>0, <1>1, <2>1, <2>2
<1>6. ASSUME NEW t \in Thread, FindConn(t)
      PROVE  G
  <2>1. calls' = calls /\ (\E w : pc' = [pc EXCEPT ![t] = w]) /\ pc[t] \in Preparing
    BY <1>6 DEF FindConn, Preparing
  <2> QED
    BY <1>0, <1>1, <2>1
<1>7. ASSUME NEW t \in Thread, SetInsert(t) \/ AddRequest(t) \/ Wait(t) \/ SpuriousWakeup(t)
      PROVE  G
  <2>1. calls' = calls /\ \E w : pc' = [pc EXCEPT ![t] = w] /\ w \notin Preparing
    <3>1. CASE SetInsert(t)
      <4>1. calls' = calls /\ pc' = [pc EXCEPT ![t] = "idle"]
        BY <3>1 DEF SetInsert
      <4>2. "idle" \notin Preparing
        BY DEF Preparing
      <4> QED
        BY <4>1, <4>2
    <3>2. CASE AddRequest(t)
      <4>1. calls' = calls /\ pc' = [pc EXCEPT ![t] = "added"]
        BY <3>2 DEF AddRequest
      <4>2. "added" \notin Preparing
        BY DEF Preparing
      <4> QED
        BY <4>1, <4>2
    <3>3. CASE Wait(t) \/ SpuriousWakeup(t)
      BY <3>3 DEF Wait, SpuriousWakeup, Preparing
    <3> QED
      BY <1>7, <3>1, <3>2, <3>3
  <2> QED
    BY <1>0, <1>1, <2>1
<1>8. ASSUME NEW t \in Thread, NEW r \in Request, CreateRequest(t, r)
      PROVE  G
  <2>1. CASE NodeDown(Home[t], "aborted")
    BY <1>2, <2>1, ConstAssumption
  <2>2. CASE calls' = calls /\ pc' = [pc EXCEPT ![t] = "created"] /\ pc[t] = "found"
    BY <1>0, <1>1, <2>2 DEF Preparing
  <2> QED
    BY <1>8, <2>1, <2>2 DEF CreateRequest
<1>9. ASSUME NEW p \in Proc, NEW c \in Conn, CleanErase(p, c)
      PROVE  G
  <2>1. calls' = calls /\ (pc' = pc \/ \E R : pc' = Notify(pc, R))
    BY <1>9 DEF CleanErase
  <2>2. \A t \in Thread : pc'[t] = pc[t] \/ pc'[t] = "woken"
    BY <1>0, <2>1 DEF Notify
  <2> QED
    BY <1>1, <2>1, <2>2 DEF Preparing
<1>10. ASSUME NEW t \in Thread, Return(t)
       PROVE  G
  <2> DEFINE gone == [pc EXCEPT ![t] = "idle"]
  <2>1. calls' = calls /\ (pc' = gone \/ \E R : pc' = Notify(gone, R))
    BY <1>10 DEF Return
  <2>2. \A u \in Thread : gone[u] = pc[u] \/ gone[u] = "idle"
    BY <1>0
  <2> HIDE DEF gone
  <2>3. \A u \in Thread : pc'[u] = gone[u] \/ pc'[u] = "woken"
    BY <1>0, <2>1 DEF Notify
  <2> QED
    BY <1>1, <2>1, <2>2, <2>3 DEF Preparing
<1>11. ASSUME NEW x \in Conn, Worker(x)
       PROVE  G
  <2>1. calls' = calls /\ \A t \in Thread : pc'[t] = pc[t] \/ pc'[t] = "woken"
    BY <1>11, WorkerLocal DEF Typed
  <2> QED
    BY <1>1, <2>1 DEF Preparing
<1>12. ASSUME NEW c \in Conn, Reset(c)
       PROVE  G
  BY <1>1, <1>12 DEF Reset
<1>13. ASSUME NEW n \in Node, Exit(n)
       PROVE  G
  BY <1>2, <1>13 DEF Exit
<1>14. ASSUME UNCHANGED vars
       PROVE  G
  BY <1>1, <1>14 DEF vars
<1>15. G
  BY <1>3, <1>4, <1>5, <1>6, <1>7, <1>8, <1>9, <1>10, <1>11, <1>12, <1>13, <1>14
  DEF Next, Clean, Proceed, Call, Proc
<1> QED
  BY <1>15 DEF G

(* A step that changes no connection's load, or ends it, keeps the bound.   *)
LEMMA BoundedFrame ==
  ASSUME TypeOK, IsFiniteSet(Thread), LinkSym', Bounded, Added \subseteq Added',
         \A c \in Conn : link'[c] => link[c] /\ Asks(c)' = Asks(c) /\ Load(c)' = Load(c)
  PROVE  Bounded'
<1> SUFFICES ASSUME NEW c \in Conn, link'[c]
             PROVE  PairBounded(c)'
  BY DEF Bounded
<1>1. Peer[c] \in Conn /\ link'[Peer[c]]
  BY ConstAssumption DEF LinkSym
<1>2. PairBounded(c)
  BY DEF Bounded
<1> QED
  BY <1>1, <1>2, BoundKept

(* What a connection has under way depends on these variables only. *)
LEMMA UnderWayKept ==
  ASSUME NEW c \in Conn, wpc'[c] = wpc[c], out'[c] = out[c], queue'[c] = queue[c],
         hand'[c] = hand[c], net'[c] = net[c],
         rbuf'[Peer[c]] = rbuf[Peer[c]], net'[Peer[c]] = net[Peer[c]]
  PROVE  Asks(c)' = Asks(c) /\ Load(c)' = Load(c)
<1>1. Peer[c] \in Conn /\ Peer[Peer[c]] = c
  BY ConstAssumption
<1>2. Down(Peer[c])' = Down(Peer[c])
  BY <1>1, DownKept
<1>3. Asked(c)' = Asked(c)
  BY <1>2 DEF Asked
<1> QED
  BY <1>3, AmountsKept

(* add_request gives one connection one more request to send. *)
LEMMA AddRequestBounded ==
  ASSUME Typed, IsFiniteSet(Thread), Prepared, Bounded, NEW t \in Thread, AddRequest(t)
  PROVE  Bounded'
<1> USE DEF nodeVars, threadVars, reqVars, workVars, listVars, netVars
<1>0. tconn[t] \in Conn /\ treq[t] \in Request
  BY DEF AddRequest, Typed, ThreadsWired, Calling, Requesting
<1>1. PICK z \in Conn : z = tconn[t]
  BY <1>0
<1>2. /\ queue' = [queue EXCEPT ![z] = Append(@, treq[t])]
      /\ UNCHANGED <<wpc, out, hand, net, rbuf, link>> /\ queue \in [Conn -> Seq(Request)]
  BY <1>1 DEF AddRequest, Typed, TypeOK
<1>3. Cardinality(Added) \in Nat /\ Cardinality(Added)' = Cardinality(Added) + 1
  BY AddRequestAdded DEF Typed
<1>4. AmountsOK
  BY AmountsAlways DEF Typed
<1>5. ASSUME NEW c \in Conn, c # z
      PROVE  Asks(c)' = Asks(c) /\ Load(c)' = Load(c)
  BY <1>1, <1>2, <1>5, UnderWayKept
<1>6. Asks(z)' = Asks(z) + 1 /\ Load(z)' = Load(z) + 2
  <2>1. queue'[z] = Append(queue[z], treq[t]) /\ queue[z] \in Seq(Request)
    BY <1>1, <1>2
  <2>2. Len(queue'[z]) = Len(queue[z]) + 1 /\ Len(queue[z]) \in Nat
    BY <1>0, <2>1, AppendProperties, LenProperties
  <2>3. ToSend(z)' = ToSend(z) + 1
    <3>1. CASE hand[z] = NoRequest
      BY <1>2, <2>2, <3>1 DEF ToSend
    <3>2. CASE hand[z] # NoRequest
      BY <1>2, <2>2, <3>2 DEF ToSend
    <3> QED
      BY <3>1, <3>2
  <2>4. /\ InNet(z)' = InNet(z) /\ InSend(z)' = InSend(z) /\ Serves(z)' = Serves(z)
        /\ Owes(z)' = Owes(z) /\ Unread(z)' = Unread(z)
    BY <1>2 DEF InNet, InSend, Sending, Serves, Owes, Unread, Asked, Down
  <2> QED
    BY <1>1, <1>4, <2>3, <2>4 DEF Asks, Load, AmountsOK
<1>7. ASSUME NEW c \in Conn, link'[c]
      PROVE  PairBounded(c)'
  <2>1. PairBounded(c) /\ Peer[c] \in Conn /\ Peer[c] # c /\ Cap \in Nat
    BY <1>2, <1>7, ConstAssumption DEF Bounded
  <2>2. /\ Asks(c) \in Nat /\ Asks(Peer[c]) \in Nat
        /\ Load(c) \in Nat /\ Load(Peer[c]) \in Nat
    BY <1>4, <2>1 DEF Asks, Load, AmountsOK
  <2>3. /\ Asks(c)' + Asks(Peer[c])' <= Asks(c) + Asks(Peer[c]) + 1
        /\ Load(c)' + Load(Peer[c])' <= Load(c) + Load(Peer[c]) + 2
        /\ Asks(c)' + Asks(Peer[c])' \in Nat /\ Load(c)' + Load(Peer[c])' \in Nat
    <3>1. CASE c = z
      BY <1>5, <1>6, <2>1, <2>2, <3>1
    <3>2. CASE Peer[c] = z
      BY <1>5, <1>6, <2>1, <2>2, <3>2
    <3>3. CASE c # z /\ Peer[c] # z
      BY <1>5, <2>1, <2>2, <3>3
    <3> QED
      BY <3>1, <3>2, <3>3
  <2>4. /\ Asks(c)' + Asks(Peer[c])' <= Cardinality(Added)'
        /\ Load(c)' + Load(Peer[c])' <= Cap + 2 + 2 * Cardinality(Added)'
    BY <1>3, <2>1, <2>2, <2>3 DEF PairBounded
  <2> QED
    BY <2>4 DEF PairBounded
<1> QED
  BY <1>7 DEF Bounded


(* Every action keeps the bound. *)
LEMMA StepBounded ==
  ASSUME IsFiniteSet(Thread), Typed, Typed', OutIdle, LinkSym, Prepared, Roomy, Bounded,
         [Next]_vars
  PROVE  Bounded'
<1> USE DEF nodeVars, threadVars, reqVars, workVars, listVars, netVars
<1>0. /\ LinkSym' /\ Added \subseteq Added' /\ \A c \in Conn : link'[c] => link[c]
      /\ TypeOK /\ TypeOK' /\ WorkersWired /\ WorkersWired'
      /\ \A c \in Conn : Peer[c] \in Conn /\ Peer[Peer[c]] = c /\ Peer[c] # c
  BY StepLink, StepAdded, ConstAssumption DEF Typed
<1>1. ASSUME UNCHANGED <<wpc, out, queue, hand, net, rbuf>>
      PROVE  Bounded'
  BY <1>0, <1>1, UnderWayKept, BoundedFrame
<1>2. ASSUME NEW n \in Node, NEW how, NodeDown(n, how)
      PROVE  Bounded'
  <2>1. ASSUME NEW c \in Conn, link'[c]
        PROVE  /\ link[c] /\ Asks(c)' = Asks(c) /\ Load(c)' = Load(c)
    <3>1. link[c] /\ Owner[c] # n /\ Owner[Peer[c]] # n
      BY <1>2, <2>1 DEF NodeDown
    <3>2. /\ wpc'[c] = wpc[c] /\ out'[c] = out[c] /\ queue'[c] = queue[c]
          /\ hand'[c] = hand[c] /\ net'[c] = net[c]
          /\ rbuf'[Peer[c]] = rbuf[Peer[c]] /\ net'[Peer[c]] = net[Peer[c]]
      BY <1>0, <1>2, <3>1 DEF NodeDown
    <3> QED
      BY <3>1, <3>2, UnderWayKept
  <2> QED
    BY <1>0, <2>1, BoundedFrame
<1>3. ASSUME NEW x \in Conn, Destroy(x), UNCHANGED <<wpc, out, hand>>
      PROVE  Bounded'
  <2>1. ASSUME NEW c \in Conn, link'[c]
        PROVE  /\ link[c] /\ Asks(c)' = Asks(c) /\ Load(c)' = Load(c)
    <3>1. c # x /\ Peer[c] # x /\ link[c]
      BY <1>0, <1>3, <2>1 DEF Destroy, TypeOK
    <3>2. /\ queue'[c] = queue[c] /\ net'[c] = net[c]
          /\ rbuf'[Peer[c]] = rbuf[Peer[c]] /\ net'[Peer[c]] = net[Peer[c]]
      BY <1>0, <1>3, <3>1 DEF Destroy, TypeOK
    <3> QED
      BY <1>3, <3>1, <3>2, UnderWayKept
  <2> QED
    BY <1>0, <2>1, BoundedFrame
<1>4. ASSUME NEW t \in Thread, NEW k \in Key, Get(t, k) \/ SetCheck(t, k)
      PROVE  Bounded'
  BY <1>1, <1>2, <1>4, ConstAssumption DEF Get, SetCheck
<1>5. ASSUME NEW p \in Proc,
             \/ CleanLock(p) \/ CleanUnlock(p)
             \/ /\ p \in Thread
                /\ \/ SetInsert(p) \/ FindConn(p) \/ Wait(p) \/ SpuriousWakeup(p)
      PROVE  Bounded'
  BY <1>1, <1>5 DEF CleanLock, CleanUnlock, SetInsert, FindConn, Wait, SpuriousWakeup
<1>6. ASSUME NEW t \in Thread, AddRequest(t)
      PROVE  Bounded'
  BY <1>6, AddRequestBounded
<1>7. ASSUME NEW t \in Thread, NEW r \in Request, CreateRequest(t, r)
      PROVE  Bounded'
  BY <1>1, <1>2, <1>7, ConstAssumption DEF CreateRequest
<1>8. ASSUME NEW p \in Proc, NEW c \in Conn, CleanErase(p, c)
      PROVE  Bounded'
  BY <1>1, <1>3, <1>8 DEF CleanErase, Keep
<1>9. ASSUME NEW t \in Thread, Return(t)
      PROVE  Bounded'
  <2>1. tconn[t] \in Conn /\ UNCHANGED <<wpc, out, hand>>
    BY <1>9 DEF Return, Typed, ThreadsWired, Calling
  <2>2. Destroy(tconn[t]) \/ UNCHANGED <<queue, rbuf, net>>
    BY <1>9 DEF Return, Keep
  <2> QED
    BY <1>1, <1>3, <2>1, <2>2
<1>10. ASSUME NEW x \in Conn, Worker(x)
       PROVE  Bounded'
  <2>1. ASSUME link[x], Receive(x)
        PROVE  PairBounded(x)' /\ PairBounded(Peer[x])'
    BY <1>0, <2>1, ReceiveLight
  <2>2. ASSUME link[x], ParseNothing(x) \/ UpdateKeys(x) \/ Deliver(x)
        PROVE  PairBounded(x)' /\ PairBounded(Peer[x])'
    BY <1>0, <2>2, ParseLight
  <2>3. ASSUME link[x], ParseRequest(x)
        PROVE  PairBounded(x)' /\ PairBounded(Peer[x])'
    BY <1>0, <2>3, RequestLight
  <2>4. ASSUME link[x], SendResponse(x) \/ SendKeys(x) \/ SendRequest(x)
        PROVE  PairBounded(x)' /\ PairBounded(Peer[x])'
    <3>1. wpc[x] \in Sends
      BY <2>4 DEF SendResponse, SendKeys, SendRequest, Sends
    <3>2. out[x] \in Packet
      BY <1>0, <3>1 DEF WorkersWired
    <3> QED
      BY <1>0, <2>4, <3>2, SendLight
  <2>5. ASSUME link[x], SnapshotKeys(x)
        PROVE  PairBounded(x)' /\ PairBounded(Peer[x])'
    BY <1>0, <2>5, SnapshotLight
  <2>6. ASSUME link[x], CheckRequests(x)
        PROVE  PairBounded(x)' /\ PairBounded(Peer[x])'
    BY <1>0, <2>6, CheckLight
  <2>7. ASSUME link[x], MoveRequest(x)
        PROVE  PairBounded(x)' /\ PairBounded(Peer[x])'
    BY <1>0, <2>7, MoveLight
  <2>8. link[x] => PairBounded(x)' /\ PairBounded(Peer[x])'
    BY <1>10, <2>1, <2>2, <2>3, <2>4, <2>5, <2>6, <2>7 DEF Worker
  <2> QED
    BY <1>0, <1>10, <2>8, PairSuffices
<1>11. ASSUME NEW c \in Conn, Reset(c)
       PROVE  Bounded'
  BY <1>1, <1>11 DEF Reset
<1>12. ASSUME NEW n \in Node, Exit(n)
       PROVE  Bounded'
  BY <1>2, <1>12 DEF Exit
<1>13. CASE UNCHANGED vars
  BY <1>1, <1>13 DEF vars
<1>14. CASE Next
  BY <1>4, <1>5, <1>6, <1>7, <1>8, <1>9, <1>10, <1>11, <1>12, <1>14
  DEF Next, Clean, Proceed, Call, Proc
<1> QED
  BY <1>13, <1>14

(* Two workers stuck in _send_packet have filled both sockets and hold a    *)
(* packet each: more than the reads account for.                           *)
LEMMA BoundedNoBlock ==
  ASSUME IsFiniteSet(Thread), Cap > 2 * (Cardinality(Thread) * MaxCalls), Typed, LinkSym,
         Roomy, Bounded
  PROVE  NoMutualSendBlock
<1> SUFFICES ASSUME NEW c \in Conn,
                    \A d \in {c, Peer[c]} : wpc[d] \in Sends /\ ~CanSend(d)
             PROVE  FALSE
  BY DEF NoMutualSendBlock, Sends
<1> DEFINE y == Peer[c]
<1>1. y \in Conn /\ Peer[y] = c /\ Cap \in Nat /\ MaxCalls \in Nat
  BY ConstAssumption
<1>2. link[c] /\ ~(Len(net[y]) < Cap) /\ ~(Len(net[c]) < Cap)
  BY <1>1 DEF CanSend
<1>3. out[c] \in Packet /\ out[y] \in Packet
  BY <1>1 DEF Typed, WorkersWired
<1>4. NoPacket \notin Packet
  BY DEF Packet, NoPacket
<1>5. InSend(c) = 1 /\ InSend(y) = 1
  BY <1>1, <1>3, <1>4, SendingLength
<1>6. AmountsOK
  BY AmountsAlways DEF Typed
<1>7. PairBounded(c)
  BY <1>2 DEF Bounded
<1> HIDE DEF y
<1>8. InNet(c) >= Cap /\ InNet(y) >= Cap
  <2>1. InNet(c) \in Nat /\ InNet(y) \in Nat
    BY <1>1, <1>6 DEF AmountsOK
  <2> QED
    BY <1>1, <1>2, <2>1 DEF InNet
<1>9. /\ InNet(c) \in Nat /\ Unread(c) \in Nat /\ Owes(c) \in Nat /\ ToSend(c) \in Nat
      /\ InNet(y) \in Nat /\ Unread(y) \in Nat /\ Owes(y) \in Nat /\ ToSend(y) \in Nat
  BY <1>1, <1>6 DEF AmountsOK
<1>10. Load(c) >= Cap + 1 /\ Load(y) >= Cap + 1 /\ Load(c) \in Nat /\ Load(y) \in Nat
  BY <1>1, <1>5, <1>8, <1>9 DEF Load
<1>11. PICK a \in Nat : a = Cardinality(Added)
  BY AddedFinite
<1>12. PICK n \in Nat : n = Cardinality(Thread) * MaxCalls
  <2>1. Cardinality(Thread) \in Nat
    BY AddedFinite
  <2> QED
    BY <1>1, <2>1
<1>13. a <= n /\ Cap > 2 * n
  BY <1>11, <1>12, AddedFinite
<1>14. Load(c) + Load(y) <= Cap + 2 + 2 * a
  BY <1>7, <1>11 DEF PairBounded, y
<1> QED
  BY <1>1, <1>10, <1>13, <1>14

(* connection.cpp:76, the endless loop of _send_packet: with more room in a *)
(* socket than twice the reads all threads begin, two workers never wait    *)
(* for each other to read, whatever fails.  CtC_backlog shows a block with *)
(* less room.                                                              *)
THEOREM RoomForReads ==
  ASSUME IsFiniteSet(Thread), Cap > 2 * (Cardinality(Thread) * MaxCalls)
  PROVE  Spec => []NoMutualSendBlock
<1> DEFINE IInv == OutIdle /\ LinkSym /\ Prepared /\ Roomy /\ Bounded
<1>1. Init => IInv
  <2> SUFFICES ASSUME Init
               PROVE  IInv
    OBVIOUS
  <2>1. OutIdle /\ LinkSym
    BY ConstAssumption DEF Init, OutIdle, LinkSym
  <2>2. Prepared
    BY DEF Init, Prepared, Preparing, Proc
  <2>3. Len(<<>>) = 0 /\ Cap \in Nat /\ RCap \in Nat \ {0}
    BY EmptySeq, ConstAssumption
  <2>4. Roomy
    BY <2>3 DEF Init, Roomy
  <2>5. ASSUME NEW c \in Conn
        PROVE  Asks(c) = 0 /\ Load(c) = 0
    <3>1. /\ rbuf[Peer[c]] = <<>> /\ net[Peer[c]] = <<>> /\ Sending(c) = <<>>
          /\ Peer[Peer[c]] = c
      BY ConstAssumption DEF Init, Sending
    <3>2. Down(Peer[c]) = <<>>
      BY <3>1, EmptySeq, ConcatEmptySeq DEF Down, Row
    <3>3. Unread(c) = 0
      BY <2>3, <3>2, OfTypeEmpty DEF Unread, Asked, RequestsIn
    <3>4. InNet(c) = 0 /\ InSend(c) = 0 /\ Serves(c) = 0 /\ Owes(c) = 0 /\ ToSend(c) = 0
      BY <2>3, <3>1 DEF Init, InNet, InSend, Serves, Owes, ToSend
    <3> QED
      BY <3>3, <3>4 DEF Asks, Load
  <2>6. Cardinality(Added) \in Nat
    BY AddedFinite
  <2>7. Bounded
    BY <2>3, <2>5, <2>6, ConstAssumption DEF Bounded, PairBounded
  <2> QED
    BY <2>1, <2>2, <2>4, <2>7
<1>2. Typed /\ Typed' /\ IInv /\ [Next]_vars => IInv'
  <2> SUFFICES ASSUME Typed, Typed', IInv, [Next]_vars
               PROVE  IInv'
    OBVIOUS
  <2>1. WorkersWired'
    BY DEF Typed
  <2> QED
    BY <2>1, StepIdle, StepLink, StepAdded, StepRoomy, StepBounded
<1>3. Typed /\ IInv => NoMutualSendBlock
  BY BoundedNoBlock
<1> HIDE DEF IInv
<1> QED
  BY <1>1, <1>2, <1>3, TypedInvariant, PTL DEF Spec

=============================================================================
