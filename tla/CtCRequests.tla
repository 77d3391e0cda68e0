---------------------------- MODULE CtCRequests ----------------------------
(***************************************************************************)
(* Remote reads between eau2 nodes.  An application thread calls           *)
(* KVStore::get for a key that another node advertised; Client::get_value  *)
(* finds the CtCConnection to that node, hands it a ValueRequest and waits *)
(* on the request's condition variable.  The connection's worker thread    *)
(* sends the request, receives and parses packets, answers the peer's      *)
(* requests from the local map, delivers answers and wakes the waiter.     *)
(*                                                                         *)
(* A connection end (a CtCConnection object) is an element of Conn; the    *)
(* object at the other end of its socket is Peer[c].  Packets arrive whole *)
(* and in order: the byte stream itself is a concern of Connection::unpack *)
(* and Packet and is not modelled here.  The module starts from connected  *)
(* and identified connections.                                             *)
(*                                                                         *)
(* Mutexes are not variables, a program counter says who holds one:        *)
(*   _request_queue_mutex of c   c's worker, while wpc[c] = "move"         *)
(*   mutex of a ValueRequest     its thread, at "created" and "added"      *)
(*   _connections_mutex of n     a thread of n, while "cleaning"           *)
(* Sections that neither block nor are observed half-way are one step.     *)
(***************************************************************************)
EXTENDS Naturals, Sequences, FiniteSets

CONSTANTS
  Node,       \* the client processes
  Conn,       \* the CtCConnection objects of all nodes
  Owner,      \* [Conn -> Node]: the node whose _connections holds the object
  Peer,       \* [Conn -> Conn]: the object at the other end of the socket
  Thread,     \* the application threads
  Home,       \* [Thread -> Node]: the node a thread runs on
  Key,        \* key names
  Stored,     \* [Node -> SUBSET Key]: keys each node holds initially
  Produces,   \* [Node -> SUBSET Key]: keys a node's application may set
  Request,    \* the ValueRequest objects (reused once nothing refers to one)
  MaxCalls,   \* bound on the calls one thread makes
  Cap,        \* packets the socket buffers of one direction hold
  RCap,       \* packets the receive buffer of a connection holds
  Faults,     \* subset of {"reset", "exit", "spurious"}
  Null        \* nullptr

NoConn == "no connection"
NoRequest == "no request"
NoKey == "no key"
NoPacket == [type |-> "none"]

ASSUME ConstAssumption ==
  /\ Owner \in [Conn -> Node]
  /\ Peer \in [Conn -> Conn]
  /\ \A c \in Conn : Peer[Peer[c]] = c /\ Owner[Peer[c]] # Owner[c]
  /\ Home \in [Thread -> Node]
  /\ Thread \cap Node = {}
  /\ Stored \in [Node -> SUBSET Key]
  /\ Produces \in [Node -> SUBSET Key]
  /\ NoConn \notin Conn
  /\ NoRequest \notin Request
  /\ NoKey \notin Key
  /\ MaxCalls \in Nat
  /\ Cap \in Nat \ {0} /\ RCap \in Nat \ {0}
  /\ Faults \subseteq {"reset", "exit", "spurious"}
  /\ Null \notin Node \X Key

Proc == Thread \cup Node        \* a node's own element is its main thread
HomeOf(p) == IF p \in Node THEN p ELSE Home[p]

(* The DataFrame that node n stores under key k.  Deserialize after        *)
(* serialize is a copy of it.                                              *)
DataFrame(n, k) == <<n, k>>
Value == Node \X Key \cup {Null}

KeyList(K) == [type |-> "KEY_LIST", keys |-> K]
ValueRequest(k) == [type |-> "VALUE_REQUEST", key |-> k]
ValueResponse(k, v) == [type |-> "VALUE_RESPONSE", key |-> k, value |-> v]
Packet == [type : {"KEY_LIST"}, keys : SUBSET Key]
          \cup [type : {"VALUE_REQUEST"}, key : Key]
          \cup [type : {"VALUE_RESPONSE"}, key : Key, value : Value]

VARIABLES
  state,      \* node -> "up", "exited" or "aborted" (a failed assert)
  store,      \* node -> keys of KVStore::_local_map
  known,      \* node -> key -> connection whose address _other_nodes records
  conns,      \* node -> NetPort::_connections
  calls,      \* thread -> calls it has begun, up to MaxCalls
  pc,         \* thread or main thread -> where it is
  scan,       \* thread or main thread -> connections _clean_up_closed still visits
  tkey,       \* thread -> the key it is getting or setting
  tconn,      \* thread -> the connection for that key
  treq,       \* thread -> its ValueRequest
  rkey,       \* request -> ValueRequest::key
  rval,       \* request -> ValueRequest::value
  wpc,        \* connection -> where its worker is
  last,       \* connection -> the worker is in the receive after its loop
  finished,   \* connection -> Connection::_finished
  queue,      \* connection -> _request_queue
  waiting,    \* connection -> _waiting_requests
  hand,       \* connection -> request the worker popped and not yet filed
  out,        \* connection -> packet the worker is sending
  rbuf,       \* connection -> packets in _r_buffer
  net,        \* connection -> packets in the socket, on their way to it
  link,       \* connection -> the TCP connection is alive
  destroyed   \* connections whose destructor ran

nodeVars   == <<state, store, known, conns>>
threadVars == <<calls, pc, scan, tkey, tconn, treq>>
reqVars    == <<rkey, rval>>
workVars   == <<wpc, last, finished, hand, out>>
listVars   == <<queue, waiting>>
netVars    == <<rbuf, net, link, destroyed>>
vars == <<nodeVars, threadVars, reqVars, workVars, listVars, netVars>>

SeqRange(s) == {s[i] : i \in DOMAIN s}

----------------------------------------------------------------------------
(* Who holds what. *)

\* Mutant: the request's mutex is unlocked before cv.wait.
ReqMutexFreeEarly(r) == \A t \in Thread : ~(pc[t] = "created" /\ treq[t] = r)

ReqMutexFree(r) ==
  \A t \in Thread : ~(pc[t] \in {"created", "added"} /\ treq[t] = r)

ConnMutexFree(n) ==
  \A p \in Proc : HomeOf(p) = n => pc[p] # "cleaning"

\* Mutant: get_value keeps a plain pointer.
NoRefs(c) == {t \in Thread : tconn[t] = c /\ pc[t] = "nowhere"}

(* Threads that hold a shared_ptr to c: get_value copies it out of          *)
(* _connections and keeps it until the request returns.                    *)
Refs(c) ==
  {t \in Thread : /\ tconn[t] = c
                  /\ pc[t] \in {"found", "created", "added", "waiting", "woken"}}

\* Mutant: one request object serves all calls.
InUseNever(r) == r \notin Request

InUse(r) ==
  \/ \E t \in Thread : treq[t] = r
  \/ \E c \in Conn : r \in SeqRange(queue[c]) \cup SeqRange(waiting[c]) \cup {hand[c]}

\* Mutant: a forgotten notify.
NotifyNobody(at, R) == at

(* cv.notify_all on the requests R, with the threads otherwise at at[p]. *)
Notify(at, R) ==
  [p \in Proc |-> IF p \in Thread /\ at[p] = "waiting" /\ treq[p] \in R
                  THEN "woken" ELSE at[p]]

Pending(c) == SeqRange(queue[c]) \cup SeqRange(waiting[c])

(* ~CtCConnection, run by whoever drops the last reference: every request   *)
(* still in its lists is answered with nullptr and the socket is closed.   *)
Destroy(c) ==
  /\ destroyed' = destroyed \cup {c}
  /\ \A r \in Pending(c) : ReqMutexFree(r)
  /\ rval' = [r \in Request |-> IF r \in Pending(c) THEN Null ELSE rval[r]]
  /\ queue' = [queue EXCEPT ![c] = <<>>]
  /\ waiting' = [waiting EXCEPT ![c] = <<>>]
  /\ link' = [link EXCEPT ![c] = FALSE, ![Peer[c]] = FALSE]
  /\ net' = [net EXCEPT ![c] = <<>>]
  /\ rbuf' = [rbuf EXCEPT ![c] = <<>>]

Keep == UNCHANGED <<destroyed, rval, listVars, rbuf, net, link>>

(* The process of node n ends: its memory is gone, its sockets close. *)
NodeDown(n, how) ==
  /\ state' = [state EXCEPT ![n] = how]
  /\ conns' = [conns EXCEPT ![n] = {}]
  /\ pc' = [p \in Proc |-> IF HomeOf(p) = n THEN "idle" ELSE pc[p]]
  /\ scan' = [p \in Proc |-> IF HomeOf(p) = n THEN {} ELSE scan[p]]
  /\ tconn' = [t \in Thread |-> IF Home[t] = n THEN NoConn ELSE tconn[t]]
  /\ treq' = [t \in Thread |-> IF Home[t] = n THEN NoRequest ELSE treq[t]]
  /\ wpc' = [c \in Conn |-> IF Owner[c] = n THEN "done" ELSE wpc[c]]
  /\ finished' = [c \in Conn |-> finished[c] \/ Owner[c] = n]
  /\ hand' = [c \in Conn |-> IF Owner[c] = n THEN NoRequest ELSE hand[c]]
  /\ out' = [c \in Conn |-> IF Owner[c] = n THEN NoPacket ELSE out[c]]
  /\ queue' = [c \in Conn |-> IF Owner[c] = n THEN <<>> ELSE queue[c]]
  /\ waiting' = [c \in Conn |-> IF Owner[c] = n THEN <<>> ELSE waiting[c]]
  /\ rbuf' = [c \in Conn |-> IF Owner[c] = n THEN <<>> ELSE rbuf[c]]
  /\ net' = [c \in Conn |-> IF Owner[c] = n THEN <<>> ELSE net[c]]
  /\ link' = [c \in Conn |-> link[c] /\ n \notin {Owner[c], Owner[Peer[c]]}]
  /\ UNCHANGED <<store, known, calls, tkey, reqVars, last, destroyed>>

----------------------------------------------------------------------------
Init ==
  /\ state = [n \in Node |-> "up"]
  /\ store = Stored
  /\ known = [n \in Node |-> [k \in Key |-> NoConn]]
  /\ conns = [n \in Node |-> {c \in Conn : Owner[c] = n}]
  /\ calls = [t \in Thread |-> 0]
  /\ pc = [p \in Proc |-> "idle"]
  /\ scan = [p \in Proc |-> {}]
  /\ tkey = [t \in Thread |-> NoKey]
  /\ tconn = [t \in Thread |-> NoConn]
  /\ treq = [t \in Thread |-> NoRequest]
  /\ rkey = [r \in Request |-> NoKey]
  /\ rval = [r \in Request |-> Null]
  /\ wpc = [c \in Conn |-> "loop"]
  /\ last = [c \in Conn |-> FALSE]
  /\ finished = [c \in Conn |-> FALSE]
  /\ hand = [c \in Conn |-> NoRequest]
  /\ out = [c \in Conn |-> NoPacket]
  /\ queue = [c \in Conn |-> <<>>]
  /\ waiting = [c \in Conn |-> <<>>]
  /\ rbuf = [c \in Conn |-> <<>>]
  /\ net = [c \in Conn |-> <<>>]
  /\ link = [c \in Conn |-> TRUE]
  /\ destroyed = {}

----------------------------------------------------------------------------
(* Application threads. *)

(* KVStore::get(k) for a key that is not local: copy the Key out of        *)
(* _other_nodes, with the address of the node that advertised it.          *)
Get(t, k) ==
  LET n == Home[t] IN
  /\ state[n] = "up" /\ pc[t] = "idle"
  /\ k \notin store[n]
  /\ known[n][k] # NoConn
  /\ calls[t] < MaxCalls
  /\ calls' = [calls EXCEPT ![t] = @ + 1]
  /\ pc' = [pc EXCEPT ![t] = "get"]
  /\ tkey' = [tkey EXCEPT ![t] = k]
  /\ tconn' = [tconn EXCEPT ![t] = known[n][k]]
  /\ UNCHANGED <<nodeVars, scan, treq, reqVars, workVars, listVars, netVars>>

(* KVStore::set(k), first half: assert that no other node announced k.  A   *)
(* key may be set again; the new DataFrame is not told from the old one.   *)
SetCheck(t, k) ==
  LET n == Home[t] IN
  /\ state[n] = "up" /\ pc[t] = "idle"
  /\ k \in Produces[n]
  /\ \/ /\ known[n][k] # NoConn
        /\ NodeDown(n, "aborted")
     \/ /\ known[n][k] = NoConn
        /\ pc' = [pc EXCEPT ![t] = "setting"]
        /\ tkey' = [tkey EXCEPT ![t] = k]
        /\ UNCHANGED <<nodeVars, calls, scan, tconn, treq, reqVars, workVars, listVars,
                       netVars>>

(* KVStore::set(k), second half, under the other mutex: insert_or_assign. *)
SetInsert(t) ==
  /\ state[Home[t]] = "up" /\ pc[t] = "setting"
  /\ store' = [store EXCEPT ![Home[t]] = @ \cup {tkey[t]}]
  /\ pc' = [pc EXCEPT ![t] = "idle"]
  /\ UNCHANGED <<state, known, conns, calls, scan, tkey, tconn, treq, reqVars, workVars,
                 listVars, netVars>>

(* NetPort::_clean_up_closed locks _connections_mutex and visits every      *)
(* connection; the finished ones are joined and erased.  Application       *)
(* threads run it on entry to get_value, the main thread in every turn of  *)
(* listen_on_socket.  A pass that finds nothing finished changes nothing.  *)
CleanLock(p) ==
  LET n == HomeOf(p)
      found == {c \in conns[n] : finished[c]}
  IN
  /\ state[n] = "up"
  /\ pc[p] = IF p \in Node THEN "idle" ELSE "get"
  /\ p \in Node => found # {}
  /\ ConnMutexFree(n)
  /\ pc' = [pc EXCEPT ![p] = IF found = {} THEN "find" ELSE "cleaning"]
  /\ scan' = [scan EXCEPT ![p] = found]
  /\ UNCHANGED <<nodeVars, calls, tkey, tconn, treq, reqVars, workVars, listVars, netVars>>

\* Mutant: erase without join.
CleanEraseUnjoined(p, c) ==
  /\ pc[p] = "cleaning" /\ c \in conns[HomeOf(p)]
  /\ finished[c]
  /\ scan' = [scan EXCEPT ![p] = @ \ {c}]
  /\ conns' = [conns EXCEPT ![HomeOf(p)] = @ \ {c}]
  /\ IF Refs(c) = {}
     THEN Destroy(c) /\ pc' = Notify(pc, Pending(c))
     ELSE Keep /\ UNCHANGED pc
  /\ UNCHANGED <<state, store, known, calls, tkey, tconn, treq, rkey, workVars>>

(* join() returns once the worker has left run(); then erase drops the     *)
(* reference _connections held.  A connection that finishes during the     *)
(* pass may still be visited by it.                                        *)
CleanErase(p, c) ==
  /\ pc[p] = "cleaning" /\ c \in conns[HomeOf(p)]
  /\ finished[c] /\ wpc[c] = "done"
  /\ scan' = [scan EXCEPT ![p] = @ \ {c}]
  /\ conns' = [conns EXCEPT ![HomeOf(p)] = @ \ {c}]
  /\ IF Refs(c) = {}
     THEN Destroy(c) /\ pc' = Notify(pc, Pending(c))
     ELSE Keep /\ UNCHANGED pc
  /\ UNCHANGED <<state, store, known, calls, tkey, tconn, treq, rkey, workVars>>

CleanUnlock(p) ==
  /\ pc[p] = "cleaning" /\ scan[p] = {}
  /\ pc' = [pc EXCEPT ![p] = IF p \in Node THEN "idle" ELSE "find"]
  /\ UNCHANGED <<nodeVars, calls, scan, tkey, tconn, treq, reqVars, workVars, listVars,
                 netVars>>

(* Client::get_value looks for the connection to the key's node and        *)
(* unlocks _connections_mutex before it uses it; nullptr if there is none. *)
FindConn(t) ==
  /\ pc[t] = "find"
  /\ ConnMutexFree(Home[t])
  /\ IF tconn[t] \in conns[Home[t]]
     THEN pc' = [pc EXCEPT ![t] = "found"] /\ UNCHANGED tconn
     ELSE /\ pc' = [pc EXCEPT ![t] = "idle"]
          /\ tconn' = [tconn EXCEPT ![t] = NoConn]
  /\ UNCHANGED <<nodeVars, calls, scan, tkey, treq, reqVars, workVars, listVars, netVars>>

\* Mutant: the key is not copied into the request.
CreateRequestKeyless(t, r) ==
  /\ pc[t] = "found" /\ ~finished[tconn[t]]
  /\ ~InUse(r)
  /\ pc' = [pc EXCEPT ![t] = "created"]
  /\ treq' = [treq EXCEPT ![t] = r]
  /\ UNCHANGED <<nodeVars, calls, scan, tkey, tconn, reqVars, workVars, listVars, netVars>>

(* Client::_get_value_helper creates the request, locks its mutex and      *)
(* asserts that the connection has not finished meanwhile.                 *)
CreateRequest(t, r) ==
  /\ pc[t] = "found"
  /\ ~InUse(r)
  /\ \/ /\ finished[tconn[t]]
        /\ NodeDown(Home[t], "aborted")
     \/ /\ ~finished[tconn[t]]
        /\ pc' = [pc EXCEPT ![t] = "created"]
        /\ treq' = [treq EXCEPT ![t] = r]
        /\ rkey' = [rkey EXCEPT ![r] = tkey[t]]
        /\ rval' = [rval EXCEPT ![r] = Null]
        /\ UNCHANGED <<nodeVars, calls, scan, tkey, tconn, workVars, listVars, netVars>>

(* CtCConnection::add_request, under _request_queue_mutex. *)
AddRequest(t) ==
  LET c == tconn[t] IN
  /\ pc[t] = "created"
  /\ wpc[c] # "move"
  /\ queue' = [queue EXCEPT ![c] = Append(@, treq[t])]
  /\ pc' = [pc EXCEPT ![t] = "added"]
  /\ UNCHANGED <<nodeVars, calls, scan, tkey, tconn, treq, reqVars, workVars, waiting, netVars>>

(* cv.wait(lk) releases the request's mutex and blocks, in one step. *)
Wait(t) ==
  /\ pc[t] = "added"
  /\ pc' = [pc EXCEPT ![t] = "waiting"]
  /\ UNCHANGED <<nodeVars, calls, scan, tkey, tconn, treq, reqVars, workVars, listVars,
                 netVars>>

(* cv.wait has no predicate: it may return with nothing notified. *)
SpuriousWakeup(t) ==
  /\ "spurious" \in Faults
  /\ pc[t] = "waiting"
  /\ pc' = [pc EXCEPT ![t] = "woken"]
  /\ UNCHANGED <<nodeVars, calls, scan, tkey, tconn, treq, reqVars, workVars, listVars,
                 netVars>>

(* The thread has the mutex again, returns request->value and lets go of   *)
(* the connection, perhaps as the last one to do so.                       *)
Return(t) ==
  LET c == tconn[t]
      gone == [pc EXCEPT ![t] = "idle"]
  IN
  /\ pc[t] = "woken"
  /\ treq' = [treq EXCEPT ![t] = NoRequest]
  /\ tconn' = [tconn EXCEPT ![t] = NoConn]
  /\ IF Refs(c) = {t} /\ c \notin conns[Home[t]]
     THEN Destroy(c) /\ pc' = Notify(gone, Pending(c))
     ELSE Keep /\ pc' = gone
  /\ UNCHANGED <<nodeVars, calls, scan, tkey, rkey, workVars>>

----------------------------------------------------------------------------
(* The worker thread of a connection, CtCConnection::run. *)

(* The turn of the loop, and the receive after it, go on from here. *)
AfterReceive(c) == IF last[c] THEN "done" ELSE "keys"

(* Top of the loop and receive_data: take what the socket has and the      *)
(* buffer has room for.  With nothing to read the result is -1 and the     *)
(* packets already in the buffer are NOT parsed.  A dead socket may yield  *)
(* its remaining data, an error, or end of file, which is read as 0 bytes. *)
Receive(c) ==
  LET room == RCap - Len(rbuf[c])
      m == IF Len(net[c]) < room THEN Len(net[c]) ELSE room
  IN
  /\ wpc[c] = "loop"
  /\ last' = [last EXCEPT ![c] = finished[c]]
  /\ \/ /\ net[c] # <<>> \/ room = 0 \/ ~link[c]
        /\ rbuf' = [rbuf EXCEPT ![c] = @ \o SubSeq(net[c], 1, m)]
        /\ net' = [net EXCEPT ![c] = SubSeq(@, m + 1, Len(@))]
        /\ wpc' = [wpc EXCEPT ![c] = "parse"]
     \/ /\ (net[c] = <<>> /\ room > 0) \/ ~link[c]
        /\ net' = [net EXCEPT ![c] = IF link[c] THEN @ ELSE <<>>]
        /\ wpc' = [wpc EXCEPT ![c] = IF finished[c] THEN "done" ELSE "keys"]
        /\ UNCHANGED rbuf
  /\ UNCHANGED <<nodeVars, threadVars, reqVars, finished, hand, out, listVars, link,
                 destroyed>>

(* receive_and_parse finds the buffer empty and returns true. *)
ParseNothing(c) ==
  /\ wpc[c] = "parse" /\ rbuf[c] = <<>>
  /\ wpc' = [wpc EXCEPT ![c] = AfterReceive(c)]
  /\ UNCHANGED <<nodeVars, threadVars, reqVars, last, finished, hand, out, listVars,
                 netVars>>

(* _update_keys: every key listed is now known to live at the peer. *)
UpdateKeys(c) ==
  LET n == Owner[c] IN
  /\ wpc[c] = "parse" /\ rbuf[c] # <<>>
  /\ Head(rbuf[c]).type = "KEY_LIST"
  /\ known' = [known EXCEPT ![n] =
                 [k \in Key |-> IF k \in Head(rbuf[c]).keys THEN c ELSE @[k]]]
  /\ rbuf' = [rbuf EXCEPT ![c] = Tail(@)]
  /\ wpc' = [wpc EXCEPT ![c] = AfterReceive(c)]
  /\ UNCHANGED <<state, store, conns, threadVars, reqVars, last, finished, hand, out,
                 listVars, net, link, destroyed>>

(* _respond and _get_requested_value: look the key up in the local map. *)
ParseRequest(c) ==
  LET n == Owner[c]
      k == Head(rbuf[c]).key
  IN
  /\ wpc[c] = "parse" /\ rbuf[c] # <<>>
  /\ Head(rbuf[c]).type = "VALUE_REQUEST"
  /\ out' = [out EXCEPT ![c] =
               ValueResponse(k, IF k \in store[n] THEN DataFrame(n, k) ELSE Null)]
  /\ rbuf' = [rbuf EXCEPT ![c] = Tail(@)]
  /\ wpc' = [wpc EXCEPT ![c] = "respond"]
  /\ UNCHANGED <<nodeVars, threadVars, reqVars, last, finished, hand, listVars, net,
                 link, destroyed>>

\* Mutant: an answer goes to the request filed last.
MatchLast(c, k) == Len(waiting[c])

(* The position _parse_request_response stops at: the first waiting        *)
(* request for key k, or 0.                                                *)
Match(c, k) ==
  LET hits == {i \in DOMAIN waiting[c] : rkey[waiting[c][i]] = k} IN
  IF hits = {} THEN 0 ELSE CHOOSE i \in hits : \A j \in hits : i <= j

Without(s, i) == SubSeq(s, 1, i - 1) \o SubSeq(s, i + 1, Len(s))

(* _parse_request_response: each request it looks at is locked in turn;    *)
(* the one that matches gets the value, leaves the list and is notified.   *)
Deliver(c) ==
  LET p == Head(rbuf[c])
      i == Match(c, p.key)
      r == waiting[c][i]
  IN
  /\ wpc[c] = "parse" /\ rbuf[c] # <<>>
  /\ p.type = "VALUE_RESPONSE"
  /\ IF i = 0
     THEN UNCHANGED <<rval, waiting, pc>>
     ELSE /\ ReqMutexFree(r)
          /\ rval' = [rval EXCEPT ![r] = p.value]
          /\ waiting' = [waiting EXCEPT ![c] = Without(@, i)]
          /\ pc' = Notify(pc, {r})
  /\ rbuf' = [rbuf EXCEPT ![c] = Tail(@)]
  /\ wpc' = [wpc EXCEPT ![c] = AfterReceive(c)]
  /\ UNCHANGED <<nodeVars, calls, scan, tkey, tconn, treq, rkey, last, finished, hand, out,
                 queue, net, link, destroyed>>

(* _send_packet(out): spins while the socket buffer is full, fails when    *)
(* the socket is dead.                                                     *)
CanSend(c) == link[c] => Len(net[Peer[c]]) < Cap

Send(c) ==
  /\ CanSend(c)
  /\ net' = IF link[c] THEN [net EXCEPT ![Peer[c]] = Append(@, out[c])] ELSE net
  /\ out' = [out EXCEPT ![c] = NoPacket]

(* The response is sent, or is lost with the socket; parsing goes on. *)
SendResponse(c) ==
  /\ wpc[c] = "respond"
  /\ Send(c)
  /\ wpc' = [wpc EXCEPT ![c] = "parse"]
  /\ UNCHANGED <<nodeVars, threadVars, reqVars, last, finished, hand, listVars, rbuf,
                 link, destroyed>>

(* _send_keys takes a snapshot of the local keys ... *)
SnapshotKeys(c) ==
  /\ wpc[c] = "keys"
  /\ out' = [out EXCEPT ![c] = KeyList(store[Owner[c]])]
  /\ wpc' = [wpc EXCEPT ![c] = "sendkeys"]
  /\ UNCHANGED <<nodeVars, threadVars, reqVars, last, finished, hand, listVars, netVars>>

(* ... and sends it; failing to do so is what ends the worker's loop. *)
SendKeys(c) ==
  /\ wpc[c] = "sendkeys"
  /\ Send(c)
  /\ finished' = [finished EXCEPT ![c] = @ \/ ~link[c]]
  /\ wpc' = [wpc EXCEPT ![c] = "check"]
  /\ UNCHANGED <<nodeVars, threadVars, reqVars, last, hand, listVars, rbuf, link,
                 destroyed>>

\* Mutant: the request is not popped.
CheckRequestsUnpopped(c) ==
  /\ wpc[c] = "check"
  /\ IF queue[c] = <<>>
     THEN wpc' = [wpc EXCEPT ![c] = "loop"] /\ UNCHANGED hand
     ELSE /\ hand' = [hand EXCEPT ![c] = Head(queue[c])]
          /\ wpc' = [wpc EXCEPT ![c] = "move"]
  /\ UNCHANGED <<nodeVars, threadVars, reqVars, last, finished, out, listVars, netVars>>

(* _check_requests, holding _request_queue_mutex: pop the next request. *)
CheckRequests(c) ==
  /\ wpc[c] = "check"
  /\ IF queue[c] = <<>>
     THEN wpc' = [wpc EXCEPT ![c] = "loop"] /\ UNCHANGED <<hand, queue>>
     ELSE /\ hand' = [hand EXCEPT ![c] = Head(queue[c])]
          /\ queue' = [queue EXCEPT ![c] = Tail(@)]
          /\ wpc' = [wpc EXCEPT ![c] = "move"]
  /\ UNCHANGED <<nodeVars, threadVars, reqVars, last, finished, out, waiting, netVars>>

\* Mutants: filed at the front; sent but not filed.
MoveRequestToFront(c) ==
  /\ wpc[c] = "move"
  /\ ReqMutexFree(hand[c])
  /\ waiting' = [waiting EXCEPT ![c] = <<hand[c]>> \o @]
  /\ out' = [out EXCEPT ![c] = ValueRequest(rkey[hand[c]])]
  /\ hand' = [hand EXCEPT ![c] = NoRequest]
  /\ wpc' = [wpc EXCEPT ![c] = "sendreq"]
  /\ UNCHANGED <<nodeVars, threadVars, reqVars, last, finished, queue, netVars>>

MoveRequestUnfiled(c) ==
  /\ wpc[c] = "move"
  /\ ReqMutexFree(hand[c])
  /\ out' = [out EXCEPT ![c] = ValueRequest(rkey[hand[c]])]
  /\ hand' = [hand EXCEPT ![c] = NoRequest]
  /\ wpc' = [wpc EXCEPT ![c] = "sendreq"]
  /\ UNCHANGED <<nodeVars, threadVars, reqVars, last, finished, listVars, netVars>>

(* Still holding it: lock the request to read its key, file it under       *)
(* _waiting_requests before anything is sent, unlock.                      *)
MoveRequest(c) ==
  /\ wpc[c] = "move"
  /\ ReqMutexFree(hand[c])
  /\ waiting' = [waiting EXCEPT ![c] = Append(@, hand[c])]
  /\ out' = [out EXCEPT ![c] = ValueRequest(rkey[hand[c]])]
  /\ hand' = [hand EXCEPT ![c] = NoRequest]
  /\ wpc' = [wpc EXCEPT ![c] = "sendreq"]
  /\ UNCHANGED <<nodeVars, threadVars, reqVars, last, finished, queue, netVars>>

\* Mutant: the keys are announced again after every request.
SendRequestAndKeys(c) ==
  /\ wpc[c] = "sendreq"
  /\ Send(c)
  /\ wpc' = [wpc EXCEPT ![c] = "keys"]
  /\ UNCHANGED <<nodeVars, threadVars, reqVars, last, finished, hand, listVars, rbuf,
                 link, destroyed>>

(* The result of sending the request is ignored. *)
SendRequest(c) ==
  /\ wpc[c] = "sendreq"
  /\ Send(c)
  /\ wpc' = [wpc EXCEPT ![c] = "check"]
  /\ UNCHANGED <<nodeVars, threadVars, reqVars, last, finished, hand, listVars, rbuf,
                 link, destroyed>>

----------------------------------------------------------------------------
(* Faults. *)

(* The TCP connection between c and its peer is reset. *)
Reset(c) ==
  /\ "reset" \in Faults
  /\ link[c]
  /\ link' = [link EXCEPT ![c] = FALSE, ![Peer[c]] = FALSE]
  /\ UNCHANGED <<nodeVars, threadVars, reqVars, workVars, listVars, rbuf, net, destroyed>>

(* A client process ends. *)
Exit(n) ==
  /\ "exit" \in Faults
  /\ state[n] = "up"
  /\ NodeDown(n, "exited")

----------------------------------------------------------------------------
Clean(p) ==
  \/ CleanLock(p)
  \/ \E c \in Conn : CleanErase(p, c)
  \/ CleanUnlock(p)

Worker(c) ==
  \/ Receive(c) \/ ParseNothing(c)
  \/ UpdateKeys(c) \/ ParseRequest(c) \/ SendResponse(c) \/ Deliver(c)
  \/ SnapshotKeys(c) \/ SendKeys(c)
  \/ CheckRequests(c) \/ MoveRequest(c) \/ SendRequest(c)

(* A call in progress goes on. *)
Proceed(t) ==
  \/ FindConn(t)
  \/ \E r \in Request : CreateRequest(t, r)
  \/ AddRequest(t) \/ Wait(t) \/ Return(t)
  \/ SetInsert(t)

Call(t) == \E k \in Key : Get(t, k) \/ SetCheck(t, k)

Next ==
  \/ \E p \in Proc : Clean(p)
  \/ \E c \in Conn : Worker(c) \/ Reset(c)
  \/ \E t \in Thread : Call(t) \/ Proceed(t) \/ SpuriousWakeup(t)
  \/ \E n \in Node : Exit(n)

Spec == Init /\ [][Next]_vars

(* Threads are scheduled.  A mutex is released again and again by threads  *)
(* that hold it briefly and yield between two turns, so whoever wants it   *)
(* gets it in the end: strong fairness for the steps that lock one.        *)
Fairness ==
  /\ \A p \in Proc : SF_vars(CleanLock(p)) /\ WF_vars(Clean(p))
  /\ \A c \in Conn : WF_vars(Worker(c))
  /\ \A t \in Thread : /\ SF_vars(FindConn(t)) /\ SF_vars(AddRequest(t))
                       /\ WF_vars(Proceed(t))

FairSpec == Spec /\ Fairness

----------------------------------------------------------------------------
(* Properties. *)

ThreadPc == {"idle", "get", "cleaning", "find", "found", "created", "added", "waiting",
             "woken", "setting"}
WorkerPc == {"loop", "parse", "respond", "keys", "sendkeys", "check", "move", "sendreq",
             "done"}

(* Every variable has its type. *)
TypeOK ==
  /\ state \in [Node -> {"up", "exited", "aborted"}]
  /\ store \in [Node -> SUBSET Key]
  /\ known \in [Node -> [Key -> Conn \cup {NoConn}]]
  /\ conns \in [Node -> SUBSET Conn]
  /\ calls \in [Thread -> 0..MaxCalls]
  /\ pc \in [Proc -> ThreadPc]
  /\ scan \in [Proc -> SUBSET Conn]
  /\ tkey \in [Thread -> Key \cup {NoKey}]
  /\ tconn \in [Thread -> Conn \cup {NoConn}]
  /\ treq \in [Thread -> Request \cup {NoRequest}]
  /\ rkey \in [Request -> Key \cup {NoKey}]
  /\ rval \in [Request -> Value]
  /\ wpc \in [Conn -> WorkerPc]
  /\ last \in [Conn -> BOOLEAN]
  /\ finished \in [Conn -> BOOLEAN]
  /\ hand \in [Conn -> Request \cup {NoRequest}]
  /\ out \in [Conn -> Packet \cup {NoPacket}]
  /\ queue \in [Conn -> Seq(Request)]
  /\ waiting \in [Conn -> Seq(Request)]
  /\ rbuf \in [Conn -> Seq(Packet)]
  /\ net \in [Conn -> Seq(Packet)]
  /\ link \in [Conn -> BOOLEAN]
  /\ destroyed \in SUBSET Conn

(* A thread that sleeps in cv.wait (client.cpp:64) and a thread about to    *)
(* sleep are not forgotten: their request is in the queue, in the worker's *)
(* hand or in the waiting list of their connection, so a later answer can  *)
(* still find it.  No answer is notified into the gap between add_request  *)
(* and cv.wait.                                                            *)
NoLostWakeup ==
  \A t \in Thread : pc[t] \in {"added", "waiting"} =>
    treq[t] \in Pending(tconn[t]) \cup {hand[tconn[t]]}

(* A request object is filed at most once, in at most one of the places a  *)
(* connection keeps requests: _check_requests moves, it never copies, so   *)
(* one answer completes one call.                                          *)
FiledOnce ==
  \A c \in Conn :
    LET s == waiting[c] \o (IF hand[c] = NoRequest THEN <<>> ELSE <<hand[c]>>) \o queue[c]
    IN \A i, j \in DOMAIN s : s[i] = s[j] => i = j

(* A CtCConnection is destroyed only when its worker has left run() and no *)
(* thread is between get_value's lookup and its return: get_value goes on  *)
(* using the object after it unlocked _connections_mutex (client.cpp:76).  *)
NoUseAfterDestroy ==
  \A c \in destroyed : wpc[c] = "done" /\ Refs(c) = {} /\ c \notin conns[Owner[c]]

(* The packets of type ty in s, in order. *)
OfType(s, ty) ==
  LET F[i \in 0..Len(s)] ==
        IF i = 0 THEN <<>>
        ELSE IF s[i].type = ty THEN Append(F[i - 1], s[i]) ELSE F[i - 1]
  IN F[Len(s)]

RequestsIn(s) == OfType(s, "VALUE_REQUEST")
ResponsesIn(s) == OfType(s, "VALUE_RESPONSE")
Sending(c) == IF out[c] = NoPacket THEN <<>> ELSE <<out[c]>>

(* As long as the TCP connection lives, the waiting list of a connection   *)
(* is, in order and key by key, what is under way for it: answers in its   *)
(* buffer and socket, the answer its peer is sending, requests in the      *)
(* peer's buffer and socket, the request its worker is sending.  So every  *)
(* answer finds its request and every filed request gets its answer.       *)
AnswersInOrder ==
  \A c \in Conn :
    link[c] =>
      LET d == Peer[c]
          path == ResponsesIn(rbuf[c] \o net[c] \o Sending(d))
                  \o RequestsIn(rbuf[d] \o net[d] \o Sending(c))
      IN [i \in DOMAIN waiting[c] |-> rkey[waiting[c][i]]]
         = [i \in DOMAIN path |-> path[i].key]

(* KVStore::get gives the caller the right DataFrame: a value in a request *)
(* is one the peer's node has in its local map under the requested key.    *)
AnswerIsRight ==
  \A t \in Thread : pc[t] = "woken" /\ rval[treq[t]] # Null =>
    LET n == Owner[Peer[tconn[t]]] IN
    rval[treq[t]] = DataFrame(n, tkey[t]) /\ tkey[t] \in store[n]

(* The two workers of a TCP connection are never both stuck in the endless *)
(* loop of _send_packet, each waiting for the other to read.               *)
NoMutualSendBlock ==
  \A c \in Conn :
    ~ \A d \in {c, Peer[c]} :
        wpc[d] \in {"respond", "sendkeys", "sendreq"} /\ ~CanSend(d)

(* A waiting thread and the worker of its connection never wait for each   *)
(* other's mutex: add_request wants the queue's mutex while holding the    *)
(* request's, _check_requests takes them the other way round.              *)
NoLockCycle ==
  \A t \in Thread : ~(pc[t] = "created" /\ wpc[tconn[t]] = "move" /\ hand[tconn[t]] = treq[t])

(* Every remote read returns (checked without faults). *)
EveryGetReturns == \A t \in Thread : pc[t] = "get" ~> pc[t] = "idle"

(* ctc_connection.h:30-32 and 45-46 promise that a request whose value      *)
(* cannot be found is answered with nullptr and its thread woken, by the   *)
(* destructor at the latest: no thread sleeps on when the worker of its    *)
(* connection is gone.  In the code it does: the sleeping get_value holds  *)
(* the last reference, so the destructor that would wake it never runs.    *)
LostRequestReturns ==
  \A t \in Thread :
    (pc[t] = "waiting" /\ wpc[tconn[t]] = "done") ~> pc[t] # "waiting"

============================================================================
