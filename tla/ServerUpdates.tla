--------------------------- MODULE ServerUpdates ---------------------------
(***************************************************************************)
(* Membership: clients register with the eau2 server, every                *)
(* ServerConnection worker pushes the list of clients to its client while  *)
(* Server::_new_update is set, and the worker that makes _passed_update    *)
(* reach _expected_update clears the flag.                                 *)
(*                                                                         *)
(* An element of Conn is one run of a client process together with the     *)
(* ServerConnection that serves it; Addr[c] is the address the process     *)
(* registers.  A client binds port 0 (client.cpp:28), so every run has a   *)
(* port of its own; that the system gives a later run the port of an       *)
(* earlier one is left out.  Packets arrive whole and in order.  KEEP_ALIVE *)
(* packets carry no state: they are the reason a client always finds data  *)
(* to parse and how the server notices a dead socket, and are not kept in  *)
(* the channels; nor is the TEARDOWN the server sends, after which a       *)
(* client leaves as it may at any time.                                    *)
(*                                                                         *)
(* Mutexes, by the program counter that holds them:                        *)
(*   _connections_mutex   whoever is "cleaning", at "raise" or "telling",  *)
(*                        the main thread at "purge" and "closing"         *)
(*   _client_mutex        the worker at "reset", inside get_clients        *)
(***************************************************************************)
EXTENDS Naturals, Sequences, FiniteSets

CONSTANTS
  Conn,     \* runs of client processes, each with its server connection
  Client,   \* client addresses
  Addr,     \* [Conn -> Client]
  SCap,     \* client lists the socket buffers towards a client hold
  Faults    \* [Conn -> SUBSET {"leave", "crash", "teardown"}]: what its process may do

NoAddr == "no address"
Main == "main"

ASSUME ConstAssumption ==
  /\ Addr \in [Conn -> Client]
  /\ \A c, d \in Conn : Addr[c] = Addr[d] => c = d
  /\ NoAddr \notin Client /\ Main \notin Conn
  /\ SCap \in Nat \ {0}
  /\ Faults \in [Conn -> SUBSET {"leave", "crash", "teardown"}]

VARIABLES
  clients,   \* Server::_clients
  passed,    \* Server::_passed_update
  expected,  \* Server::_expected_update
  new,       \* Server::_new_update
  conns,     \* NetPort::_connections
  running,   \* NetPort::_running
  mpc,       \* where the main thread is
  fresh,     \* the connection _accept_connection has started but not yet filed
  scan,      \* main or worker -> connections its loop over them still visits
  spc,       \* connection -> where its worker is
  last,      \* connection -> the worker is in the receive after its loop
  finished,  \* connection -> Connection::_finished
  other,     \* connection -> _conn_other, once it is a registered address
  out,       \* connection -> client list its worker is about to send
  sbuf,      \* connection -> packets in the worker's receive buffer
  c2s,       \* connection -> packets on their way to the server
  s2c,       \* connection -> client lists on their way to the client
  link,      \* connection -> the TCP connection is alive
  cst,       \* connection -> stage of the client process
  view       \* connection -> Client::_other_clients of the process

countVars  == <<passed, expected, new>>
portVars   == <<conns, running, mpc, fresh, scan>>
workVars   == <<spc, last, finished, other, out, sbuf>>
netVars    == <<c2s, s2c, link>>
clientVars == <<cst, view>>
vars == <<clients, countVars, portVars, workVars, netVars, clientVars>>

Cleaner == Conn \cup {Main}
Elements(s) == {s[i] : i \in DOMAIN s}

ConnMutexFree ==
  /\ mpc \notin {"cleaning", "purge", "closing"}
  /\ \A c \in Conn : spc[c] \notin {"cleaning", "raise", "telling"}
ClientMutexFree == \A c \in Conn : spc[c] # "reset"

Init ==
  /\ clients = <<>>
  /\ passed = 0 /\ expected = 0 /\ new = FALSE
  /\ conns = {} /\ running = TRUE /\ mpc = "accept" /\ fresh = {}
  /\ scan = [p \in Cleaner |-> {}]
  /\ spc = [c \in Conn |-> "none"]
  /\ last = [c \in Conn |-> FALSE]
  /\ finished = [c \in Conn |-> FALSE]
  /\ other = [c \in Conn |-> NoAddr]
  /\ out = [c \in Conn |-> {}]
  /\ sbuf = [c \in Conn |-> <<>>]
  /\ c2s = [c \in Conn |-> <<>>]
  /\ s2c = [c \in Conn |-> <<>>]
  /\ link = [c \in Conn |-> FALSE]
  /\ cst = [c \in Conn |-> "unborn"]
  /\ view = [c \in Conn |-> {}]

----------------------------------------------------------------------------
(* The client's side, CtSConnection::run. *)

(* Connect and register. *)
Register(c) ==
  /\ cst[c] = "unborn"
  /\ cst' = [cst EXCEPT ![c] = "running"]
  /\ link' = [link EXCEPT ![c] = TRUE]
  /\ c2s' = [c2s EXCEPT ![c] = <<"REGISTER">>]
  /\ UNCHANGED <<clients, countVars, portVars, workVars, s2c, view>>

(* CLIENT_UPDATE replaces _other_clients by the list without oneself. *)
Update(c) ==
  /\ cst[c] = "running" /\ s2c[c] # <<>>
  /\ view' = [view EXCEPT ![c] = Head(s2c[c]) \ {Addr[c]}]
  /\ s2c' = [s2c EXCEPT ![c] = Tail(@)]
  /\ UNCHANGED <<clients, countVars, portVars, workVars, c2s, link, cst>>

(* The loop ends: DEREGISTER, SHUTDOWN, then the process closes the socket. *)
Deregister(c) ==
  /\ "leave" \in Faults[c]
  /\ cst[c] = "running"
  /\ cst' = [cst EXCEPT ![c] = "leaving"]
  /\ c2s' = [c2s EXCEPT ![c] = Append(@, "DEREGISTER")]
  /\ UNCHANGED <<clients, countVars, portVars, workVars, s2c, link, view>>

SendShutdown(c) ==
  /\ cst[c] = "leaving"
  /\ cst' = [cst EXCEPT ![c] = "closing"]
  /\ c2s' = [c2s EXCEPT ![c] = Append(@, "SHUTDOWN")]
  /\ UNCHANGED <<clients, countVars, portVars, workVars, s2c, link, view>>

Close(c) ==
  /\ cst[c] = "closing"
  /\ cst' = [cst EXCEPT ![c] = "ended"]
  /\ s2c' = [s2c EXCEPT ![c] = <<>>]
  /\ UNCHANGED <<clients, countVars, portVars, workVars, c2s, link, view>>

(* The teardown an application asks for, one request at a time: only one    *)
(* process of each application asks.                                       *)
Requested(c) == "TEARDOWN" \in Elements(c2s[c] \o sbuf[c]) \/ spc[c] \in {"ask", "telling"}

AskTeardown(c) ==
  /\ "teardown" \in Faults[c]
  /\ cst[c] = "running" /\ running /\ \A d \in Conn : ~Requested(d)
  /\ c2s' = [c2s EXCEPT ![c] = Append(@, "TEARDOWN")]
  /\ UNCHANGED <<clients, countVars, portVars, workVars, s2c, link, clientVars>>

(* The process dies without a word. *)
Crash(c) ==
  /\ "crash" \in Faults[c]
  /\ cst[c] = "running"
  /\ cst' = [cst EXCEPT ![c] = "ended"]
  /\ s2c' = [s2c EXCEPT ![c] = <<>>]
  /\ UNCHANGED <<clients, countVars, portVars, workVars, c2s, link, view>>

(* The client's host answers what the server still sends with a reset:     *)
(* until then sends succeed and the packets are lost, from then on they    *)
(* fail.                                                                   *)
Cut(c) ==
  /\ cst[c] = "ended" /\ link[c]
  /\ link' = [link EXCEPT ![c] = FALSE]
  /\ UNCHANGED <<clients, countVars, portVars, workVars, c2s, s2c, clientVars>>

----------------------------------------------------------------------------
(* NetPort::listen_on_socket and _clean_up_closed. *)

(* _accept_connection starts the worker ... *)
Accept(c) ==
  /\ mpc = "accept"
  /\ cst[c] # "unborn" /\ spc[c] = "none"
  /\ spc' = [spc EXCEPT ![c] = "loop"]
  /\ fresh' = {c}
  /\ mpc' = "push"
  /\ UNCHANGED <<clients, countVars, conns, running, scan, last, finished, other, out,
                 sbuf, netVars, clientVars>>

(* ... and only then files the connection under _connections. *)
Push ==
  /\ mpc = "push" /\ ConnMutexFree
  /\ conns' = conns \cup fresh
  /\ fresh' = {}
  /\ mpc' = "accept"
  /\ UNCHANGED <<clients, countVars, running, scan, workVars, netVars, clientVars>>

(* _clean_up_closed by the main thread, in every turn of its loop, and by  *)
(* a worker inside update_and_alert.  A pass of the main thread that finds *)
(* nothing finished changes nothing.                                       *)
CleanMain ==
  LET found == {c \in conns : finished[c]} IN
  /\ mpc = "accept" /\ found # {} /\ ConnMutexFree
  /\ mpc' = "cleaning"
  /\ scan' = [scan EXCEPT ![Main] = found]
  /\ UNCHANGED <<clients, countVars, conns, running, fresh, workVars, netVars, clientVars>>

CleanWorker(w) ==
  LET found == {c \in conns : finished[c]} IN
  /\ spc[w] = "clean" /\ ConnMutexFree
  /\ spc' = [spc EXCEPT ![w] = IF found = {} THEN "count" ELSE "cleaning"]
  /\ scan' = [scan EXCEPT ![w] = found]
  /\ UNCHANGED <<clients, countVars, conns, running, mpc, fresh, last, finished, other,
                 out, sbuf, netVars, clientVars>>

Cleaning(p) ==
  IF p = Main THEN mpc \in {"cleaning", "purge"} ELSE spc[p] = "cleaning"

(* ~NetPort runs: _on_clean_up is pure virtual. *)
Destructing == mpc \in {"purge", "close", "closing", "over"}

\* Mutant: erase whatever is first, found or not.
RemovedFirst(list, a) == IF list = <<>> THEN list ELSE Tail(list)

(* remove_client erases the first entry with the address, if there is one. *)
Removed(list, a) ==
  LET hits == {i \in DOMAIN list : list[i] = a} IN
  IF hits = {} THEN list
  ELSE LET i == CHOOSE i \in hits : \A j \in hits : i <= j
       IN SubSeq(list, 1, i - 1) \o SubSeq(list, i + 1, Len(list))

\* Mutants: remove_client does not raise the flag; no _on_clean_up, a client has to deregister to be forgotten.
CleanEraseQuietly(p, c) ==
  /\ Cleaning(p) /\ c \in conns
  /\ finished[c] /\ spc[c] = "done"
  /\ ClientMutexFree
  /\ scan' = [scan EXCEPT ![p] = @ \ {c}]
  /\ conns' = conns \ {c}
  /\ clients' = Removed(clients, other[c])
  /\ UNCHANGED <<countVars, running, mpc, fresh, workVars, netVars, clientVars>>

CleanEraseOnly(p, c) ==
  /\ Cleaning(p) /\ c \in conns
  /\ finished[c] /\ spc[c] = "done"
  /\ scan' = [scan EXCEPT ![p] = @ \ {c}]
  /\ conns' = conns \ {c}
  /\ UNCHANGED <<clients, countVars, running, mpc, fresh, workVars, netVars, clientVars>>

(* join() a finished connection, then _on_clean_up: remove_client, which   *)
(* also raises the update flag, and erase.                                 *)
CleanErase(p, c) ==
  /\ Cleaning(p) /\ ~Destructing /\ c \in conns
  /\ finished[c] /\ spc[c] = "done"
  /\ ClientMutexFree
  /\ scan' = [scan EXCEPT ![p] = @ \ {c}]
  /\ conns' = conns \ {c}
  /\ clients' = Removed(clients, other[c])
  /\ new' = TRUE
  /\ UNCHANGED <<passed, expected, running, mpc, fresh, workVars, netVars, clientVars>>

CleanDone(p) ==
  /\ Cleaning(p) /\ scan[p] = {}
  /\ IF p = Main
     THEN mpc' = (IF mpc = "purge" THEN "close" ELSE "accept") /\ UNCHANGED spc
     ELSE spc' = [spc EXCEPT ![p] = "count"] /\ UNCHANGED mpc
  /\ UNCHANGED <<clients, countVars, conns, running, fresh, scan, last, finished, other,
                 out, sbuf, netVars, clientVars>>

----------------------------------------------------------------------------
(* The end of the server: its loop, ~NetPort and close_all.  ~Server has    *)
(* run before ~NetPort, while workers may still use what it destroyed; its *)
(* members are taken to be readable for them as before.                    *)

(* The loop sees that _running is cleared.  A turn that is under way when   *)
(* that happens may still accept a connection.                             *)
Leave ==
  /\ mpc = "accept" /\ ~running
  /\ mpc' = "exit"
  /\ UNCHANGED <<clients, countVars, conns, running, fresh, scan, workVars, netVars,
                 clientVars>>

(* close_all begins with a _clean_up_closed. *)
BeginClose ==
  LET found == {c \in conns : finished[c]} IN
  /\ mpc = "exit" /\ ConnMutexFree
  /\ mpc' = IF found = {} THEN "close" ELSE "purge"
  /\ scan' = [scan EXCEPT ![Main] = found]
  /\ UNCHANGED <<clients, countVars, conns, running, fresh, workVars, netVars, clientVars>>

(* A clean-up in ~NetPort, by the main thread or a worker that registers    *)
(* its client, calls the pure virtual _on_clean_up after the join: the     *)
(* process dies.                                                           *)
PureCleanUp(p, c) ==
  /\ Cleaning(p) /\ Destructing /\ c \in conns
  /\ finished[c] /\ spc[c] = "done"
  /\ mpc' = "dead"
  /\ UNCHANGED <<clients, countVars, conns, running, fresh, scan, workVars, netVars,
                 clientVars>>

(* Then it takes the mutex again for its own loop. *)
LockAll ==
  /\ mpc = "close" /\ ConnMutexFree
  /\ mpc' = "closing"
  /\ scan' = [scan EXCEPT ![Main] = conns]
  /\ UNCHANGED <<clients, countVars, conns, running, fresh, workVars, netVars, clientVars>>

(* ask_to_finish of the next connection, when those before it are joined. *)
CloseNext(c) ==
  /\ mpc = "closing" /\ c \in scan[Main]
  /\ \A d \in conns \ scan[Main] : spc[d] = "done"
  /\ finished' = [finished EXCEPT ![c] = TRUE]
  /\ scan' = [scan EXCEPT ![Main] = @ \ {c}]
  /\ UNCHANGED <<clients, countVars, conns, running, mpc, fresh, spc, last, other, out,
                 sbuf, netVars, clientVars>>

(* All joined: the object is gone, and the process ends. *)
CloseDone ==
  /\ mpc = "closing" /\ scan[Main] = {}
  /\ \A d \in conns : spc[d] = "done"
  /\ mpc' = "over"
  /\ UNCHANGED <<clients, countVars, conns, running, fresh, scan, workVars, netVars,
                 clientVars>>

----------------------------------------------------------------------------
(* ServerConnection::run. *)

AfterReceive(w) == IF last[w] THEN "done" ELSE "check"

(* Everything the client sends fits the receive buffer.  Without new data  *)
(* nothing is parsed.  A client that ended yields end of file, which is    *)
(* read as zero bytes, and after the reset perhaps an error.               *)
Receive(w) ==
  LET fin == last[w] \/ finished[w] IN
  /\ spc[w] = "loop"
  /\ last' = [last EXCEPT ![w] = fin]
  /\ \/ /\ c2s[w] # <<>> \/ cst[w] = "ended"
        /\ sbuf' = [sbuf EXCEPT ![w] = @ \o c2s[w]]
        /\ c2s' = [c2s EXCEPT ![w] = <<>>]
        /\ spc' = [spc EXCEPT ![w] = "parse"]
        /\ UNCHANGED finished
     \/ /\ (c2s[w] = <<>> /\ cst[w] # "ended") \/ ~link[w]
        /\ c2s' = [c2s EXCEPT ![w] = <<>>]
        /\ spc' = [spc EXCEPT ![w] = IF fin THEN "done" ELSE "check"]
        /\ finished' = [finished EXCEPT ![w] = fin]
        /\ UNCHANGED sbuf
  /\ UNCHANGED <<clients, countVars, portVars, other, out, s2c, link, clientVars>>

ParseNothing(w) ==
  /\ spc[w] = "parse" /\ sbuf[w] = <<>>
  /\ spc' = [spc EXCEPT ![w] = AfterReceive(w)]
  /\ finished' = [finished EXCEPT ![w] = @ \/ last[w]]
  /\ UNCHANGED <<clients, countVars, portVars, last, other, out, sbuf, netVars, clientVars>>

\* Mutant: the list gets _conn_other before it is assigned.
ParseRegisterUnset(w) ==
  /\ spc[w] = "parse" /\ sbuf[w] # <<>> /\ Head(sbuf[w]) = "REGISTER"
  /\ ClientMutexFree
  /\ clients' = Append(clients, other[w])
  /\ other' = [other EXCEPT ![w] = Addr[w]]
  /\ sbuf' = [sbuf EXCEPT ![w] = Tail(@)]
  /\ spc' = [spc EXCEPT ![w] = "clean"]
  /\ UNCHANGED <<countVars, portVars, last, finished, out, netVars, clientVars>>

(* REGISTER: remember the address; update_and_alert pushes it under        *)
(* _client_mutex, cleans up (CleanWorker), and then, under                 *)
(* _connections_mutex, sets the number of passes and the flag, which       *)
(* get_clients reads under _client_mutex (CountExpected, Alert).           *)
ParseRegister(w) ==
  /\ spc[w] = "parse" /\ sbuf[w] # <<>> /\ Head(sbuf[w]) = "REGISTER"
  /\ ClientMutexFree
  /\ other' = [other EXCEPT ![w] = Addr[w]]
  /\ clients' = Append(clients, Addr[w])
  /\ sbuf' = [sbuf EXCEPT ![w] = Tail(@)]
  /\ spc' = [spc EXCEPT ![w] = "clean"]
  /\ UNCHANGED <<countVars, portVars, last, finished, out, netVars, clientVars>>

CountExpected(w) ==
  /\ spc[w] = "count" /\ ConnMutexFree
  /\ expected' = Cardinality(conns)
  /\ spc' = [spc EXCEPT ![w] = "raise"]
  /\ UNCHANGED <<clients, passed, new, portVars, last, finished, other, out, sbuf, netVars,
                 clientVars>>

\* Mutant: a registration does not raise the flag.
AlertQuietly(w) ==
  /\ spc[w] = "raise"
  /\ spc' = [spc EXCEPT ![w] = AfterReceive(w)]
  /\ finished' = [finished EXCEPT ![w] = @ \/ last[w]]
  /\ UNCHANGED <<clients, countVars, portVars, last, other, out, sbuf, netVars, clientVars>>

Alert(w) ==
  /\ spc[w] = "raise"
  /\ new' = TRUE
  /\ spc' = [spc EXCEPT ![w] = AfterReceive(w)]
  /\ finished' = [finished EXCEPT ![w] = @ \/ last[w]]
  /\ UNCHANGED <<clients, passed, expected, portVars, last, other, out, sbuf, netVars,
                 clientVars>>

(* DEREGISTER: remove_client. *)
ParseDeregister(w) ==
  /\ spc[w] = "parse" /\ sbuf[w] # <<>> /\ Head(sbuf[w]) = "DEREGISTER"
  /\ ClientMutexFree
  /\ clients' = Removed(clients, Addr[w])
  /\ new' = TRUE
  /\ sbuf' = [sbuf EXCEPT ![w] = Tail(@)]
  /\ spc' = [spc EXCEPT ![w] = AfterReceive(w)]
  /\ finished' = [finished EXCEPT ![w] = @ \/ last[w]]
  /\ UNCHANGED <<passed, expected, portVars, last, other, out, netVars, clientVars>>

\* Mutant: a worker asked to finish first cleans up and alerts the others.
ParseShutdownClean(w) ==
  /\ spc[w] = "parse" /\ sbuf[w] # <<>> /\ Head(sbuf[w]) = "SHUTDOWN"
  /\ finished' = [finished EXCEPT ![w] = TRUE]
  /\ sbuf' = [sbuf EXCEPT ![w] = Tail(@)]
  /\ spc' = [spc EXCEPT ![w] = "clean"]
  /\ UNCHANGED <<clients, countVars, portVars, last, other, out, netVars, clientVars>>

(* SHUTDOWN: ask_to_finish. *)
ParseShutdown(w) ==
  /\ spc[w] = "parse" /\ sbuf[w] # <<>> /\ Head(sbuf[w]) = "SHUTDOWN"
  /\ finished' = [finished EXCEPT ![w] = TRUE]
  /\ sbuf' = [sbuf EXCEPT ![w] = Tail(@)]
  /\ spc' = [spc EXCEPT ![w] = AfterReceive(w)]
  /\ UNCHANGED <<clients, countVars, portVars, last, other, out, netVars, clientVars>>

(* TEARDOWN: request_teardown, which takes _connections_mutex ... *)
ParseTeardown(w) ==
  /\ spc[w] = "parse" /\ sbuf[w] # <<>> /\ Head(sbuf[w]) = "TEARDOWN"
  /\ sbuf' = [sbuf EXCEPT ![w] = Tail(@)]
  /\ spc' = [spc EXCEPT ![w] = "ask"]
  /\ UNCHANGED <<clients, countVars, portVars, last, finished, other, out, netVars, clientVars>>

BeginTeardown(w) ==
  /\ spc[w] = "ask" /\ ConnMutexFree
  /\ spc' = [spc EXCEPT ![w] = "telling"]
  /\ scan' = [scan EXCEPT ![w] = conns]
  /\ UNCHANGED <<clients, countVars, conns, running, mpc, fresh, last, finished, other, out,
                 sbuf, netVars, clientVars>>

(* ... to send to every client; a send that fails asks the worker of that   *)
(* connection to finish, wherever it is.                                   *)
SendTeardown(w, c) ==
  /\ spc[w] = "telling" /\ c \in scan[w]
  /\ scan' = [scan EXCEPT ![w] = @ \ {c}]
  /\ finished' = [finished EXCEPT ![c] = @ \/ ~link[c]]
  /\ UNCHANGED <<clients, countVars, conns, running, mpc, fresh, spc, last, other, out, sbuf,
                 netVars, clientVars>>

(* After a second of sleep _running is cleared, the mutex released, and the *)
(* worker asks itself to finish.                                           *)
EndTeardown(w) ==
  /\ spc[w] = "telling" /\ scan[w] = {}
  /\ running' = FALSE
  /\ finished' = [finished EXCEPT ![w] = TRUE]
  /\ spc' = [spc EXCEPT ![w] = AfterReceive(w)]
  /\ UNCHANGED <<clients, countVars, conns, mpc, fresh, scan, last, other, out, sbuf,
                 netVars, clientVars>>

(* if(_server._new_update), read without a lock. *)
CheckUpdate(w) ==
  /\ spc[w] = "check"
  /\ spc' = [spc EXCEPT ![w] = IF new THEN "snap" ELSE "alive"]
  /\ UNCHANGED <<clients, countVars, portVars, last, finished, other, out, sbuf, netVars,
                 clientVars>>

(* get_clients: the list, and one more worker has passed the update on. *)
GetClients(w) ==
  LET enough == passed + 1 >= expected IN
  /\ spc[w] = "snap" /\ ClientMutexFree
  /\ out' = [out EXCEPT ![w] = Elements(clients)]
  /\ passed' = passed + 1
  /\ spc' = [spc EXCEPT ![w] = IF enough THEN "reset" ELSE "send"]
  /\ UNCHANGED <<clients, expected, new, portVars, last, finished, other, sbuf, netVars,
                 clientVars>>

(* Still inside get_clients; update_and_alert may have come in between.    *)
ResetUpdate(w) ==
  /\ spc[w] = "reset"
  /\ passed' = 0
  /\ new' = FALSE
  /\ spc' = [spc EXCEPT ![w] = "send"]
  /\ UNCHANGED <<clients, expected, portVars, last, finished, other, out, sbuf, netVars,
                 clientVars>>

(* Send the list; a failed send leaves the loop. *)
SendUpdate(w) ==
  /\ spc[w] = "send"
  /\ cst[w] # "ended" => Len(s2c[w]) < SCap
  /\ s2c' = IF cst[w] = "ended" THEN s2c ELSE [s2c EXCEPT ![w] = Append(@, out[w])]
  /\ out' = [out EXCEPT ![w] = {}]
  /\ spc' = [spc EXCEPT ![w] = IF link[w] THEN "alive" ELSE "loop"]
  /\ last' = [last EXCEPT ![w] = ~link[w]]
  /\ UNCHANGED <<clients, countVars, portVars, finished, other, sbuf, c2s, link, clientVars>>

\* Mutant: the result of _keep_alive is ignored.
KeepAliveIgnored(w) ==
  /\ spc[w] = "alive"
  /\ spc' = [spc EXCEPT ![w] = "loop"]
  /\ UNCHANGED <<clients, countVars, portVars, last, finished, other, out, sbuf, netVars,
                 clientVars>>

(* _keep_alive; a failed send leaves the loop. *)
KeepAlive(w) ==
  /\ spc[w] = "alive"
  /\ spc' = [spc EXCEPT ![w] = "loop"]
  /\ last' = [last EXCEPT ![w] = ~link[w]]
  /\ UNCHANGED <<clients, countVars, portVars, finished, other, out, sbuf, netVars,
                 clientVars>>

----------------------------------------------------------------------------
Worker(w) ==
  \/ Receive(w) \/ ParseNothing(w)
  \/ ParseRegister(w) \/ CleanWorker(w) \/ CountExpected(w) \/ Alert(w)
  \/ ParseDeregister(w) \/ ParseShutdown(w)
  \/ ParseTeardown(w) \/ BeginTeardown(w) \/ EndTeardown(w)
  \/ \E c \in Conn : SendTeardown(w, c)
  \/ CheckUpdate(w) \/ GetClients(w) \/ ResetUpdate(w) \/ SendUpdate(w) \/ KeepAlive(w)

Sweep(p) == CleanDone(p) \/ \E c \in Conn : CleanErase(p, c) \/ PureCleanUp(p, c)

Thread(c) == Worker(c) \/ Sweep(c)

MainStep ==
  \/ \E c \in Conn : Accept(c) \/ CloseNext(c)
  \/ Push \/ CleanMain \/ Sweep(Main)
  \/ Leave \/ BeginClose \/ LockAll \/ CloseDone

Process(c) == Update(c) \/ SendShutdown(c) \/ Close(c) \/ Cut(c)

(* What clients do without a server is not modelled here. *)
Next ==
  /\ mpc \notin {"over", "dead"}
  /\ \/ MainStep
     \/ \E c \in Conn : \/ Thread(c) \/ Process(c)
                        \/ Register(c) \/ Deregister(c) \/ Crash(c) \/ AskTeardown(c)

Spec == Init /\ [][Next]_vars

(* Every thread is scheduled, and nobody waits for a mutex or for room in   *)
(* a socket for ever: mutexes are held briefly and their holders yield.  A *)
(* thread is at one place at a time, so one condition covers all its steps *)
(* (the main thread accepts and erases each connection once).  Whether a   *)
(* client starts, leaves or crashes is its own affair.                     *)
Fairness ==
  /\ SF_vars(MainStep)
  /\ \A c \in Conn : SF_vars(Thread(c)) /\ WF_vars(Process(c))

FairSpec == Spec /\ Fairness

----------------------------------------------------------------------------
(* Properties. *)

MainPc == {"accept", "push", "cleaning", "exit", "purge", "close", "closing", "over", "dead"}
WorkerPc == {"none", "loop", "parse", "clean", "cleaning", "count", "raise", "ask", "telling",
             "check", "snap", "reset", "send", "alive", "done"}
PacketType == {"REGISTER", "DEREGISTER", "SHUTDOWN", "TEARDOWN"}

(* Every variable has its type. *)
TypeOK ==
  /\ clients \in Seq(Client)
  /\ passed \in Nat /\ expected \in Nat /\ new \in BOOLEAN
  /\ conns \in SUBSET Conn /\ fresh \in SUBSET Conn
  /\ running \in BOOLEAN /\ mpc \in MainPc
  /\ scan \in [Cleaner -> SUBSET Conn]
  /\ spc \in [Conn -> WorkerPc]
  /\ last \in [Conn -> BOOLEAN] /\ finished \in [Conn -> BOOLEAN]
  /\ other \in [Conn -> Client \cup {NoAddr}]
  /\ out \in [Conn -> SUBSET Client]
  /\ sbuf \in [Conn -> Seq(PacketType)]
  /\ c2s \in [Conn -> Seq(PacketType)]
  /\ s2c \in [Conn -> Seq(SUBSET Client)]
  /\ link \in [Conn -> BOOLEAN]
  /\ cst \in [Conn -> {"unborn", "running", "leaving", "closing", "ended"}]
  /\ view \in [Conn -> SUBSET Client]

(* The server lists an address no more often than it has connections that  *)
(* registered it and are not cleaned up: DEREGISTER and _on_clean_up       *)
(* between them forget every client, whatever way it ended.                *)
NoGhosts ==
  \A a \in Client :
    Cardinality({i \in DOMAIN clients : clients[i] = a})
      <= Cardinality({c \in conns \cup fresh : other[c] = a})

(* report/doc.md:77-78: the server keeps the list of registered clients.   *)
(* As long as it runs, a client that runs and whose REGISTER was taken is  *)
(* on the list.                                                            *)
ListedWhileRunning ==
  running => \A c \in Conn : cst[c] = "running" /\ other[c] # NoAddr =>
    Addr[c] \in Elements(clients)

(* _clean_up_closed joins workers while it holds _connections_mutex        *)
(* (netport.cpp:84-89): as long as the server runs, none of them may be one *)
(* that wants that mutex, the cleaning thread itself included, or nobody   *)
(* ever gets it again.  Once a teardown has cleared _running this fails,   *)
(* as report/doc.md:599 reports ("Sometimes threads appear to try to join  *)
(* themselves"): a worker whose TEARDOWN could not be sent is finished     *)
(* although its REGISTER may still be to come, and joins itself in         *)
(* update_and_alert; and close_all joins workers whose last receive may    *)
(* still register their client and wait for the mutex it holds.            *)
NoJoinCycle ==
  running => \A p \in Cleaner : Cleaning(p) =>
    \A c \in conns : finished[c] =>
      spc[c] \notin {"clean", "cleaning", "count", "raise", "ask", "telling"}

(* Of two clients, at least one learns of the other, so that it opens the   *)
(* connection both use, if they keep running.                              *)
PairLearns ==
  \A c, d \in Conn : Addr[c] # Addr[d] =>
    (cst[c] = "running" /\ cst[d] = "running")
      ~> \/ Addr[c] \in view[d] \/ Addr[d] \in view[c]
         \/ cst[c] # "running" \/ cst[d] # "running"

(* report/doc.md:12-13: a client opens connections to all other nodes.     *)
(* Once the server is done with an update and all packets are read, of any *)
(* two registered clients at least one knows of the other (without         *)
(* faults).                                                                *)
Settled ==
  /\ mpc = "accept" /\ ~new
  /\ \A c \in Conn : /\ other[c] # NoAddr /\ spc[c] \in {"loop", "check", "alive"}
                     /\ s2c[c] = <<>>

PairInformed ==
  Settled => \A c, d \in Conn :
               Addr[c] = Addr[d] \/ Addr[c] \in view[d] \/ Addr[d] \in view[c]

(* A client that ended, with or without a word, leaves the server's list   *)
(* and its connection is cleaned up.                                       *)
EndedForgotten ==
  \A c \in Conn :
    cst[c] = "ended" ~> c \notin conns /\ Addr[c] \notin Elements(clients)

(* report/doc.md:80-81: clients leave and the whole network is updated.     *)
(* With two clients the one that stays learns that the other ended.        *)
PeersForget ==
  \A c, d \in Conn : Addr[c] # Addr[d] =>
    (cst[c] = "running" /\ cst[d] = "ended")
      ~> (cst[c] # "running" \/ Addr[d] \notin view[c])

============================================================================
