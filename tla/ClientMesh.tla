----------------------------- MODULE ClientMesh -----------------------------
(***************************************************************************)
(* The connections of the clients among themselves, from the first list of *)
(* clients to the end of the process.                                      *)
(*                                                                         *)
(* A client connects to every listed client it finds no connection to.     *)
(* Two threads look: the main loop, and an application's thread inside     *)
(* get_value.  What an accepting client knows of its peer is the address   *)
(* the peer's socket was given, since the empty ID packet of _as_client is *)
(* refused; so each side also opens a connection of its own, and a key is  *)
(* known under the address of whichever connection announced it last.      *)
(*                                                                         *)
(* An element of Link is a TCP connection; its ends are <<l, "out">> at    *)
(* the client that connected and <<l, "in">> at the one that accepts.  A   *)
(* Link is used again when both ends are closed, as a port is.  A Holder   *)
(* has one key of its own, named by the client.  What workers send is      *)
(* their list of keys, empty or not, over and over: a worker whose peer no *)
(* longer reads ends up in _send_packet.  (Two workers that block each     *)
(* other while both run are the subject of CtCRequests, and what the       *)
(* server knows is that of ServerUpdates.)                                 *)
(***************************************************************************)
EXTENDS Naturals, Sequences, FiniteSets, SequencesExt

CONSTANTS
  Node,       \* clients
  Holders,    \* those with a key in their local map
  Link,       \* TCP connections at one time
  None,
  Budgets     \* bounds, one of which holds for a whole behaviour:
              \*   apps      clients whose application does anything
              \*   losses    connections the network breaks
              \*   gets      calls of get_value of an application
              \*   teardown  whether the teardown is requested at all

ASSUME MeshAssumption ==
  /\ Holders \subseteq Node /\ None \notin Node
  /\ Node \cap (Link \X {"out", "in"}) = {}  \* addresses listened on, and others
  /\ Budgets \subseteq [apps : SUBSET Node, losses : Nat, gets : Nat, teardown : BOOLEAN]

VARIABLES
  mode,      \* where a process is in its life
  running,   \* NetPort::_running
  step,      \* [client -> [thread -> where it is in its loop]]
  todo,      \* [client -> [thread -> to_connect]]
  gets,      \* calls of get_value begun
  target,    \* the address get_value looks for, then the end it waits on
  listed,    \* Client::_other_clients
  told,      \* clients TEARDOWN has been sent to
  from, to,  \* Link -> the client that connects, the client it connects to
  worker,    \* end -> what its worker does
  conns,     \* NetPort::_connections: a sequence of ends
  closing,   \* connections that close_all has asked to finish
  broken,    \* links the network has broken
  where,     \* [client -> [holder -> KVStore::Key::_node of the latter's key]]
  losses,    \* links broken so far
  budget     \* the bounds that hold

life == <<mode, running, told>>
threads == <<step, todo, gets, target>>
links == <<from, to, worker, conns, broken, losses>>
vars == <<life, threads, listed, links, closing, where, budget>>

Thread == {"main", "app"}
End == Link \X {"out", "in"}

Peer(e) == <<e[1], IF e[2] = "out" THEN "in" ELSE "out">>
At(e) == IF e[2] = "out" THEN from[e[1]] ELSE to[e[1]]

(* _conn_other: the address listened on, or that of the peer's socket.     *)
Other(e) == IF e[2] = "out" THEN to[e[1]] ELSE e

Ended(n) == mode[n] \in {"exited", "crashed", "terminated"}

Init ==
  /\ budget \in Budgets
  /\ mode = [n \in Node |-> "listening"]
  /\ running = [n \in Node |-> TRUE]
  /\ step = [n \in Node |-> [t \in Thread |-> IF t = "main" THEN "accept"
                                            ELSE IF n \in budget.apps THEN "idle" ELSE "done"]]
  /\ todo = [n \in Node |-> [t \in Thread |-> {}]]
  /\ gets = [n \in Node |-> 0]
  /\ target = [n \in Node |-> None]
  /\ listed = [n \in Node |-> {}]
  /\ told = {}
  /\ from = [l \in Link |-> None] /\ to = [l \in Link |-> None]
  /\ worker = [e \in End |-> "none"]
  /\ conns = [n \in Node |-> <<>>]
  /\ closing = [n \in Node |-> 0]
  /\ broken = {}
  /\ where = [n \in Node |-> [m \in Holders |-> None]]
  /\ losses = 0

Goto(n, t, s) == step' = [step EXCEPT ![n][t] = s]

----------------------------------------------------------------------------
(* Ends and their links. *)

(* The descriptors of the ends in es are closed; a link without open ends  *)
(* may be used again.                                                      *)
Close(es) ==
  LET closed == [e \in End |-> IF e \in es THEN "closed" ELSE worker[e]]
      Free(l) == \A e \in {<<l, "out">>, <<l, "in">>} : closed[e] \in {"none", "closed"}
  IN  /\ worker' = [e \in End |-> IF Free(e[1]) THEN "none" ELSE closed[e]]
      /\ from' = [l \in Link |-> IF Free(l) THEN None ELSE from[l]]
      /\ to' = [l \in Link |-> IF Free(l) THEN None ELSE to[l]]
      /\ broken' = {l \in broken : ~Free(l)}

(* All ends of a process, those it has not accepted yet included.          *)
EndsOf(n) == {e \in End : At(e) = n /\ worker[e] # "none"}

Run(e, s) == worker' = [worker EXCEPT ![e] = s]

(* close_all has asked the worker of e to finish.                          *)
Asked(e) ==
  LET n == At(e) IN \E i \in 1..closing[n] : i \in DOMAIN conns[n] /\ conns[n][i] = e

Unreachable(e) == e[1] \in broken \/ worker[Peer(e)] \in {"none", "closed"}

(* connect_to_target, then the ID packet.                                  *)
Connected(e) ==
  /\ worker[e] = "connect"
  /\ IF Ended(to[e[1]]) \/ e[1] \in broken
     THEN Run(e, "finished")
     ELSE worker' = [worker EXCEPT ![e] = "run", ![Peer(e)] = "backlog"]
  /\ UNCHANGED <<life, threads, listed, from, to, conns, broken, losses, closing, where, budget>>

\* Mutant: a key that is known is not given its new address.
KeyListOnce(e) ==
  /\ worker[e] = "run" /\ worker[Peer(e)] \notin {"none", "connect", "backlog"}
  /\ At(Peer(e)) \in Holders
  /\ where' = [where EXCEPT ![At(e)][At(Peer(e))] = IF @ = None THEN Other(e) ELSE @]
  /\ UNCHANGED <<life, threads, listed, links, closing, budget>>

(* A list of the peer's keys arrives, sent before the peer's worker ended  *)
(* perhaps: _update_keys, KVStore::add_nonlocal.                           *)
KeyList(e) ==
  /\ worker[e] = "run" /\ worker[Peer(e)] \notin {"none", "connect", "backlog"}
  /\ At(Peer(e)) \in Holders
  /\ where' = [where EXCEPT ![At(e)][At(Peer(e))] = Other(e)]
  /\ UNCHANGED <<life, threads, listed, links, closing, budget>>

\* Mutant: sending is given up after some attempts.
JamGivesUp(e) ==
  /\ worker[e] = "run" /\ worker[Peer(e)] \in {"backlog", "finished"} /\ e[1] \notin broken
  /\ Run(e, "finished")
  /\ UNCHANGED <<life, threads, listed, from, to, conns, broken, losses, closing, where, budget>>

(* The buffers towards a peer that does not read fill up: _send_packet     *)
(* tries again for as long as it takes.                                    *)
Jam(e) ==
  /\ worker[e] = "run" /\ worker[Peer(e)] \in {"backlog", "finished"} /\ e[1] \notin broken
  /\ Run(e, "stuck")
  /\ UNCHANGED <<life, threads, listed, from, to, conns, broken, losses, closing, where, budget>>

Unjam(e) ==
  /\ worker[e] = "stuck" /\ worker[Peer(e)] = "run"
  /\ Run(e, "run")
  /\ UNCHANGED <<life, threads, listed, from, to, conns, broken, losses, closing, where, budget>>

(* The worker's loop ends: sending failed, or it was asked to finish.      *)
Leave(e) ==
  /\ \/ worker[e] \in {"run", "stuck"} /\ Unreachable(e)
     \/ worker[e] = "run" /\ Asked(e)
  /\ Run(e, "finished")
  /\ UNCHANGED <<life, threads, listed, from, to, conns, broken, losses, closing, where, budget>>

Loss(l) ==
  /\ losses < budget.losses /\ from[l] # None /\ l \notin broken
  /\ losses' = losses + 1
  /\ broken' = broken \cup {l}
  /\ UNCHANGED <<life, threads, listed, from, to, worker, conns, closing, where, budget>>

----------------------------------------------------------------------------
(* The threads of a client. *)

Active(n, t) == mode[n] \in {"main", "over"} /\ (t = "main" => mode[n] = "main")

(* _accept_connection, with or without a connection to accept.             *)
Accept(n) ==
  /\ Active(n, "main") /\ step[n]["main"] = "accept" /\ running[n]
  /\ LET waiting == {e \in End : worker[e] = "backlog" /\ At(e) = n}
     IN  IF waiting = {} THEN UNCHANGED <<worker, conns>>
         ELSE \E e \in waiting :
                Run(e, "run") /\ conns' = [conns EXCEPT ![n] = Append(@, e)]
  /\ Goto(n, "main", "clean")
  /\ UNCHANGED <<life, todo, gets, target, listed, from, to, broken, losses, closing, where, budget>>

(* get_value is called, for a key whose address is known.                  *)
Get(n) ==
  /\ Active(n, "app") /\ step[n]["app"] = "idle" /\ gets[n] < budget.gets
  /\ \E m \in Holders \ {n} :
       where[n][m] # None /\ target' = [target EXCEPT ![n] = where[n][m]]
  /\ gets' = [gets EXCEPT ![n] = @ + 1]
  /\ Goto(n, "app", "clean")
  /\ UNCHANGED <<life, todo, listed, links, closing, where, budget>>

(* The connections in s that are not erased, in the order they were.       *)
Kept(s, done) ==
  LET F[i \in 0..Len(s)] ==
        IF i = 0 THEN <<>>
        ELSE IF s[i] \in done THEN F[i - 1] ELSE Append(F[i - 1], s[i])
  IN  F[Len(s)]

(* The connection that a thread in _get_value_helper shares.               *)
Held(n) == {e \in End : step[n]["app"] = "wait" /\ target[n] = e}

(* _clean_up_closed: the connections whose worker has finished are erased, *)
(* and closed unless a thread still waits on them.                         *)
CleanUp(n, t) ==
  /\ Active(n, t) /\ step[n][t] = "clean"
  /\ LET done == {e \in ToSet(conns[n]) : worker[e] = "finished"}
     IN  /\ conns' = [conns EXCEPT ![n] = Kept(@, done)]
         /\ Close(done \ Held(n))
  /\ Goto(n, t, "check")
  /\ UNCHANGED <<life, todo, gets, target, listed, losses, closing, where, budget>>

(* What follows when nobody is left to connect to: the next round of the   *)
(* main loop; in get_value the search.                                     *)
Again(t) == IF t = "main" THEN "accept" ELSE "search"

\* Mutant: whoever is listed is connected to.
CheckListed(n, t) ==
  /\ Active(n, t) /\ step[n][t] = "check"
  /\ todo' = [todo EXCEPT ![n][t] = listed[n]]
  /\ Goto(n, t, IF todo'[n][t] = {} THEN Again(t) ELSE "connect")
  /\ UNCHANGED <<life, gets, target, listed, links, closing, where, budget>>

(* _check_client_updates, under its two mutexes: the listed clients that   *)
(* are the address of no connection.  (Before the first list _client_update*)
(* is not set; then it stays set.)                                         *)
CheckUpdates(n, t) ==
  /\ Active(n, t) /\ step[n][t] = "check"
  /\ todo' = [todo EXCEPT ![n][t] = {m \in listed[n] : \A e \in ToSet(conns[n]) : Other(e) # m}]
  /\ Goto(n, t, IF todo'[n][t] = {} THEN Again(t) ELSE "connect")
  /\ UNCHANGED <<life, gets, target, listed, links, closing, where, budget>>

(* _connect_to_client for one of them.                                     *)
Connect(n, t) ==
  /\ Active(n, t) /\ step[n][t] = "connect"
  /\ \E m \in todo[n][t], l \in Link :
       /\ from[l] = None /\ l = CHOOSE k \in Link : from[k] = None
       /\ from' = [from EXCEPT ![l] = n] /\ to' = [to EXCEPT ![l] = m]
       /\ Run(<<l, "out">>, "connect")
       /\ conns' = [conns EXCEPT ![n] = Append(@, <<l, "out">>)]
       /\ todo' = [todo EXCEPT ![n][t] = @ \ {m}]
       /\ Goto(n, t, IF todo'[n][t] = {} THEN Again(t) ELSE "connect")
  /\ UNCHANGED <<life, gets, target, listed, broken, losses, closing, where, budget>>

(* The process dies, and its descriptors are closed.                       *)
Die(n, how) ==
  /\ mode' = [mode EXCEPT ![n] = how]
  /\ Close(EndsOf(n))
  /\ conns' = [conns EXCEPT ![n] = <<>>]
  /\ closing' = [closing EXCEPT ![n] = 0]

(* The connection get_value looks for: the first with the key's address.   *)
Found(n) ==
  {e \in ToSet(conns[n]) :
     Other(e) = target[n]
     /\ \E i \in DOMAIN conns[n] : conns[n][i] = e /\ \A j \in 1..(i - 1) : Other(conns[n][j]) # target[n]}

(* The search of get_value under _connections_mutex and, without it, the   *)
(* assert of _get_value_helper that the connection has not finished: no    *)
(* connection returns nullptr, a finished one aborts the process, and on   *)
(* another the thread waits for as long as it takes.                       *)
Search(n) ==
  /\ Active(n, "app") /\ step[n]["app"] = "search"
  /\ \/ /\ Found(n) = {}
        /\ Goto(n, "app", "idle") /\ target' = [target EXCEPT ![n] = None]
        /\ UNCHANGED <<mode, links, closing>>
     \/ /\ \E e \in Found(n) : worker[e] = "finished"
        /\ Die(n, "crashed")
        /\ UNCHANGED <<step, target, losses>>
     \/ \E e \in Found(n) :
          /\ worker[e] # "finished"
          /\ Goto(n, "app", "wait") /\ target' = [target EXCEPT ![n] = e]
          /\ UNCHANGED <<mode, links, closing>>
  /\ UNCHANGED <<running, told, todo, gets, listed, where, budget>>

(* The answer arrives, sent before the peer's worker ended perhaps.  (What *)
(* else may wake the thread, and with what, is the subject of CtCRequests.)*)
Answered(n) ==
  /\ Active(n, "app")
  /\ \E e \in Held(n) : worker[e] = "run" /\ worker[Peer(e)] \notin {"none", "connect", "backlog"}
  /\ Goto(n, "app", "idle") /\ target' = [target EXCEPT ![n] = None]
  /\ UNCHANGED <<life, todo, gets, listed, links, closing, where, budget>>

(* The application needs nothing more and joins the network thread.        *)
Finish(n) ==
  /\ Active(n, "app") /\ step[n]["app"] = "idle"
  /\ Goto(n, "app", "done")
  /\ UNCHANGED <<life, todo, gets, target, listed, links, closing, where, budget>>

----------------------------------------------------------------------------
(* The life of a process. *)

(* Client::_initial, the network thread listening already; the connection  *)
(* to the server registers the client.                                     *)
Initial(n) ==
  /\ mode[n] = "listening"
  /\ mode' = [mode EXCEPT ![n] = "main"]
  /\ UNCHANGED <<running, told, threads, listed, links, closing, where, budget>>

(* A list of clients arrives.                                              *)
ClientUpdate(n) ==
  /\ mode[n] \in {"main", "over"}
  /\ listed' = [listed EXCEPT ![n] = {m \in Node \ {n} : mode[m] \in {"main", "over"}}]
  /\ UNCHANGED <<life, threads, links, closing, where, budget>>

(* Client::request_teardown, which takes _server_connection for set; the   *)
(* server passes the request to all its connections, as far as it gets     *)
(* (ServerUpdates).                                                        *)
RequestTeardown(n) ==
  /\ mode[n] \in {"listening", "main"} /\ step[n]["app"] = "idle" /\ told = {} /\ budget.teardown
  /\ Goto(n, "app", "done")
  /\ IF mode[n] = "listening"
     THEN Die(n, "crashed") /\ UNCHANGED told
     ELSE /\ told' \in SUBSET {m \in Node : mode[m] = "main"}
          /\ UNCHANGED <<mode, from, to, worker, conns, broken, closing>>
  /\ UNCHANGED <<running, todo, gets, target, listed, losses, where, budget>>

(* CtSConnection receives TEARDOWN.                                        *)
Teardown(n) ==
  /\ n \in told /\ running[n] /\ ~Ended(n)
  /\ running' = [running EXCEPT ![n] = FALSE]
  /\ UNCHANGED <<mode, told, threads, listed, links, closing, where, budget>>

MainLoopEnds(n) ==
  /\ mode[n] = "main" /\ step[n]["main"] = "accept" /\ ~running[n]
  /\ mode' = [mode EXCEPT ![n] = "over"]
  /\ UNCHANGED <<running, told, threads, listed, links, closing, where, budget>>

(* The application has joined the network thread and the process ends.     *)
(* ~Client has the connection to the server finish, which deregisters.     *)
(* ~NetPort, close_all: _clean_up_closed calls _on_clean_up, by now pure   *)
(* virtual, for a connection whose worker has finished.                    *)
BeginCloseAll(n) ==
  /\ mode[n] = "over" /\ step[n]["app"] = "done"
  /\ IF \E e \in ToSet(conns[n]) : worker[e] = "finished"
     THEN Die(n, "terminated")
     ELSE /\ mode' = [mode EXCEPT ![n] = "closing"]
          /\ UNCHANGED <<from, to, worker, conns, broken, closing>>
  /\ UNCHANGED <<running, told, threads, listed, losses, where, budget>>

\* Mutant: the worker is joined without being asked to finish.
AskAndJoinUnasked(n) ==
  /\ mode[n] = "closing" /\ closing[n] < Len(conns[n])
  /\ worker[conns[n][closing[n] + 1]] = "finished"
  /\ closing' = [closing EXCEPT ![n] = @ + 1]
  /\ UNCHANGED <<life, threads, listed, links, where, budget>>

(* One connection after the other is asked to finish and joined.           *)
AskAndJoin(n) ==
  /\ mode[n] = "closing" /\ closing[n] < Len(conns[n])
  /\ closing[n] > 0 => worker[conns[n][closing[n]]] = "finished"
  /\ closing' = [closing EXCEPT ![n] = @ + 1]
  /\ UNCHANGED <<life, threads, listed, links, where, budget>>

(* All are closed at once, and the listening socket with them.             *)
EndCloseAll(n) ==
  /\ mode[n] = "closing" /\ closing[n] = Len(conns[n])
  /\ closing[n] > 0 => worker[conns[n][closing[n]]] = "finished"
  /\ Die(n, "exited")
  /\ UNCHANGED <<running, told, threads, listed, losses, where, budget>>

----------------------------------------------------------------------------

ThreadStep(n, t) == CleanUp(n, t) \/ CheckUpdates(n, t) \/ Connect(n, t)

Lives(n) ==
  \/ Initial(n) \/ Teardown(n) \/ MainLoopEnds(n)
  \/ BeginCloseAll(n) \/ AskAndJoin(n) \/ EndCloseAll(n)

Works(e) == Connected(e) \/ Unjam(e) \/ Leave(e)

Next ==
  \/ \E n \in Node :
       \/ Lives(n) \/ ClientUpdate(n) \/ RequestTeardown(n)
       \/ Accept(n) \/ Get(n) \/ Search(n) \/ Answered(n) \/ Finish(n)
       \/ \E t \in Thread : ThreadStep(n, t)
  \/ \E e \in End : Works(e) \/ KeyList(e) \/ Jam(e)
  \/ \E l \in Link : Loss(l)

Spec == Init /\ [][Next]_vars

(* Threads are scheduled; a worker that runs goes on sending its keys, and *)
(* its peer, if it runs, goes on receiving them.  An application need not  *)
(* call anything, get an answer, or come to its end.                       *)
Listening(n) == Accept(n) \/ ThreadStep(n, "main") \/ MainLoopEnds(n)
Proceeding(n) ==
  \/ Initial(n) \/ ThreadStep(n, "app") \/ Search(n)
  \/ BeginCloseAll(n) \/ AskAndJoin(n) \/ EndCloseAll(n)

FairSpec ==
  /\ Spec
  /\ \A n \in Node : WF_vars(Listening(n)) /\ WF_vars(Proceeding(n)) /\ WF_vars(Teardown(n))
  /\ \A e \in End : WF_vars(Works(e)) /\ WF_vars(worker[Peer(e)] = "run" /\ KeyList(e))

----------------------------------------------------------------------------
(* Properties. *)

(* However the threads that look for missing connections interleave, and   *)
(* whatever is lost meanwhile, a client has, or is about to open, at most  *)
(* one connection for each of these threads to another client              *)
(* (client.cpp:111-124).                                                   *)
DuplicatesBounded ==
  \A n, m \in Node :
    Cardinality({e \in ToSet(conns[n]) : Other(e) = m}) + Cardinality({t \in Thread : m \in todo[n][t]})
      <= IF n \in budget.apps THEN 2 ELSE 1

(* Once connections are no longer lost, a client that keeps running and    *)
(* knows of another comes to know its key by an address get_value finds a  *)
(* working connection to it under (client.cpp:72-76, ctc_connection.cpp:94 *)
(* and 164).                                                               *)
Leads(n, m) ==
  \E e \in ToSet(conns[n]) :
    Other(e) = where[n][m] /\ At(Peer(e)) = m /\ {worker[e], worker[Peer(e)]} = {"run"}

KeysReachable ==
  \A n \in Node : \A m \in Holders \ {n} :
    <>[](mode[n] = "main" /\ mode[m] = "main" /\ running[n] /\ running[m] /\ m \in listed[n])
      => <>[]Leads(n, m)

(* A teardown ends all processes it reaches, provided their applications   *)
(* come to an end (one that waits for an answer over a connection that is  *)
(* closed at the other side never does: client.cpp:64), unless some of     *)
(* them stand in a circle in close_all: each joins a worker that is stuck  *)
(* sending to the next, which no longer reads and closes nothing before    *)
(* its own join returns (netport.cpp:54-58).                               *)
Joins(n, m) ==
  /\ mode[n] = "closing" /\ closing[n] > 0
  /\ LET e == conns[n][closing[n]] IN worker[e] = "stuck" /\ At(Peer(e)) = m

Circle == \E ns \in (SUBSET Node) \ {{}} : \A n \in ns : \E m \in ns : Joins(n, m)

TeardownEnds ==
  (told # {} /\ \A n \in told : step[n]["app"] = "done")
    ~> (Circle \/ \A n \in told : Ended(n))

(* Nobody's connection finishes by itself: unless the network breaks one,  *)
(* the first process to end ends in order, or has asked for the teardown   *)
(* before it had a connection to the server (client.cpp:55).  Only those   *)
(* after it may meet the pure virtual _on_clean_up (netport.cpp:90).       *)
FirstEndsInOrder ==
  \A n \in Node :
    mode[n] = "terminated" /\ losses = 0 => \E m \in Node \ {n} : Ended(m)

=============================================================================
