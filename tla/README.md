# A TLA+ model of eau2

eau2 is a distributed, in-memory key-value store of data frames: client
processes hold data frames under keys, tell each other which keys they hold and
read each other's values; one server tells every client which clients there
are. This directory models the store, the network below it, the frames it
carries and the applications above it, model-checks all of them, and proves the
safety properties it checks, three refinements among them, for instances of any
size, two under assumptions that section 5 names. Paths below are relative to
the repository's root; the repository's own documents are in `report/`.

## 1. Inventory

| Part | State | Operations | Interacts with |
|---|---|---|---|
| **KVStore** (`data/kvstore`) | `_local_map`, `_other_nodes`, a mutex each | `get`, `get_local`, `get_or_wait`, `set`, `add_nonlocal`, `get_local_keys` | calls `Client::get_value`; read and written by every `CtCConnection` worker |
| **Client** (`network/client`) | `_other_clients`, `_client_update`, `_server_connection`, and NetPort's | `get_value`, `_check_client_updates`, `_connect_to_client`, `_main_loop_work`, `request_teardown` | starts CtC and CtS workers; called by application threads |
| **CtCConnection** | `_request_queue`, `_waiting_requests`, two mutexes, and Connection's | `run`, `add_request`, `_check_requests`, `_send_keys`, `_update_keys`, `_parse_request_response`, `_respond`, destructor | the CtCConnection at the other end of the socket; application threads through `ValueRequest` |
| **Server** | `_clients`, `_passed_update`, `_expected_update`, `_new_update`, and NetPort's | `update_and_alert`, `get_clients`, `remove_client`, `request_teardown`, `_on_clean_up` | called by ServerConnection workers and by the main loop |
| **ServerConnection** / **CtSConnection** | Connection's; which client it serves | register, deregister, push and take client lists, keep-alive, shutdown, teardown | each other, over a socket |
| **NetPort** | `_connections`, its mutex, `_running` | `listen_on_socket`, `_accept_connection`, `_clean_up_closed`, `close_all` | joins workers; base of Client and Server |
| **Connection** | `_r_buffer`, `_r_buf_pos`, `_finished`, the socket, the thread | `receive_data`, `unpack`, `receive_and_parse`, `_send_packet`, `ask_to_finish` | base of the three connection kinds |
| **Packet** | type, length, value | `pack`, `unpack`, `partial_unpack` | Connection |
| **DataFrame, Column, NullableArray, Schema, Row, Rower** | columns with null bitmaps | construction, `map`, `pmap`, `filter`, serialization | `pmap` starts threads; the rest is sequential |
| **Demo, WordCount, Linus** | none of their own | pipelines of reads and writes through the store | KVStore from several processes |
| **SorerDataframeAdapter, Serializable, helpers, mains** | none | conversions, command line | - |

What is hard here: every connection has its own thread, application threads
call in at any time, the main thread joins and destroys connections under
their feet; mutexes nest in both orders; workers spin instead of blocking; an
update of the client list is "passed on" by a pair of counters; packets wait
in two buffers on either side; nodes and connections may end between any two
steps. `PROJECT.json` lists these hazards line by line with the properties
that watch over them.

What makes each part correct, in short: a read gets the value its owner holds
under its key, once, and returns (KVStore, Client, CtCConnection); whoever
sleeps is woken, nobody waits in a circle, nothing is used after its
destruction (Client, CtCConnection, NetPort); the client list has who is
registered and nobody else, and everybody gets it (Server, ServerConnection,
CtSConnection); what is sent is what is parsed (Connection, Packet,
serialization); every row is visited once, by one thread (`pmap`).

## 2. Modules

| Module | Content |
|---|---|
| `CtCRequests` | remote reads: application threads, `Client::get_value`, clean-up, and both workers of every CtC connection |
| `RemoteRead` | what a remote read promises, without connections or packets |
| `CtCImplementsRead` | the refinement mapping from the first to the second |
| `MCCtC` | instances of these for TLC |
| `CtCRequests_proofs` | proofs about `CtCRequests`: types, wake-ups, locks, lifetimes |
| `CtCAnswers_proofs` | proofs about what is answered: the value, once, in order; `RemoteRead` is implemented; how much room reads need |
| `InductionLemmas` | induction over the naturals, stated for sets, and what it shows of the fold of an operator `Combine` and of concatenations; used by the proof modules |
| `ServerUpdates` | membership: registration, client lists, the update counters, clean-up on the server |
| `MCServer` | instances of it for TLC |
| `ServerUpdates_proofs` | proofs: types, the client list, joins |
| `PacketFifo` | what one direction of a connection promises |
| `Framing`, `MCFraming` | the byte stream below the packets, shown to implement `PacketFifo` until it breaks |
| `Framing_proofs` | proofs of that, and of why it breaks |
| `ClientMesh`, `MCClientMesh` | the connections of the clients among themselves, teardown, the end of a process |
| `ClientMesh_proofs` | proofs: how many connections, who ends in order |
| `Columns` | columns, null bitmaps and their serialization, as operators |
| `Table` | what a data frame is to its users |
| `DataFrames` | frames: built, changed, serialized, read by another node; shown to implement `Table` |
| `ParallelMap`, `MCFrames` | `map` and `pmap` over the frame another node read, with the rowers of all applications |
| `ParallelMap_proofs` | proofs about `Columns`, `DataFrames` and `ParallelMap`: serialization, frames as tables, `pmap` as `map` |
| `Pipelines`, `MCPipelines` | Demo, WordCount and Linus as clients of the store |
| `Pipelines_proofs` | proofs: what Demo, Linus and WordCount print |

They build on each other by assumption. `CtCRequests` and `ServerUpdates` take
packets to be whole and in order: that is `PacketFifo`, which `Framing`
implements where it does not break. `CtCRequests` implements `RemoteRead`, and a
read in `Pipelines` is one of `RemoteRead`, or one of those that `Framing` breaks
or a lost connection leaves asleep. `ClientMesh` takes from `ServerUpdates` that
lists arrive and that a teardown may reach anybody or nobody, and from
`CtCRequests` that workers exchange key lists. `ParallelMap` extends
`DataFrames`, which extends `Columns`, and its run checks all three; `Pipelines`
takes from them that a frame that arrives whole is the one that was stored and
that `pmap` computes what `map` does, and from `ServerUpdates` that two of three
clients may never meet.

Definitions marked *Mutant* are deliberate bugs, one for every property of
every passing run: put in place of the definition they stand beside, they make
TLC find that property violated, which shows that the property depends on the
code. `PROJECT.json` pairs them.

### CtCRequests

An element of `Conn` is one `CtCConnection` object, `Peer[c]` the object at
the other end of the socket, `Owner[c]` its node. Variables are the members
of the classes (`queue` is `_request_queue`, `waiting` is
`_waiting_requests`, `conns` is `_connections`, `known` is `_other_nodes`
with the connection standing for the node's address, `store` the keys of
`_local_map`), a program counter for each thread (`pc`) and worker (`wpc`),
the references a thread holds (`tconn`, `treq`) and the buffers between two
workers (`rbuf`, `net`).

A call of an application thread is `Get` (the lookup in `KVStore::get`),
`CleanLock`/`CleanErase`/`CleanUnlock` (`_clean_up_closed`), `FindConn` (the
loop of `get_value`), `CreateRequest` (lock, then the assert), `AddRequest`,
`Wait`, `Return`. A turn of a worker is `Receive`, one of `ParseNothing`,
`UpdateKeys`, `Deliver` or `ParseRequest` with `SendResponse` (after which it
parses on, as `receive_and_parse` does), `SnapshotKeys` and `SendKeys`, and
`CheckRequests`, `MoveRequest`, `SendRequest` for each queued request. The
main thread contributes the clean-up of its loop. `KVStore::set` is two steps
because it is two critical sections. `Destroy` is the destructor, run in the
step that drops the last reference: by the clean-up, or by the `Return` of
the last reader.

Mutexes are not variables: the program counters say who holds them, and every
step that locks one has a guard. `_waiting_requests_mutex`, the two mutexes
of the KVStore and `_fd_mutex` are only held in sections that are one step.

Abstractions: a data frame is the pair of its node and key, so a wrong value
is a different one (but a key that is set again keeps its value); packets arrive whole and in order; the socket of one
direction holds `Cap` packets and the receive buffer `RCap`; when a connection
is cut or a process ends both sides notice at their next send, and data
already received may or may not still be read. The erased list node that
`_parse_request_response` still uses (ctc_connection.cpp:152) is taken to be
readable, which is what the builds at hand do.

### RemoteRead and the refinement

`RemoteRead` knows only which keys a node holds, which call a thread is in and
the answer it got. `Ask` requires a node that holds the key, `Answer` gives
exactly that node's value, `Return` may come without an answer, `Crash` ends
the calls of a process. The mapping takes a call to be open from the lookup
to the return, and answered once its thread is woken. `ImplementsRead` then
says: whatever is delayed, reset, cleaned up, destroyed or aborted, a call
that is woken has the value it asked for.

### ServerUpdates

An element of `Conn` is one run of a client process together with its
connection on the server. Its address is its own: a client binds port 0
(client.cpp:28) and registers the port it is given, so a client that is started
again is another element with another address. The client side is `Register`,
`Update`, `Deregister`, `SendShutdown`, `Close`, `AskTeardown` and `Crash`; `Cut`
is the moment the server's host learns that the socket is dead. The server side
is the main thread (`Accept` starts the worker, `Push` files the connection, then
the clean-up) and each worker's loop: `Receive`, `Parse...`, `CheckUpdate`,
`GetClients`, `ResetUpdate`, `SendUpdate`, `KeepAlive`. `update_and_alert` is four
steps (append; clean up; `CountExpected`; `Alert`) and `get_clients` is two,
because each writes atomics that the other reads under another mutex.

`request_teardown` is `BeginTeardown`, which takes `_connections_mutex`, a
`SendTeardown` for each connection, which finishes the worker of one whose socket
is dead, and `EndTeardown` after the sleep. The mutex is held throughout. The
server's own end is `Leave`, then `close_all` in `~NetPort`: its clean-up
(`BeginClose`, and `PureCleanUp` for the virtual that is gone by then), the mutex
again (`LockAll`), asking and joining one connection after the other
(`CloseNext`), `CloseDone`. Workers go on meanwhile, as they do in the code, and
may wait for the mutex `close_all` holds: then nobody ever moves again, which is a
behaviour of the model, not a premise that rules it out.

### Framing

One direction of a connection. `SendPacket` is `_send_packet`: it waits for any
room and then writes what fits. The reader is `receive_and_parse`: `ReceiveData`
appends to `rbuf` (the first `_r_buf_pos` units of `_r_buffer`), `UnpackFront` is
`unpack` with its first `partial_unpack`, `Refill` a turn of the loop that
unpacks a packet larger than the buffer, `Parse` what becomes of the result.
`AfterUnpack` has the shift of the buffer, and the overrun: `unpack` tells
`partial_unpack` that the whole buffer is valid, so what has not arrived is read
as zeros, `_r_buf_pos` wraps, and the `memset` that follows clears memory before
the buffer, the position first. What is left of it depends on how many bytes were
missing: with eight or more, 0; with seven, 249, and the reader goes on behind as
many zeros (`WrapAround`); with fewer, a position behind the buffer, where `recv`
fails or writes elsewhere, which is undefined and taken as a reader that is stuck.
All three outcomes are allowed after any overrun.

`ImplementsFifo` maps onto `PacketFifo`, where `broken` stands for "a write was
short or a read ran over"; `StreamIntact` says the same unit by unit, with the
packet in hand and both buffers. `OverrunExplained` says when an overrun can
happen at all: a `recv` returned part of a packet, a write was short, or
`receive_and_parse` went on after an answer with a packet cut off at the end of
a full buffer. The last one needs no fault of the network.

### ClientMesh

An element of `Link` is a TCP connection with an end at either client, each with
a worker. Two threads of a client look for missing connections: the main loop
(`Accept`, `CleanUp`, `CheckUpdates`, `Connect`) and an application's thread in
`get_value` (`Get`, `CleanUp`, `CheckUpdates`, `Connect`), with `todo` as their
`to_connect`. The latter goes on with `Search`, the loop for the connection with
the key's address (`Found`) and the assert that it has not finished, and waits
until `Answered`, for ever if need be; as long as it waits it shares the
connection (`Held`), which a clean-up then drops but does not close. `Connected` is `connect_to_target`, `KeyList` a list of keys that
arrives, `Jam` and `Unjam` a worker whose peer does not read, `Leave` the end of
a worker's loop. `Other` is `_conn_other`: since the ID packet is empty and
refused, an accepted connection is known by the address of the peer's socket,
which is no client's; `where` is the address each client has for each key.

The life of a process is `mode`: `Initial`, `Teardown` (CtSConnection), the end
of the main loop, and `~NetPort` with `close_all` in three steps: its clean-up,
which calls a virtual that is pure by then (`BeginCloseAll`), `AskAndJoin` for
one connection after the other, and `EndCloseAll`, in which all sockets are
closed at once. Either client's application may ask for the teardown
(`RequestTeardown`), which then reaches any subset of the processes: what happens
on the server in between is `ServerUpdates`.

### Columns, DataFrames and Table

`Columns` has the four column types as one, since they differ only in the value
that stands in for a missing one, the `NullableArray` with bitmap and data, and
the serialization with the position it leaves the reader at. A number is one
unit of a serialization; a byte of a bitmap has `ByteBits` bits.

`DataFrames` is the life of a frame: rows from a file (`InitializeSchema`,
`ParseRow`) or columns (`NewColumn`, `FillColumn`, `AddColumn`), cells that
change (`SetCell`), `Store`, and `ReadRemotely`, which serializes and
deserializes. `Table` is the same without types, bitmaps and bytes.

### ParallelMap

`Start` computes the ranges of `pmap` and clones the rower, `Accept` is a row
that a thread visits, up to what rowers share: the `IntSetGenerator`'s set and
the filters' frame, each under a mutex (`Lock`, `Add`; `seen` is the state found
under it, so a mutex that is left out shows as a lost insertion). `Merge` joins
threads and clones, `Finish` is `finish_set` or `finish_filter`.

### Pipelines

Every role of an application is a script: the sequence of its calls of the store
and of the points where it uses a result. `SetCheck` and `SetInsert` are the two
critical sections of `KVStore::set`, `Announce` a key list, `Lookup`, `Answer`,
`Fail`, `Hang` and `TimeOut` a turn of `get_or_wait`; `Dereference` is the use
of the nullptr it may return. What a key is set to is computed by the
applications' code (`Value`): the sum, the words of a text, the filters of
Linus. `Cut` is a read of which a part is lost, by a short write or an overrun of
`unpack`: the reader gets a frame with zeros in place of the end (`Torn`), crashes
over it, or never finds an answer; `damaged` remembers that it happened. Which
nodes come to know each other is part of the job (`linked`), since of three
clients two may never (finding 2). The properties compare the results with definitions that do not use it:
occurrences of words in lines, users within `d` joint projects. A path of joint
projects leads over whoever made commits, in the table of users or not, as the
filters do: only the names at the end come from that table.

## 3. What is checked

| Run | Instance | Properties | Shows |
|---|---|---|---|
| `CtC_readers` | 2 threads of one node, 2 keys, spurious wakeups, `Cap` 5, `RCap` 2 | `FiledOnce`, `AnswersInOrder`, `AnswerIsRight`, `NoLockCycle` | requests and answers pair up in order even when abandoned requests stay in the lists; thread and worker never wait for each other's mutex |
| `CtC_faults` | a thread on each node; a holds a key, b produces another one and also the one a holds; resets and exits | `TypeOK`, `NoLostWakeup`, `NoUseAfterDestroy`, `ImplementsRead` | every failure in every place; the refinement |
| `CtC_live` | 1 thread, 2 reads in a row, no faults, `Cap` 5 | `NoMutualSendBlock`, `EveryGetReturns`, `ImplementsFairRead` | the workers never block each other, remote reads return |
| `CtC_backlog` | the same with `Cap` 2 | `EveryGetReturns` is **violated** | finding 1 |
| `CtC_lost` | 1 thread, 1 read, resets | `LostRequestReturns` is **violated** | finding 3 |
| `Server_faults` | 2 clients, one that crashes or asks for teardowns and one that leaves or crashes | `TypeOK`, `NoGhosts`, `ListedWhileRunning`, `NoJoinCycle` | no ghosts at any time; while the server runs nobody is missing and no clean-up blocks |
| `Server_live` | 2 clients that crash | `PairLearns`, `EndedForgotten`, `PeersForget` | two clients always get connected; the dead are forgotten, by the server and by the other client |
| `Server_mesh` | 3 clients, no faults | `PairInformed` is **violated** | finding 2 |
| `Framing` | packets of 2, 3 and 9 units, buffer of 4, sockets of 9, split anywhere | `TypeOK`, `StreamIntact`, `OverrunExplained`, `ImplementsFifo`, `ParsedAfterClose` | packets come out as they went in, and the only circumstances in which they do not |
| `Frames` | the schemas of the applications' frames and two with booleans, up to 4 rows, 3 threads, all rowers | `TypeOK`, `RoundTrip`, `EachRowOnce`, `MergedAsMapped`, `ImplementsTable`, `MapReturns` | frames survive the network to the last bit; `pmap` equals `map` |
| `Pipelines` | Demo on 2 columns, WordCount on 26 texts, Linus on 6 histories with 2 degrees, some with two nodes that never meet; one frame that is cut | `SummaryRight`, `DemoTornDownLast`, `DegreesAreBalls`, `WordsCounted`, `PipelinesEnd` | what the applications print is right under every order of keys, failures and timeouts, unless a frame was cut; no wait is circular |
| `ClientMesh` | 2 clients, a key on one, 3 links; one loss, or an application on each, one read and a teardown that either asks for | `DuplicatesBounded`, `FirstEndsInOrder`, `KeysReachable`, `TeardownEnds` | two connecting threads make at most two connections; keys lead to their owner; how a teardown ends |

Bounds. `MaxCalls` bounds the calls of a thread; nothing else in
`CtCRequests` can grow, because the request objects are reused as soon as
nothing refers to them. Two threads on one connection are enough for two
requests to be queued, in hand and waiting in every combination; two calls of
one thread for a request to meet what an earlier one left behind. `RCap` 2
makes packets stay behind in the receive buffer. Five packets in the socket
are the least for which two reads leave room (finding 1). Two clients suffice
for every interleaving of two registrations with both counters; three are
needed before somebody is left out for good. In `CtC_readers` the symmetry of
threads, keys and requests is used, in `CtC_faults` that of requests, and in
`Server_mesh` that of clients; no run with symmetry checks liveness.

The packets of `Framing` are shorter than the buffer, shorter but cut off by its
end behind another packet, and longer than two buffers, so that `unpack` refills
twice and takes part of the second refill only; `MaxPackets` 3 puts packets before and behind
each. `ByteBits` 2 with up to 4 rows has bitmaps of an empty, a partial, a full,
a full and a partial, and two full bytes; 4 rows, `ThreadRows` 1 and
`MaxThreads` 3 have pmap with one thread, with a thread per chunk, and with
fewer threads than chunks and an uneven last range. `MaxCells` 6 bounds rows
times columns: what it cuts off are wide frames of 3 and 4 rows, and columns do
not depend on each other. Two degrees reach the recursion of Linus once; the
histories have users at distance 1, 2 and infinity, a commit of two people, a
table without the person in between and one without `torvalds`. One cut frame is
enough: after it nothing is claimed but who may still be at work, and a second cut
finds frames that are wrong already. In `Server_faults` all faults for both
clients would be some 20 million states; what is left out is the mirror image, and
two teardowns from two clients. The theorems of section 5 have all faults for all
clients. `Budgets` splits `ClientMesh` into behaviours with a
loss and behaviours with a read and a teardown, which together are too many;
three links are one more than two threads open, so that a link can be opened
while another one is closed.

`CHECK_DEADLOCK FALSE` is set where processes or a computation come to an end
(faults may end every process of `CtC_*` and `Server_*`; pipelines and the mesh
end, a frame has been mapped, a sender has closed), and in `CtC_backlog`, whose
point is that everything stops; in `CtC_lost` the threads that come to an end are
the reader's and its connection's.

Fairness. Worker and main threads loop without ever blocking outside mutexes,
`join` and the send loop, and call `yield` in every turn, so a step that stays
possible is taken (weak fairness). A mutex is released and taken again all the
time, so the steps that lock one are only possible again and again; the
holders yield between two turns, and whoever waits gets it eventually (strong
fairness for `CleanLock`, `FindConn`, `AddRequest`, and in `ServerUpdates` for
each thread as a whole, which also wants `_client_mutex` and room in a
socket). No application thread is obliged to call, no client to start, leave
or die. `Return` needs no strong fairness: once notified, a waiter finds the
request's mutex free. In `Framing` only the reader is scheduled. In `Frames` the
mutex of a filter goes to whoever asks for it again and again (strong fairness
of `Lock`); building a frame and starting a map are the caller's choice. In
`Pipelines` every thread and worker goes on, and of the reads a node repeats not
all fail (strong fairness of `Answer`); failures, hanging and timeouts are not
obliged to happen. In `ClientMesh` threads and workers go on, and a worker that
runs goes on sending its keys to one that runs; nobody has to lose a connection,
call the store or ask for a teardown, and a jam need not happen. Nor does a wait for
an answer end, or an application: `TeardownEnds` speaks of those that do. Only
nodes that are `linked` hear of each other in `Pipelines`, and `PipelinesEnd`
speaks of jobs in which those that need each other are.

## 4. Findings

1. **Reads use up the socket buffers** (`CtC_backlog`). A worker sends its
   whole key list in every turn but parses at most one packet per turn that
   needs no response. Key lists alone balance. A request or an answer is one
   more packet than its receiver has turns for, so every read leaves up to two
   packets more in flight for ever. When the buffers are full both workers spin
   in `_send_packet`. With `Cap` 2 to 4 the second read hangs, with 5 it
   returns and a longer series would hang. Two packets per read is also the
   most: `RoomForReads` proves that the workers do not block each other while
   `Cap` is more than twice the number of reads, and 4 for two reads shows that
   no less will do. `report/doc.md:103-104` has the list sent "whenever said
   list is updated".
2. **Clients that never hear of each other** (`Server_mesh`). The number of
   passes is compared with the number of connections, whoever made the
   passes; a worker may evaluate the comparison, two registrations may raise
   the flag, and then the worker clears it.
3. **A lost connection leaves its callers asleep** (`CtC_lost`).
   `ctc_connection.h:30-32` and `45-46` promise that a request that cannot be
   answered is given nullptr and its thread woken, by the destructor of the
   connection. But the caller waits with a reference to the connection
   (client.cpp:76-77), so the destructor never runs while anybody waits. In
   `CtCRequests` `Destroy` never finds a thread to wake; `Pipelines` has the
   consequence as `Hang`, and in `ClientMesh` a thread that waits on a closed
   connection keeps its process from ending.

Known problems that are steps of a model, or that a property excludes by its
premise, without a run of their own:

- `get_value` unlocks before the assert of client.cpp:62, so a reset in between
  aborts the process (`CreateRequest`), and a spurious wakeup makes `get` return
  nullptr for a key that exists (`SpuriousWakeup`).
- The overrun of `unpack` and the short write of `_send_packet` (`Framing`). Demo's
  column of 100000 numbers is much larger than the receive buffer, so both can
  happen to it; `report/doc.md:597-598` says that Demo sometimes computes a wrong
  result and sometimes crashes. `Pipelines` has them as `Cut`, and the properties
  about results speak of behaviours without one.
- Threads that join themselves (`report/doc.md:599`). `NoJoinCycle` holds while the
  server runs. Once a teardown has cleared `_running` two steps of `ServerUpdates`
  lead there: a TEARDOWN that cannot be sent finishes the worker of a client whose
  REGISTER is still to come, which then finds itself in its own clean-up; and
  `close_all` joins workers under the mutex that a late registration waits for.
- A circle of joins in `close_all` (`Circle` in `ClientMesh`): two clients that
  end at once, each with a worker stuck towards the other. `report/doc.md:82`
  wants all nodes to close at once.
- `~NetPort` calls `_on_clean_up`, pure virtual by then, if a connection has
  finished since the last clean-up (`BeginCloseAll`); `report/doc.md:600`
  reports failures in teardown without a cause. `FirstEndsInOrder` says who is
  safe from it.
- `request_teardown` before the network thread has made `_server_connection`
  dereferences null (`RequestTeardown`): WordCount's reader without a file can
  do that, and its counter then waits for ever.
- Two clients, and two threads of one client, open more than one connection to
  the same peer, and an accepted one is filed under an address nobody looks for
  (`ClientMesh`).
- Two nodes may set the same key: each looks under one mutex whether the other is
  known to have it and inserts under another (`SetCheck`, `SetInsert`), and who
  looks too late aborts.
- A timeout of `get_or_wait` returns nullptr, which Demo dereferences
  (`Dereference`). `demo.cpp:83` accepts any result that is too large.
- Words run on from line to line unless lines end in a blank, and the last word
  of a file is lost (`ReadInFile`).
- Without a user called `torvalds`, `_commits` waits for ever; WordCount and
  Linus never ask for a teardown when all goes well.
- pmap's fall-back for rowers that do not clone looks at the second clone, after
  the assert about the first has aborted (`Start`).

## 5. What is proved

The theorems hold for every value of the constants that the `ASSUME`s of the
modules admit: any number of nodes, connections, threads, keys, requests and
packets, any sizes of buffers and sockets, any bound, all faults enabled. Where
a theorem assumes more, the table says so.

| Theorem | States | Assumes besides |
|---|---|---|
| `CtCRequests_proofs`: | | |
| `TypeCorrect` | `[]TypeOK` | |
| `WakeupsKept` | `[]NoLostWakeup` | |
| `LocksAcyclic` | `[]NoLockCycle` | |
| `NeverUsedAfterDestroy` | `[]NoUseAfterDestroy` | |
| `CtCAnswers_proofs`: | | |
| `AnswersRight` | `[]AnswerIsRight` | |
| `FiledAtMostOnce` | `[]FiledOnce` | |
| `AnswersOrdered` | `[]AnswersInOrder` | |
| `RequestsImplementRead` | `ImplementsRead` | no spurious wakeups |
| `RoomForReads` | `[]NoMutualSendBlock` | `IsFiniteSet(Thread)`, `Cap > 2 * (Cardinality(Thread) * MaxCalls)` |
| `ServerUpdates_proofs`: | | |
| `ServerTypeCorrect` | `[]TypeOK` | |
| `NoGhostsEver` | `[]NoGhosts` | |
| `NeverJoinCycle` | `[]NoJoinCycle` | |
| `ListedAlways` | `[]ListedWhileRunning` | |
| `Framing_proofs`: | | |
| `FramingTypeCorrect` | `[]TypeOK` | |
| `FramingIntact` | `[]StreamIntact` | |
| `OverrunsExplained` | `[]OverrunExplained` | |
| `FramingIsFifo` | `ImplementsFifo` | |
| `ClientMesh_proofs`: | | |
| `DuplicatesAlwaysBounded` | `[]DuplicatesBounded` | |
| `FirstAlwaysEndsInOrder` | `[]FirstEndsInOrder` | |
| `Pipelines_proofs`: | | |
| `SummaryAlwaysRight` | `[]SummaryRight` | |
| `DemoAlwaysTornDownLast` | `[]DemoTornDownLast` | |
| `DegreesAlwaysBalls` | `[]DegreesAreBalls` | |
| `WordsAlwaysCounted` | `[]WordsCounted` | |
| `ParallelMap_proofs`: | | |
| `FramesRoundTrip` | `[]RoundTrip` | |
| `EachRowVisitedOnce` | `[]EachRowOnce` | |
| `MapTypes` | `[]TypeOK` | |
| `PmapIsMap` | `[]MergedAsMapped` | |
| `FramesAreTables` | `ImplementsTable` | |

### Assumptions

The constants' assumptions are those of the code: a connection's peer belongs to
another node and has it as its peer, names are distinct, every run of a client has
an address of its own (client.cpp:28), a receive buffer has
room for a header (`FramingAssumption`), the addresses clients listen on are none
of those their outgoing sockets get (`MeshAssumption`), a byte has more than one
bit (`ByteAssumption`), the cells of a frame are numbers, truth values and strings
and not the missing value (`FrameAssumption`), a thread gets at least one row and
`pmap` may use more than one thread (`MapAssumption`), a text is lines of
characters and Linus computes at least one degree (`PipelineAssumption`). The others:

- *No spurious wakeups.* The refinement fails with them: a waiter that wakes by
  itself returns the nullptr it finds (section 4).
- *Room for the reads*. `RoomForReads` wants finitely many threads and sockets
  that hold more than two packets per read. With less the property is false,
  which is finding 1 and the run `CtC_backlog`; `CtC_live` runs at the smallest
  `Cap` the theorem allows. Real sockets hold many packets, but a node that runs
  long enough reads more often than that: `MaxCalls` is the number of reads of a
  thread in its life.

### Inductive invariants

Few of the properties are inductive. What carries them:

**Requests** (`CtCRequests_proofs`).
`Typed` adds to `TypeOK` what each program counter says about the references
that go with it: a thread between the lookup and its return has a key and a
connection of its own node, one that created a request has it, a worker has a
popped request exactly while it files one and a packet whenever it sends one, a
node knows only its own connections, receive buffers do not overflow. Without
these, types are lost as soon as a step uses a reference. `Filing` adds that two
threads never share a request (`Distinct`) and that a created request is filed
nowhere yet (`NotFiledYet`). Moving a request from the queue to the hand to the
waiting list then keeps a sleeper's request in `Pending`; delivering to it wakes
the sleeper in the same step, and a thread about to sleep holds the mutex
delivery needs. `NoLockCycle` is a consequence of `NotFiledYet`. `Lifetimes` adds
what join and erase establish: a connection that is in no `_connections` has a
worker that is done, and no later lookup finds it.

**Answers** (`CtCAnswers_proofs`). `Honest` says that whatever a
packet, a worker's hand or a key list claims is true: a key under `known` is in
its owner's store and stays there, a response carries the data frame of the node
it comes from, a request object of a thread in a call has the thread's key and
either nullptr or the right value. Keys are never removed, so claims do not
expire; a request object is reused only when nothing refers to it, so a late
answer cannot meet a new call. `Singly` adds that the lists of a connection
repeat nothing, not even between two of them. The order of answers is a relation
between four sequences, `Agree`: the keys of the waiting list are those of the
responses on the way to this end followed by those of the requests on the way to
the other. A worker that is not sending has no packet in hand (`OutIdle`), and a
connection is lost at both ends at once (`LinkSym`). The lemma that matters is
that delivery takes the first element of the list, because the first response has
its key and the match is the first with that key.

**Room** (`CtCAnswers_proofs`). `Bounded` is a potential argument. For an
end of a connection, `Asks` counts its requests that are not answered yet, and
`Load` what is or may come on the way because of it: the packets in its socket
and its worker's hand, the answers to requests the peer has still to read, one
packet for a turn under way, and two for every request still to be sent, which is
a packet itself and causes another. The two ends together ask no more than
`Added`, the calls that came as far as `add_request`, and have a `Load` of at
most `Cap + 2` plus two per call in `Added`. A turn that parses pays for its key
list with the packet it took from the socket (`ReceiveLight`, first case), a
request read pays for its answer, a request sent was counted twice. A turn that
finds nothing to read pays with nothing, but then its socket is empty: what is
left is one full socket, two packets and twice what both ends ask, and here
`Asks` is needed (`ReceiveLight`, second case). `AddRequest` raises the sum by
two and adds a call. Two blocked workers have two full sockets and a packet each,
a `Load` of `2 * Cap + 2`, so `Cap` would be at most twice the calls
(`BoundedNoBlock`).

**Refinement of `RemoteRead`.** A lemma per abstract step (`ReadAsks`,
`ReadAnswers`, `ReadReturns`, `ReadStores`, `ReadCrashes`, `ReadStutters`) says
what a concrete step has to do to be one; `StepImplements` goes through the
actions. `Deliver` is `Answer` if somebody sleeps and a stutter if the request was
abandoned, which takes `Distinct`; that the value is the right one is `Honest`;
that destroying a connection answers nobody follows from who holds it
(`HolderRefers`, `WokenAlwaysHasValue`), the other side of finding 3.

**Membership** (`ServerUpdates_proofs`). `Ports` says that a connection is filed
exactly while its worker lives, which `NoGhosts` needs because it counts
connections, and that the server is taken down only when it does not run.
`Handshake` follows REGISTER: it is the first packet of its client, in one place
only, and a worker that has yet to see it knows no address. `Parting` follows
SHUTDOWN, the last packet: while no teardown is under way or over (`Quiet`), a
worker that is finished has nothing left to parse and does not want the mutex.
Hence `NoJoinCycle`, with `Exclusive`: a clean-up holds the mutex, so no teardown
is under way beside it. `Alive` says that a running client has sent nothing that
would end its connection, and that a teardown finds its socket well; that
addresses are distinct keeps the clean-up of one connection from erasing another's
entry.

**Framing** (`Framing_proofs`). `Intact` says that the packets sent are those
parsed and a rest, and that hand, buffer and socket together are that rest in
units; each step moves units between these places, and `PackAll` is injective on
the front, since a header has the length of what follows. `Whole` says why an
overrun needs a cause: as long as none of the three has happened, either the
buffer is full or what has been received ends with a packet.

**Mesh** (`ClientMesh_proofs`). `Wired` has links, their ends' workers and
`_connections` agree: an end in `_connections` has a worker, belongs to the
client, and a link has both its clients or none. `Alone` says that a client
without an application has no second thread. `DuplicatesBounded` is inductive on
top of these: a thread that opens a connection gives up its claim in the same
step, and `CheckUpdates` makes a claim only where nothing leads to the peer.
`Calm` carries the other property: while nobody has ended and nothing was lost, no
socket is closed and the only finished workers belong to a client that is in
`close_all`, so its clean-up before that found none.

**Demo** (`Pipelines_proofs`). `DemoState` relates the three scripts: where each
node is (`Places`), which node holds which key (`Maps`), that what is stored is
the sum (`Stored`) and what has been heard was stored (`Heard`), and that a result
that is going to be used is not what a timeout returns (`Usable`). Only values
depend on whether a frame was cut (`damaged`); `DemoAlwaysTornDownLast` needs the
places alone and holds either way.

**Linus** (`Pipelines_proofs`). The scripts have a call or three per degree, so
`LinusState` does not spell them out. It says that what is past in a script has
been done (`Did`), that a stored key was put by a call that is past and a heard
key is stored somewhere (`Came`), and that each value is what belongs under its
key (`Right`): for a degree, the people within so many joint projects (`Ball`),
their projects or their names. A set keeps this because of what comes before it
in its script (`CommitsOrder`, `UsersOrder`, from the places of the calls in
`CommitsPlaces` and `UsersPlaces`) and because one pass of both filters is one
joint project more (`FoundByFilters`, `WithinNext`), as long as no frame was cut (`Undamaged`). That there is an id of Linus
once names are stored follows backwards: whoever put a key did what comes before
(`PutPlaces`, `WhoPuts`). The invariant covers WordCount, which has no timeout
either.

**WordCount** (`Pipelines_proofs`). `Reading` relates the state of the reader
after `q` characters of line `l` to the text: the words pushed are paired one to
one with the places that end before (`Paired`), and the word in hand is the part
of the line since the last blank (`WordSoFar`). `LetterRead` and `WordEnds` are
the two kinds of characters; at the end of a line that ends in a blank the word
in hand is empty (`LineEnds`), which is where the theorem needs its condition.
`TextRead` goes over the lines, `PairedCounts` turns the pairing into equal counts.

**Folds** (`InductionLemmas`). What the serialization, the reader, the
construction of a frame and the rowers compute is a fold over a sequence.
`FoldUnfolds` says that `FoldLeft(Combine, base, seq)` is the last of a sequence of
values that begins with `base` and takes a step of `Combine` for each element; it is
proved once, by induction over a set of naturals, for the constant `Combine` of the
module. A proof module instantiates it with the operator it wants to reason about
(`Bytes == INSTANCE InductionLemmas WITH Combine <- PackBit`) and then does its own
induction over the steps. `FlattenUnfolds` says the same of `FlattenSeq`. Modules
that extend it for the naturals and for concatenations declare `Combine` without
using it.

**Serialization** (`ParallelMap_proofs`). The relation all readers satisfy is
`Got(r, data, pos, enc, v)`: if `data` has the encoding `enc` at `pos` as far as it
goes (`Meets`), the reader returns `v` and the position behind `enc` where `data` is
long enough, and fails where it is not. One lemma per kind of value shows it
(`NumberRead`, `StringRead`, `BitsRead`, `ValueRead`, `ArrayRead`, `ColumnRead`,
`FrameRead`), `ManyRead` for readers one behind the other. `RoundTrip` is `Got` at
position 1; the case of short data is there because an intermediate length that
was read short would make the next reader start elsewhere. The bits are the arithmetic part: `FilledTo` says that after k
bits the byte in hand is less than the weight of the next bit, that its bits are
the last ones and that the bytes written hold the others; that adding a weight
leaves the lower bits is `LowerBitsKept`. The column that is read is pushed value
by value (`Refilled`); that this gives the column's own bitmap and data needs
`NullableArray`, the invariant that a missing value is stored as the default.

**Frames** (`ParallelMap_proofs`). `Built` says that a frame has a column of its
type for each type of its schema (`WellFormed`), all of the number of rows
(`Sized`), that a column on its way into the frame is one of a type
(`ColumnBuilt`), and that the copy, from the moment it is read, is the frame
(`CopyBuilt`, by `FramesRoundTrip`'s lemma). The theorem that frames are tables
takes from it that the cells of the two are the same at every step.

**pmap** (`ParallelMap_proofs`). `PmapDeals` says that `Ranges`, with the number
of threads and the step that `pmap` computes, gives ranges that are disjoint and
cover the rows, the last one taking what division leaves. `IInv` adds to `Built`
the parts of `Mapped`: the rows visited are exactly those that a thread has passed
(`Dealing`); results and generated frame have their types (`Typed`); who holds the
mutex still finds what it found when it took it (`Mutex`, which makes the write
after the lock the one that was computed under it); and what the visited rows are
due is accounted for. For a sum or the count of a word, the amounts in the threads'
results add up to what the visited rows are due, and in result 0 alone once the
clones are joined (`Accounted`). For a filter, the occurrences of any value in the
generated frame and in the hands of the threads together are those that the
visited rows add (`Filtered`); for the set, its elements and those in a hand are
those of the visited rows (`Collected`). `MergedAsMapped` follows because at the
end every row is visited and no thread has a value in hand; it compares with a
fold over the rows in order, so its proof turns that fold into the same totals.

The proofs go action by action, under each action conjunct by conjunct, with
frame lemmas for the actions that leave an invariant's variables alone.

### Only model-checked

- Liveness (`EveryGetReturns`, `PairLearns`, `EndedForgotten`, `PeersForget`,
  `ParsedAfterClose`, `KeysReachable`, `TeardownEnds`, `MapReturns`,
  `PipelinesEnd`, `ImplementsFairRead`): out of the prover's reach.

All invariants and action properties of the passing runs, and the three
refinements of safety, are theorems.

## 6. Not modelled

- Socket wrappers, printing, command lines and mains: pure I/O. The mode checks
  of `parse_arguments` have no state.
- The parser behind the SorerDataframeAdapter: a third-party library. Any of its
  exceptions ends the file, which `ParseRow` allows at every row.
- `DataFrame::filter` has no caller; it loops over the schema's number of rows,
  which nothing keeps (dataframe.cpp:321). Equality and hashing of frames,
  columns and schemas are used by tests only; `Schema`'s dereference names that
  are never set, and `DataFrame::operator==` compares pointers.
- Column and row names, fielders, `pop_back`, `Packet::unpack` without partial
  reads, `Key`'s serialization: no caller in the applications.
- The reconnection of a client to a server it lost: the connection's end sets
  `_running`, so the main loop ends after the attempt.
- What clients do once the server has ended, and the destructor of `Server`, which
  runs before `close_all` does: its members are taken to stay readable. The sleep
  in `request_teardown` is time between two steps that hold the mutex.
- The watchdog, which the code turns off (connection.cpp:45, netport.cpp:40).
- Missing values that the rowers of Linus dereference: no file of the
  application's has any.
- The list iterator that is used after `erase` (ctc_connection.cpp:152): the
  model takes what the builds at hand do.
