----------------------------- MODULE Pipelines -----------------------------
(***************************************************************************)
(* The applications as clients of the store: Demo (producer, counter,      *)
(* summarizer), WordCount (reader, counter) and Linus (users, commits,     *)
(* projects).  Every node runs one thread whose calls of the store, and    *)
(* nothing else, are its script; what the store does is KVStore with       *)
(* CtCRequests and Framing below it taken for a read that is answered by   *)
(* the node it asks, fails, hangs, or gets a frame of which a part was     *)
(* lost.                                                                   *)
(*                                                                         *)
(* A frame is what its readers make of it: a sequence of numbers or words, *)
(* a set of ids (the filters turn every frame of ids into a set), users    *)
(* and commits as records.  Key <<name, d>> is name with d appended.       *)
(***************************************************************************)
EXTENDS Naturals, Sequences, FiniteSets, SequencesExt

CONSTANTS
  Jobs,      \* what may be started: [app, linked, ...] with the input of the
             \* application; linked are the pairs of nodes that come to know
             \* each other (ServerUpdates: of three clients two may never)
  Degrees,   \* degrees computed by Linus: 7
  Null,      \* nullptr
  Char,      \* the characters of a text
  Blank,     \* a space in a text
  Faults     \* a subset of {"fail", "hang", "cut"}: a get that returns
             \* nullptr, one that never returns, one whose answer is cut

ASSUME PipelineAssumption ==
  /\ Degrees \in Nat \ {0}
  /\ Faults \subseteq {"fail", "hang", "cut"}
  /\ \A j \in Jobs : j.app = "words" => j.text = Null \/ j.text \in Seq(Seq(Char))

VARIABLES
  job,      \* the application and its input
  at,       \* how much of its script each node has done
  pc,       \* "ready", "insert" (in set), "asked" (in get_value), "hung",
            \* "aborted", "exited"
  local,    \* _local_map
  known,    \* _other_nodes: the node of each key heard of
  heard,    \* the values get_or_wait returned
  net,      \* the network thread: "off", "on", "over"
  torn,     \* the server has been asked to tear down
  damaged   \* a frame has arrived with a part of it missing (history)

vars == <<job, at, pc, local, known, heard, net, torn, damaged>>

Node == 1..3

Alive(n) == pc[n] \notin {"aborted", "exited"}

----------------------------------------------------------------------------
(* Scripts: the calls of an application in their order.                    *)

Key(k) == <<k, 0>>
Put(k) == [op |-> "set", key |-> k]
Await(k) == [op |-> "wait", key |-> k]
Show == [op |-> "show"]
Listen == [op |-> "listen"]
Teardown == [op |-> "teardown"]

DemoProducer == <<Listen, Put(Key("main")), Put(Key("check"))>>

DemoCounter == <<Listen, Await(Key("main")), Show, Put(Key("verify"))>>

\* Mutant: the summarizer asks for the teardown before it waits.
DemoSummarizerEager ==
  <<Listen, Await(Key("check")), Teardown, Await(Key("verify")), Show>>

DemoSummarizer ==
  <<Listen, Await(Key("verify")), Await(Key("check")), Show, Teardown>>

(* Without a file the reader has the network torn down and exits. *)
WordReader(text) == IF text = Null THEN <<Listen, Teardown>>
                    ELSE <<Listen, Put(Key("wc_df"))>>

WordCounter == <<Listen, Await(Key("wc_df")), Show>>

(* The ids of the users called torvalds; _users takes the first. *)
Torvalds(users) == {i \in DOMAIN users : users[i].name = "torvalds"}

LinusUsers(users) ==
  <<Put(Key("users")), Listen>>
  \o (IF Torvalds(users) = {} THEN <<>> ELSE <<Put(Key("linus_uuid"))>>)
  \o FlattenSeq([d \in 1..Degrees |->
       <<Await(<<"uuids_degree_", d>>), Put(<<"degree", d>>), Show>>])

\* Mutant: the last degree is waited for before it is computed.
LinusCommitsShort ==
  <<Put(Key("commits")), Listen, Await(Key("linus_uuid")), Put(Key("linus_projects"))>>
  \o FlattenSeq([d \in 1..(Degrees - 1) |->
       <<Put(<<"uuids_degree_", d>>), Put(<<"projects_degree_", d>>)>>])

LinusCommits ==
  <<Put(Key("commits")), Listen, Await(Key("linus_uuid")), Put(Key("linus_projects"))>>
  \o FlattenSeq([d \in 1..Degrees |->
       <<Put(<<"uuids_degree_", d>>)>>
       \o IF d = Degrees THEN <<>> ELSE <<Put(<<"projects_degree_", d>>)>>])

LinusProjects == <<Put(Key("projects")), Listen>>

Script(n) ==
  CASE job.app = "demo"  -> <<DemoProducer, DemoCounter, DemoSummarizer>>[n]
    [] job.app = "words" -> <<WordReader(job.text), WordCounter, <<>> >>[n]
    [] job.app = "linus" -> <<LinusUsers(job.users), LinusCommits, LinusProjects>>[n]

Done(n) == at[n] = Len(Script(n))
Op(n) == Script(n)[at[n] + 1]
Doing(n, op) == Alive(n) /\ ~Done(n) /\ Op(n).op = op

----------------------------------------------------------------------------
(* What the applications compute. *)

(* Demo::SumRower over a column, by pmap. *)
Sum(column) == FoldLeft(+, 0, column)

\* Mutant: the word is not cleared when it has been pushed.
ReadInFileUncleared(text) ==
  LET char(s, c) ==
        IF c # Blank THEN [s EXCEPT !.word = Append(@, c)]
        ELSE IF s.word # <<>> THEN [s EXCEPT !.words = Append(@, s.word)]
        ELSE s
  IN  FoldLeft(char, [words |-> <<>>, word |-> <<>>], FlattenSeq(text)).words

(* WordCount::_read_in_file: a blank ends a word; the end of a line and of *)
(* the file do not.                                                        *)
ReadInFile(text) ==
  LET char(s, c) ==
        IF c # Blank THEN [s EXCEPT !.word = Append(@, c)]
        ELSE IF s.word # <<>>
             THEN [words |-> Append(s.words, s.word), word |-> <<>>]
        ELSE s
  IN  FoldLeft(char, [words |-> <<>>, word |-> <<>>], FlattenSeq(text)).words

(* CounterRower, mapped and joined. *)
Counts(words) == [w \in ToSet(words) |-> Cardinality({i \in DOMAIN words : words[i] = w})]

(* UUIDsToProjectsFilter, ProjectsToUUIDsFilter and UUIDsToNamesFilter,    *)
(* constructed with a frame of ids and mapped over commits or users.       *)
ProjectsOf(ids, commits) ==
  {c.pid : c \in {c \in ToSet(commits) : {c.author, c.committer} \cap ids # {}}}

\* Mutant: the committers are left out.
AuthorsOf(pids, commits) ==
  {c.author : c \in {c \in ToSet(commits) : c.pid \in pids}}

UsersOf(pids, commits) ==
  UNION {{c.author, c.committer} : c \in {c \in ToSet(commits) : c.pid \in pids}}

NamesOf(ids, users) == {u.name : u \in {u \in ToSet(users) : u.uuid \in ids}}

(* The value that node n sets k to. *)
Value(n, k) ==
  LET name == k[1]  d == k[2] IN
  CASE name = "main"    -> job.main
    [] name = "check"   -> Sum(job.main)
    [] name = "verify"  -> Sum(heard[n][Key("main")])
    [] name = "wc_df"   -> ReadInFile(job.text)
    [] name = "users"   -> job.users
    [] name = "commits" -> job.commits
    [] name = "projects" -> job.projects
    [] name = "linus_uuid" ->
         LET i == CHOOSE i \in Torvalds(job.users) : \A j \in Torvalds(job.users) : i <= j
         IN  {job.users[i].uuid}
    [] name = "linus_projects" -> ProjectsOf(heard[n][Key("linus_uuid")], job.commits)
    [] name = "uuids_degree_" ->
         UsersOf(local[n][IF d = 1 THEN Key("linus_projects")
                          ELSE <<"projects_degree_", d - 1>>], job.commits)
    [] name = "projects_degree_" -> ProjectsOf(local[n][<<"uuids_degree_", d>>], job.commits)
    [] name = "degree"  -> NamesOf(heard[n][<<"uuids_degree_", d>>], job.users)

----------------------------------------------------------------------------

Init ==
  /\ job \in Jobs
  /\ at = [n \in Node |-> 0]
  /\ pc = [n \in Node |-> "ready"]
  /\ local = [n \in Node |-> <<>>]
  /\ known = [n \in Node |-> <<>>]
  /\ heard = [n \in Node |-> <<>>]
  /\ net = [n \in Node |-> "off"]
  /\ torn = FALSE
  /\ damaged = FALSE

With(f, k, v) == [x \in DOMAIN f \cup {k} |-> IF x = k THEN v ELSE f[x]]

Advance(n) == at' = [at EXCEPT ![n] = @ + 1]

(* The thread that runs listen_on_socket is started. *)
StartListening(n) ==
  /\ Doing(n, "listen")
  /\ net' = [net EXCEPT ![n] = "on"]
  /\ Advance(n)
  /\ UNCHANGED <<job, pc, local, known, heard, torn, damaged>>

\* Mutant: only the frame waited for last is looked at.
UnusableLast(n) ==
  LET waits == {i \in 1..at[n] : Script(n)[i].op = "wait"}
  IN  waits # {} /\ heard[n][Script(n)[Max(waits)].key] = Null

(* A nullptr that get_or_wait returned at its timeout is dereferenced by   *)
(* whatever comes next but another wait.                                   *)
Unusable(n) == \E k \in DOMAIN heard[n] : heard[n][k] = Null

(* KVStore::set: the assert that no other node is known to have the key... *)
SetCheck(n) ==
  /\ Doing(n, "set") /\ pc[n] = "ready" /\ ~Unusable(n)
  /\ pc' = [pc EXCEPT ![n] = IF Op(n).key \in DOMAIN known[n] THEN "aborted" ELSE "insert"]
  /\ UNCHANGED <<job, at, local, known, heard, net, torn, damaged>>

(* ... and the insertion, under another mutex.                             *)
SetInsert(n) ==
  /\ pc[n] = "insert"
  /\ local' = [local EXCEPT ![n] = With(@, Op(n).key, Value(n, Op(n).key))]
  /\ pc' = [pc EXCEPT ![n] = "ready"]
  /\ Advance(n)
  /\ UNCHANGED <<job, known, heard, net, torn, damaged>>

(* A key list of m, all of it, arrives at n: add_nonlocal for each key.    *)
Announce(m, n) ==
  /\ {m, n} \in job.linked /\ m # n /\ Alive(m) /\ Alive(n) /\ net[m] # "off" /\ net[n] # "off"
  /\ known' = [known EXCEPT ![n] =
       [k \in DOMAIN @ \cup DOMAIN local[m] |-> IF k \in DOMAIN local[m] THEN m ELSE @[k]]]
  /\ UNCHANGED <<job, at, pc, local, heard, net, torn, damaged>>

(* KVStore::get in the loop of get_or_wait finds the key and asks; as long *)
(* as it is unknown nothing happens.                                       *)
Lookup(n) ==
  /\ Doing(n, "wait") /\ pc[n] = "ready"
  /\ Op(n).key \in DOMAIN known[n]
  /\ pc' = [pc EXCEPT ![n] = "asked"]
  /\ UNCHANGED <<job, at, local, known, heard, net, torn, damaged>>

Hear(n, v) ==
  /\ heard' = [heard EXCEPT ![n] = With(@, Op(n).key, v)]
  /\ Advance(n)

Answer(n) ==
  LET m == known[n][Op(n).key]
  IN  /\ pc[n] = "asked" /\ Alive(m) /\ Op(n).key \in DOMAIN local[m]
      /\ Hear(n, local[m][Op(n).key])
      /\ pc' = [pc EXCEPT ![n] = "ready"]
      /\ UNCHANGED <<job, local, known, net, torn, damaged>>

(* What a reader makes of a frame whose end did not arrive: the bytes that *)
(* are missing are read as zeros, and the length is that of the header.    *)
Torn(k, value) ==
  LET cut(zero) == {[i \in DOMAIN value |-> IF i <= p THEN value[i] ELSE zero] :
                      p \in 0..(Len(value) - 1)}
  IN  CASE k[1] = "main" -> cut(0)
        [] k[1] = "wc_df" -> cut(<<>>)
        [] k[1] \in {"check", "verify"} -> {0}
        [] OTHER -> {{0}}

(* The answer is longer than what send takes at once (connection.cpp:92),  *)
(* or than what has arrived when unpack moves on (connection.cpp:156-160): *)
(* the reader gets a frame with a part missing, crashes over it, or finds  *)
(* no frame and waits on.  (Bound: one cut.)                               *)
Cut(n) ==
  LET m == known[n][Op(n).key]
  IN  /\ "cut" \in Faults /\ ~damaged
      /\ pc[n] = "asked" /\ Alive(m) /\ Op(n).key \in DOMAIN local[m]
      /\ damaged' = TRUE
      /\ \/ /\ \E v \in Torn(Op(n).key, local[m][Op(n).key]) : Hear(n, v)
            /\ pc' = [pc EXCEPT ![n] = "ready"]
         \/ /\ \E end \in {"aborted", "hung"} : pc' = [pc EXCEPT ![n] = end]
            /\ UNCHANGED <<at, heard>>
      /\ UNCHANGED <<job, local, known, net, torn>>

(* get_value returns nullptr: the connection is not found, or the thread   *)
(* woke up for no reason.  get_or_wait tries again.                        *)
Fail(n) ==
  /\ "fail" \in Faults /\ pc[n] = "asked"
  /\ pc' = [pc EXCEPT ![n] = "ready"]
  /\ UNCHANGED <<job, at, local, known, heard, net, torn, damaged>>

(* The connection is lost under a waiting thread, which no timeout wakes.  *)
Hang(n) ==
  /\ "hang" \in Faults /\ pc[n] = "asked"
  /\ pc' = [pc EXCEPT ![n] = "hung"]
  /\ UNCHANGED <<job, at, local, known, heard, net, torn, damaged>>

(* The timeout is looked at between two calls of get.  Only Demo has one.  *)
TimeOut(n) ==
  /\ Doing(n, "wait") /\ pc[n] = "ready" /\ job.app = "demo"
  /\ Hear(n, Null)
  /\ UNCHANGED <<job, pc, local, known, net, torn, damaged>>

Dereference(n) ==
  /\ Doing(n, "set") \/ Doing(n, "show")
  /\ pc[n] = "ready" /\ Unusable(n)
  /\ pc' = [pc EXCEPT ![n] = "aborted"]
  /\ UNCHANGED <<job, at, local, known, heard, net, torn, damaged>>

PrintResult(n) ==
  /\ Doing(n, "show") /\ ~Unusable(n)
  /\ Advance(n)
  /\ UNCHANGED <<job, pc, local, known, heard, net, torn, damaged>>

RequestTeardown(n) ==
  /\ Doing(n, "teardown")
  /\ torn' = TRUE
  /\ Advance(n)
  /\ UNCHANGED <<job, pc, local, known, heard, net, damaged>>

(* The server has passed it on: the main loop of n ends.                   *)
LoopEnds(n) ==
  /\ torn /\ Alive(n) /\ net[n] = "on"
  /\ net' = [net EXCEPT ![n] = "over"]
  /\ UNCHANGED <<job, at, pc, local, known, heard, torn, damaged>>

(* After its work the application's thread joins the network thread; then  *)
(* the process ends, and its connections with it.                          *)
Exit(n) ==
  /\ Alive(n) /\ Done(n) /\ net[n] = "over"
  /\ pc' = [pc EXCEPT ![n] = "exited"]
  /\ UNCHANGED <<job, at, local, known, heard, net, torn, damaged>>

App(n) ==
  \/ StartListening(n) \/ SetCheck(n) \/ SetInsert(n) \/ Lookup(n)
  \/ Dereference(n) \/ PrintResult(n) \/ RequestTeardown(n)

Next ==
  \/ \E n \in Node : App(n) \/ Answer(n) \/ Cut(n) \/ Fail(n) \/ Hang(n) \/ TimeOut(n)
                     \/ LoopEnds(n) \/ Exit(n)
  \/ \E m, n \in Node : Announce(m, n)

Spec == Init /\ [][Next]_vars

(* A read that fails is repeated, and not every repetition fails.  Of the  *)
(* nodes, those that are linked hear of each other's keys: their workers   *)
(* send key lists in turn (ClientMesh).                                    *)
FairSpec ==
  /\ Spec
  /\ \A n \in Node : WF_vars(App(n)) /\ SF_vars(Answer(n)) /\ WF_vars(LoopEnds(n)) /\ WF_vars(Exit(n))
  /\ \A m, n \in Node : WF_vars(Announce(m, n))

----------------------------------------------------------------------------
(* Properties. *)

Shown(n) == \E i \in 1..at[n] : Script(n)[i].op = "show"

(* What the summarizer prints as expected and as actual is the same, and   *)
(* is the sum of the main frame, in whatever order keys, answers and       *)
(* timeouts come, unless a part of a frame was lost.  The main frame is    *)
(* much larger than the receive buffer, so that can happen: "sometimes it  *)
(* will compute the wrong result, and sometimes it will fail with a        *)
(* Segfault" (report/doc.md:597-598).                                      *)
SummaryRight ==
  job.app = "demo" /\ Shown(3) /\ ~damaged =>
    /\ heard[3][Key("check")] = heard[3][Key("verify")]
    /\ heard[3][Key("check")] = Sum(job.main)

(* When the summarizer has the network torn down nobody in Demo waits, or  *)
(* has yet to set a key (demo.cpp:84).                                     *)
DemoTornDownLast == job.app = "demo" /\ torn => \A n \in Node : Done(n)

(* The names stored and printed for degree d are those of the users who    *)
(* are at most d joint projects away from Linus, by way of whoever made    *)
(* commits, in the table of users or not; unless a part of a frame was     *)
(* lost.                                                                   *)
Joint(a, b) ==
  \E c1, c2 \in ToSet(job.commits) :
    c1.pid = c2.pid /\ a \in {c1.author, c1.committer} /\ b \in {c2.author, c2.committer}

People == UNION {{c.author, c.committer} : c \in ToSet(job.commits)}

Within(d, linus, b) ==
  \E path \in [0..d -> People] :
    path[0] = linus /\ path[d] = b /\ \A i \in 1..d : Joint(path[i - 1], path[i])

DegreesAreBalls ==
  job.app = "linus" /\ ~damaged =>
    \A d \in 1..Degrees :
      <<"degree", d>> \in DOMAIN local[1] =>
        \E linus \in local[1][Key("linus_uuid")] :
          local[1][<<"degree", d>>] =
            {u.name : u \in {u \in ToSet(job.users) : Within(d, linus, u.uuid)}}

(* The counter counts the words of the text if it gets all of the frame    *)
(* and every line that is not empty ends in a blank.  (Otherwise words run *)
(* on from line to line, and the last one is lost: wordcount.cpp:81-89.)   *)
Words(line) ==
  {ij \in (DOMAIN line) \X (DOMAIN line) :
     /\ ij[1] <= ij[2] /\ \A k \in ij[1]..ij[2] : line[k] # Blank
     /\ ij[1] = 1 \/ line[ij[1] - 1] = Blank
     /\ ij[2] = Len(line) \/ line[ij[2] + 1] = Blank}

Times(w, text) ==
  Cardinality({lij \in UNION {{l} \X Words(text[l]) : l \in DOMAIN text} :
                 SubSeq(text[lij[1]], lij[2][1], lij[2][2]) = w})

WordsCounted ==
  job.app = "words" /\ Shown(2) /\ ~damaged
  /\ (\A l \in DOMAIN job.text : job.text[l] # <<>> => Last(job.text[l]) = Blank) =>
    LET counts == Counts(heard[2][Key("wc_df")])
        words  == UNION {{SubSeq(line, ij[1], ij[2]) : ij \in Words(line)} : line \in ToSet(job.text)}
    IN  counts = [w \in words |-> Times(w, job.text)]

KeysOf(n, op) == {call.key : call \in {call \in ToSet(Script(n)) : call.op = op}}

(* Whoever sets a key that n waits for comes to know n.                    *)
Fed(n) ==
  \A m \in Node : KeysOf(n, "wait") \cap KeysOf(m, "set") # {} => {m, n} \in job.linked

(* A pipeline comes to its end unless a wait timed out or hung, or a frame *)
(* that was cut crashed a node: whatever a node waits for is set by one    *)
(* that does not wait for it.  Left out are pipelines of which two nodes   *)
(* that need each other never meet, a reader without its file, and users   *)
(* of whom nobody is called torvalds.                                      *)
PipelinesEnd ==
  /\ \A n \in Node : Fed(n)
  /\ job.app = "words" => job.text # Null
  /\ job.app = "linus" => Torvalds(job.users) # {}
  =>
    <>(\/ \A n \in Node : Done(n)
       \/ \E n \in Node : pc[n] = "hung" \/ Unusable(n) \/ (damaged /\ pc[n] = "aborted"))

=============================================================================
