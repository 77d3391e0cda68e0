-------------------------- MODULE Pipelines_proofs --------------------------
(***************************************************************************)
(* Proofs about the applications in Pipelines: Demo for any column, Linus  *)
(* for any users and commits and any number of degrees, WordCount for any  *)
(* text; whatever fails, hangs or times out, and in whatever order keys    *)
(* become known.  What is computed is right as long as no frame was cut;   *)
(* that Demo is torn down last holds in any case.                          *)
(*                                                                         *)
(*   - DemoState, the invariant of Demo, and LinusState, that of the other *)
(*     two: what is past in a script is done, what is there was put there  *)
(*     by a call, and is what belongs under its key (Right);               *)
(*   - what belongs under a key of Linus, against paths of joint projects; *)
(*   - what ReadInFile reads, character by character, against the words    *)
(*     that stand in the lines.                                            *)
(***************************************************************************)
EXTENDS Integers, Pipelines, InductionLemmas, SequenceTheorems, FiniteSetTheorems, TLAPS

Main == Key("main")
Check == Key("check")
Verify == Key("verify")

Pc == {"ready", "insert", "asked", "hung", "aborted", "exited"}

----------------------------------------------------------------------------
(* The invariant, for Demo. *)

(* Types: how far each node may be in its script, and what its thread may  *)
(* be doing there.                                                         *)
Places ==
  /\ at \in [Node -> Nat] /\ at[1] <= 3 /\ at[2] <= 4 /\ at[3] <= 5
  /\ pc \in [Node -> Pc]
  /\ pc[1] = "insert" => at[1] \in {1, 2}
  /\ pc[2] = "insert" => at[2] = 3
  /\ pc[3] # "insert"
  /\ pc[1] # "asked"
  /\ pc[2] = "asked" => at[2] = 1
  /\ pc[3] = "asked" => at[3] \in {1, 2}

(* Keys are known to be on nodes, and the one asked for is known.          *)
Maps ==
  /\ local = [n \in Node |-> local[n]] /\ heard = [n \in Node |-> heard[n]]
  /\ known = [n \in Node |-> known[n]]
  /\ \A n \in Node : \A k \in DOMAIN known[n] : known[n][k] \in Node
  /\ \A n \in Node : pc[n] = "asked" => Op(n).key \in DOMAIN known[n]

(* What is stored is the frame and its sum, and who has stored its last    *)
(* key has come to the end of its calls, but for printing.                 *)
Stored ==
  /\ DOMAIN local[1] \subseteq {Main, Check}
  /\ Main \in DOMAIN local[1] => (damaged \/ local[1][Main] = job.main)
  /\ Check \in DOMAIN local[1] => (damaged \/ local[1][Check] = Sum(job.main)) /\ at[1] = 3
  /\ DOMAIN local[2] \subseteq {Verify}
  /\ Verify \in DOMAIN local[2] => (damaged \/ local[2][Verify] = Sum(job.main)) /\ at[2] = 4
  /\ DOMAIN local[3] = {}

(* What is heard is what is stored, or nothing after a timeout.            *)
Heard ==
  /\ at[2] >= 2 => Main \in DOMAIN heard[2]
  /\ at[3] >= 2 => Verify \in DOMAIN heard[3]
  /\ at[3] >= 3 => Check \in DOMAIN heard[3]
  /\ Main \in DOMAIN heard[2] /\ heard[2][Main] # Null => (damaged \/ heard[2][Main] = job.main)
  /\ Verify \in DOMAIN heard[3] /\ heard[3][Verify] # Null =>
       (damaged \/ heard[3][Verify] = Sum(job.main)) /\ at[2] = 4
  /\ Check \in DOMAIN heard[3] /\ heard[3][Check] # Null =>
       (damaged \/ heard[3][Check] = Sum(job.main)) /\ at[1] = 3

(* Nobody computes with or prints a frame that a timeout left out.         *)
Usable ==
  /\ pc[2] = "insert" => ~Unusable(2)
  /\ at[3] >= 4 => ~Unusable(3)
  /\ torn => at[3] = 5

----------------------------------------------------------------------------
(* The scripts of Demo, call by call. *)

(* The three nodes of Demo.                                                 *)
LEMMA NodeSpelled == Node = {1, 2, 3}
  BY DEF Node

(* The three keys of Demo.                                                  *)
LEMMA KeysDiffer == Main # Check /\ Main # Verify /\ Check # Verify
  BY DEF Main, Check, Verify, Key

(* Who does what.                                                           *)
LEMMA DemoScripts ==
  ASSUME job.app = "demo"
  PROVE  Script(1) = DemoProducer /\ Script(2) = DemoCounter /\ Script(3) = DemoSummarizer
  BY DEF Script

(* Where the scripts end.                                                   *)
LEMMA DemoDone ==
  ASSUME job.app = "demo"
  PROVE  /\ Done(1) <=> at[1] = 3
         /\ Done(2) <=> at[2] = 4
         /\ Done(3) <=> at[3] = 5
  BY DemoScripts DEF Done, DemoProducer, DemoCounter, DemoSummarizer

(* Demo::_producer.                                                         *)
LEMMA ProducerOps ==
  ASSUME job.app = "demo"
  PROVE  /\ at[1] = 0 => Op(1) = Listen
         /\ at[1] = 1 => Op(1) = Put(Main)
         /\ at[1] = 2 => Op(1) = Put(Check)
  BY DemoScripts DEF Op, DemoProducer, Main, Check

(* Demo::_counter.                                                          *)
LEMMA CounterOps ==
  ASSUME job.app = "demo"
  PROVE  /\ at[2] = 0 => Op(2) = Listen
         /\ at[2] = 1 => Op(2) = Await(Main)
         /\ at[2] = 2 => Op(2) = Show
         /\ at[2] = 3 => Op(2) = Put(Verify)
  BY DemoScripts DEF Op, DemoCounter, Main, Verify

(* Demo::_summarizer.                                                       *)
LEMMA SummarizerOps ==
  ASSUME job.app = "demo"
  PROVE  /\ at[3] = 0 => Op(3) = Listen
         /\ at[3] = 1 => Op(3) = Await(Verify)
         /\ at[3] = 2 => Op(3) = Await(Check)
         /\ at[3] = 3 => Op(3) = Show
         /\ at[3] = 4 => Op(3) = Teardown
  BY DemoScripts DEF Op, DemoSummarizer, Check, Verify

(* Where each node makes which calls.                                      *)
LEMMA DemoPlaces ==
  ASSUME job.app = "demo", Places
  PROVE  /\ Doing(1, "set") => at[1] \in {1, 2}
         /\ Doing(2, "set") => at[2] = 3
         /\ ~Doing(3, "set")
         /\ ~Doing(1, "wait")
         /\ Doing(2, "wait") => at[2] = 1
         /\ Doing(3, "wait") => at[3] \in {1, 2}
         /\ Doing(1, "listen") => at[1] = 0
         /\ Doing(2, "listen") => at[2] = 0
         /\ Doing(3, "listen") => at[3] = 0
         /\ ~Doing(1, "show")
         /\ Doing(2, "show") => at[2] = 2
         /\ Doing(3, "show") => at[3] = 3
         /\ ~Doing(1, "teardown") /\ ~Doing(2, "teardown")
         /\ Doing(3, "teardown") => at[3] = 4
<1>1. /\ at[1] \in {0, 1, 2, 3} /\ at[2] \in {0, 1, 2, 3, 4} /\ at[3] \in {0, 1, 2, 3, 4, 5}
  BY NodeSpelled DEF Places
<1>2. ASSUME NEW op, Doing(1, op)
      PROVE  /\ op = "listen" => at[1] = 0
             /\ op = "set" => at[1] \in {1, 2}
             /\ op \notin {"wait", "show", "teardown"}
  BY <1>1, <1>2, DemoDone, ProducerOps DEF Doing, Listen, Put
<1>3. ASSUME NEW op, Doing(2, op)
      PROVE  /\ op = "listen" => at[2] = 0
             /\ op = "wait" => at[2] = 1
             /\ op = "show" => at[2] = 2
             /\ op = "set" => at[2] = 3
             /\ op # "teardown"
  BY <1>1, <1>3, DemoDone, CounterOps DEF Doing, Listen, Put, Await, Show
<1>4. ASSUME NEW op, Doing(3, op)
      PROVE  /\ op = "listen" => at[3] = 0
             /\ op = "wait" => at[3] \in {1, 2}
             /\ op = "show" => at[3] = 3
             /\ op = "teardown" => at[3] = 4
             /\ op # "set"
  BY <1>1, <1>4, DemoDone, SummarizerOps DEF Doing, Listen, Await, Show, Teardown
<1> HIDE DEF Doing
<1> QED
  BY <1>2, <1>3, <1>4

----------------------------------------------------------------------------
(* The steps. *)

(* A node that did not go on has the same call to make.                     *)
LEMMA OpKept ==
  ASSUME NEW n \in Node, job' = job, at'[n] = at[n]
  PROVE  Op(n)' = Op(n)
  BY DEF Op, Script

(* What is unusable depends on what was heard.                              *)
LEMMA UnusableKept ==
  ASSUME NEW n \in Node, heard'[n] = heard[n]
  PROVE  Unusable(n)' <=> Unusable(n)
  BY DEF Unusable

DemoState == job.app = "demo" /\ Places /\ Maps /\ Stored /\ Heard /\ Usable

(* A step that only lets the thread of n do something else.                *)
LEMMA PcStep ==
  ASSUME DemoState, NEW n \in Node, NEW q \in Pc, pc' = [pc EXCEPT ![n] = q],
         UNCHANGED <<job, at, local, known, heard, torn>>, damaged => damaged',
         q = "insert" => Doing(n, "set") /\ ~Unusable(n),
         q = "asked" => Doing(n, "wait") /\ Op(n).key \in DOMAIN known[n]
  PROVE  DemoState'
<1> USE NodeSpelled
<1>1. pc'[n] = q /\ \A m \in Node : m # n => pc'[m] = pc[m]
  BY DEF DemoState, Places
<1>2. Places'
  <2>1. pc' \in [Node -> Pc]
    BY DEF DemoState, Places
  <2>2. /\ q = "insert" => (n = 1 /\ at[1] \in {1, 2}) \/ (n = 2 /\ at[2] = 3)
        /\ q = "asked" => (n = 2 /\ at[2] = 1) \/ (n = 3 /\ at[3] \in {1, 2})
    BY DemoPlaces DEF DemoState
  <2> QED
    BY <1>1, <2>1, <2>2 DEF DemoState, Places
<1>3. Maps'
  <2>1. \A m \in Node : Op(m)' = Op(m)
    BY OpKept
  <2>2. ASSUME NEW m \in Node, pc'[m] = "asked"
        PROVE  Op(m).key \in DOMAIN known[m]
    BY <1>1, <2>2 DEF DemoState, Maps
  <2> QED
    BY <2>1, <2>2 DEF DemoState, Maps
<1>4. Stored'
  BY DEF DemoState, Stored
<1>5. Heard'
  BY DEF DemoState, Heard
<1>6. Usable'
  <2>1. \A m \in Node : Unusable(m)' <=> Unusable(m)
    BY UnusableKept
  <2>2. pc'[2] = "insert" => ~Unusable(2)
    BY <1>1 DEF DemoState, Usable
  <2> QED
    BY <2>1, <2>2 DEF DemoState, Usable
<1> QED
  BY <1>2, <1>3, <1>4, <1>5, <1>6 DEF DemoState

(* A step that takes n past a call that neither sets nor waits.            *)
LEMMA CallStep ==
  ASSUME DemoState, NEW n \in Node, at' = [at EXCEPT ![n] = @ + 1],
         UNCHANGED <<job, pc, local, known, heard, damaged>>,
         \/ Doing(n, "listen") /\ torn' = torn
         \/ Doing(n, "show") /\ ~Unusable(n) /\ torn' = torn
         \/ Doing(n, "teardown")
  PROVE  DemoState'
<1> USE NodeSpelled
<1>1. at'[n] = at[n] + 1 /\ at' \in [Node -> Nat] /\ \A m \in Node : m # n => at'[m] = at[m]
  BY DEF DemoState, Places
<1>2. \/ n = 1 /\ at[1] = 0 /\ torn' = torn
      \/ n = 2 /\ at[2] \in {0, 2} /\ torn' = torn
      \/ n = 3 /\ at[3] = 0 /\ torn' = torn
      \/ n = 3 /\ at[3] = 3 /\ torn' = torn /\ ~Unusable(3)
      \/ n = 3 /\ at[3] = 4
  BY DemoPlaces DEF DemoState
<1>3. Places'
  BY <1>1, <1>2 DEF DemoState, Places
<1>4. pc[n] # "asked" /\ pc[n] # "insert"
  BY <1>2 DEF DemoState, Places
<1>5. Maps'
  <2>1. ASSUME NEW m \in Node, pc'[m] = "asked"
        PROVE  Op(m)' = Op(m) /\ Op(m).key \in DOMAIN known[m]
    BY <1>1, <1>4, <2>1, OpKept DEF DemoState, Maps
  <2> QED
    BY <2>1 DEF DemoState, Maps
<1>6. Stored'
  BY <1>1, <1>2 DEF DemoState, Stored
<1>7. Heard'
  BY <1>1, <1>2 DEF DemoState, Heard
<1>8. Usable'
  <2>1. \A m \in Node : Unusable(m)' <=> Unusable(m)
    BY UnusableKept
  <2>2. at'[3] >= 4 => ~Unusable(3)
    BY <1>1, <1>2 DEF DemoState, Usable
  <2>3. ASSUME torn'
        PROVE  at'[3] = 5
    <3>1. torn => at[3] = 5
      BY DEF DemoState, Usable
    <3>2. CASE n = 3 /\ at[3] = 4
      BY <1>1, <3>2
    <3>3. CASE torn
      <4>1. n = 3 => at[3] \in {0, 3, 4}
        BY <1>2, Zenon
      <4>2. at[3] = 5 /\ n # 3
        BY <3>1, <3>3, <4>1
      <4> QED
        BY <1>1, <4>2
    <3> QED
      BY <1>2, <2>3, <3>2, <3>3
  <2> QED
    BY <2>1, <2>2, <2>3 DEF DemoState, Usable
<1> QED
  BY <1>3, <1>5, <1>6, <1>7, <1>8 DEF DemoState

(* Key lists.                                                              *)
LEMMA AnnounceStep ==
  ASSUME DemoState, NEW m \in Node, NEW n \in Node, Announce(m, n)
  PROVE  DemoState'
<1>1. UNCHANGED <<job, at, pc, local, heard, torn, damaged>>
  BY DEF Announce
<1>2. PICK ks : ks = DOMAIN local[m]
  OBVIOUS
<1>3. PICK old : old = known[n]
  OBVIOUS
<1>4. PICK new : new = [k \in DOMAIN old \cup ks |-> IF k \in ks THEN m ELSE old[k]]
  OBVIOUS
<1>5. known' = [known EXCEPT ![n] = new]
  BY <1>2, <1>3, <1>4, Zenon DEF Announce
<1>6. DOMAIN new = DOMAIN old \cup ks /\ \A k \in DOMAIN new : new[k] \in Node
  BY <1>3, <1>4 DEF DemoState, Maps
<1>7. known' = [x \in Node |-> known'[x]] /\ known'[n] = new /\ \A x \in Node : x # n => known'[x] = known[x]
  BY <1>5 DEF DemoState, Maps
<1>8. \A x \in Node : \A k \in DOMAIN known'[x] : known'[x][k] \in Node
  BY <1>6, <1>7 DEF DemoState, Maps
<1>9. \A x \in Node : DOMAIN known[x] \subseteq DOMAIN known'[x]
  BY <1>3, <1>6, <1>7
<1>10. Maps'
  <2>1. \A x \in Node : Op(x)' = Op(x)
    BY <1>1, OpKept
  <2>2. \A x \in Node : pc[x] = "asked" => Op(x).key \in DOMAIN known'[x]
    BY <1>9 DEF DemoState, Maps
  <2> QED
    BY <1>1, <1>7, <1>8, <2>1, <2>2 DEF DemoState, Maps
<1>11. Places' /\ Stored' /\ Heard'
  BY <1>1 DEF DemoState, Places, Stored, Heard
<1>12. Usable'
  BY <1>1, UnusableKept, NodeSpelled DEF DemoState, Usable
<1> QED
  BY <1>1, <1>10, <1>11, <1>12 DEF DemoState

(* The values of Demo.                                                     *)
LEMMA DemoValues ==
  ASSUME job.app = "demo"
  PROVE  /\ Value(1, Main) = job.main
         /\ Value(1, Check) = Sum(job.main)
         /\ Value(2, Verify) = Sum(heard[2][Main])
<1>1. Value(1, Main) = job.main
  BY DEF Value, Main, Key
<1>2. Value(1, Check) = Sum(job.main)
  BY DEF Value, Check, Key
<1>3. Value(2, Verify) = Sum(heard[2][Main])
  BY DEF Value, Verify, Main, Key
<1> QED
  BY <1>1, <1>2, <1>3

(* The second critical section of KVStore::set keeps the invariant.         *)
LEMMA SetInsertStep ==
  ASSUME DemoState, NEW n \in Node, SetInsert(n)
  PROVE  DemoState'
<1> USE NodeSpelled
<1>1. /\ pc[n] = "insert" /\ pc' = [pc EXCEPT ![n] = "ready"]
      /\ at' = [at EXCEPT ![n] = @ + 1]
      /\ UNCHANGED <<job, known, heard, torn, damaged>>
  BY DEF SetInsert, Advance
<1>2. pc'[n] = "ready" /\ pc' \in [Node -> Pc] /\ \A m \in Node : m # n => pc'[m] = pc[m]
  BY <1>1 DEF DemoState, Places, Pc
<1>3. at'[n] = at[n] + 1 /\ at' \in [Node -> Nat] /\ \A m \in Node : m # n => at'[m] = at[m]
  BY <1>1 DEF DemoState, Places
<1>4. (n = 1 /\ at[1] = 1) \/ (n = 1 /\ at[1] = 2) \/ (n = 2 /\ at[2] = 3)
  BY <1>1 DEF DemoState, Places
<1>5. PICK k, v, old, new : k = Op(n).key /\ v = Value(n, k) /\ old = local[n] /\ new = With(old, k, v)
  OBVIOUS
<1>6. local' = [local EXCEPT ![n] = new]
  BY <1>5, Zenon DEF SetInsert
<1>7. local' = [x \in Node |-> local'[x]] /\ local'[n] = new /\ \A x \in Node : x # n => local'[x] = local[x]
  BY <1>6 DEF DemoState, Maps
<1>8. DOMAIN new = DOMAIN old \cup {k} /\ new[k] = v /\ \A x \in DOMAIN old : x # k => new[x] = old[x]
  BY <1>5 DEF With
<1>9. /\ n = 1 /\ at[1] = 1 => k = Main /\ v = job.main
      /\ n = 1 /\ at[1] = 2 => k = Check /\ v = Sum(job.main)
      /\ n = 2 => k = Verify /\ (damaged \/ v = Sum(job.main))
  <2>1. n = 1 /\ at[1] = 1 => k = Main
    BY <1>5, ProducerOps DEF DemoState, Put
  <2>2. n = 1 /\ at[1] = 2 => k = Check
    BY <1>5, ProducerOps DEF DemoState, Put
  <2>3. n = 2 => k = Verify
    BY <1>4, <1>5, CounterOps DEF DemoState, Put
  <2>4. n = 1 /\ at[1] = 1 => v = job.main
    BY <1>5, <2>1, DemoValues DEF DemoState
  <2>5. n = 1 /\ at[1] = 2 => v = Sum(job.main)
    BY <1>5, <2>2, DemoValues DEF DemoState
  <2>6. ASSUME n = 2
        PROVE  damaged \/ v = Sum(job.main)
    <3>1. Main \in DOMAIN heard[2] /\ heard[2][Main] # Null
      BY <1>1, <1>4, <2>6 DEF DemoState, Usable, Unusable, Heard
    <3>2. damaged \/ heard[2][Main] = job.main
      BY <3>1 DEF DemoState, Heard
    <3>3. v = Sum(heard[2][Main])
      BY <1>5, <2>3, <2>6, DemoValues DEF DemoState
    <3> QED
      BY <3>2, <3>3, Zenon
  <2> QED
    BY <2>1, <2>2, <2>3, <2>4, <2>5, <2>6
<1>10. Places'
  BY <1>2, <1>3, <1>4 DEF DemoState, Places
<1>11. Maps'
  <2>1. ASSUME NEW m \in Node, pc'[m] = "asked"
        PROVE  Op(m)' = Op(m) /\ Op(m).key \in DOMAIN known[m]
    BY <1>1, <1>2, <1>3, <2>1, OpKept DEF DemoState, Maps
  <2> QED
    BY <1>1, <1>7, <2>1 DEF DemoState, Maps
<1>12. Stored'
  <2>1. /\ DOMAIN local[1] \subseteq {Main, Check}
        /\ Main \in DOMAIN local[1] => (damaged \/ local[1][Main] = job.main)
        /\ Check \in DOMAIN local[1] => (damaged \/ local[1][Check] = Sum(job.main)) /\ at[1] = 3
        /\ DOMAIN local[2] \subseteq {Verify}
        /\ Verify \in DOMAIN local[2] => (damaged \/ local[2][Verify] = Sum(job.main)) /\ at[2] = 4
        /\ DOMAIN local[3] = {}
    BY DEF DemoState, Stored
  <2>2. DOMAIN local'[1] \subseteq {Main, Check}
    BY <1>4, <1>5, <1>7, <1>8, <1>9, <2>1
  <2>3. ASSUME NEW m \in Node, NEW x \in DOMAIN local'[m]
        PROVE  \/ m = n /\ x = k /\ local'[m][x] = v
               \/ x \in DOMAIN local[m] /\ local'[m][x] = local[m][x]
    BY <1>5, <1>7, <1>8, <2>3
  <2>4. damaged' = damaged /\ 1 \in Node /\ 2 \in Node
    BY <1>1
  <2>5. Main \in DOMAIN local'[1] => (damaged' \/ local'[1][Main] = job.main)
    BY <1>4, <1>9, <2>1, <2>3, <2>4, KeysDiffer
  <2>6. Check \in DOMAIN local'[1] => (damaged' \/ local'[1][Check] = Sum(job.main)) /\ at'[1] = 3
    BY <1>3, <1>4, <1>9, <2>1, <2>3, <2>4, KeysDiffer
  <2>7. DOMAIN local'[2] \subseteq {Verify}
    BY <1>9, <2>1, <2>3, <2>4
  <2>8. Verify \in DOMAIN local'[2] => (damaged' \/ local'[2][Verify] = Sum(job.main)) /\ at'[2] = 4
    BY <1>3, <1>4, <1>9, <2>1, <2>3, <2>4, KeysDiffer
  <2>9. DOMAIN local'[3] = {}
    BY <1>4, <1>7, <2>1
  <2> QED
    BY <1>1, <2>2, <2>5, <2>6, <2>7, <2>8, <2>9 DEF Stored
<1>13. Heard'
  BY <1>1, <1>3, <1>4 DEF DemoState, Heard
<1>14. Usable'
  <2>1. \A m \in Node : Unusable(m)' <=> Unusable(m)
    BY <1>1, UnusableKept
  <2>2. pc'[2] = "insert" => ~Unusable(2)
    BY <1>2 DEF DemoState, Usable
  <2> QED
    BY <1>1, <1>3, <1>4, <2>1, <2>2 DEF DemoState, Usable
<1> QED
  BY <1>1, <1>10, <1>11, <1>12, <1>13, <1>14 DEF DemoState

(* n goes on with v for the frame it waited for.                           *)
LEMMA HearStep ==
  ASSUME DemoState, NEW n \in Node, NEW v, Hear(n, v), Doing(n, "wait"),
         UNCHANGED <<job, local, known, torn>>, pc' = [pc EXCEPT ![n] = "ready"],
         damaged => damaged',
         \/ v = Null
         \/ \E m \in Node : Op(n).key \in DOMAIN local[m] /\ (damaged' \/ v = local[m][Op(n).key])
  PROVE  DemoState'
<1> USE NodeSpelled
<1>1. at' = [at EXCEPT ![n] = @ + 1]
  BY DEF Hear, Advance
<1>2. pc'[n] = "ready" /\ pc' \in [Node -> Pc] /\ \A m \in Node : m # n => pc'[m] = pc[m]
  BY DEF DemoState, Places, Pc
<1>3. at'[n] = at[n] + 1 /\ at' \in [Node -> Nat] /\ \A m \in Node : m # n => at'[m] = at[m]
  BY <1>1 DEF DemoState, Places
<1>4. (n = 2 /\ at[2] = 1) \/ (n = 3 /\ at[3] = 1) \/ (n = 3 /\ at[3] = 2)
  BY DemoPlaces DEF DemoState
<1>5. PICK k, old, new : k = Op(n).key /\ old = heard[n] /\ new = With(old, k, v)
  OBVIOUS
<1>6. heard' = [heard EXCEPT ![n] = new]
  BY <1>5, Zenon DEF Hear
<1>7. heard' = [x \in Node |-> heard'[x]] /\ heard'[n] = new /\ \A x \in Node : x # n => heard'[x] = heard[x]
  BY <1>6 DEF DemoState, Maps
<1>8. DOMAIN new = DOMAIN old \cup {k} /\ new[k] = v /\ \A x \in DOMAIN old : x # k => new[x] = old[x]
  BY <1>5 DEF With
<1>9. /\ n = 2 => k = Main
      /\ n = 3 /\ at[3] = 1 => k = Verify
      /\ n = 3 /\ at[3] = 2 => k = Check
  BY <1>4, <1>5, CounterOps, SummarizerOps DEF DemoState, Await
<1>10. /\ k = Main => v = Null \/ damaged' \/ v = job.main
       /\ k = Verify => v = Null \/ ((damaged' \/ v = Sum(job.main)) /\ at[2] = 4)
       /\ k = Check => v = Null \/ ((damaged' \/ v = Sum(job.main)) /\ at[1] = 3)
  <2>1. /\ Main \notin DOMAIN local[2] /\ Verify \notin DOMAIN local[1] /\ Check \notin DOMAIN local[2]
        /\ DOMAIN local[3] = {}
    BY KeysDiffer DEF DemoState, Stored
  <2>2. \/ v = Null
        \/ k \in DOMAIN local[1] /\ (damaged' \/ v = local[1][k])
        \/ k \in DOMAIN local[2] /\ (damaged' \/ v = local[2][k])
    BY <1>5, <2>1
  <2> QED
    BY <2>1, <2>2 DEF DemoState, Stored
<1>11. Places'
  BY <1>2, <1>3, <1>4 DEF DemoState, Places
<1>12. Maps'
  <2>1. ASSUME NEW m \in Node, pc'[m] = "asked"
        PROVE  Op(m)' = Op(m) /\ Op(m).key \in DOMAIN known[m]
    BY <1>2, <1>3, <2>1, OpKept DEF DemoState, Maps
  <2> QED
    BY <1>7, <2>1 DEF DemoState, Maps
<1>13. Stored'
  BY <1>3, <1>4 DEF DemoState, Stored
<1>14. Heard'
  <2>1. /\ at[2] >= 2 => Main \in DOMAIN heard[2]
        /\ at[3] >= 2 => Verify \in DOMAIN heard[3]
        /\ at[3] >= 3 => Check \in DOMAIN heard[3]
        /\ Main \in DOMAIN heard[2] /\ heard[2][Main] # Null => (damaged \/ heard[2][Main] = job.main)
        /\ Verify \in DOMAIN heard[3] /\ heard[3][Verify] # Null =>
             (damaged \/ heard[3][Verify] = Sum(job.main)) /\ at[2] = 4
        /\ Check \in DOMAIN heard[3] /\ heard[3][Check] # Null =>
             (damaged \/ heard[3][Check] = Sum(job.main)) /\ at[1] = 3
    BY DEF DemoState, Heard
  <2>2. at'[2] >= 2 => Main \in DOMAIN heard'[2]
    BY <1>3, <1>4, <1>5, <1>7, <1>8, <1>9, <2>1
  <2>3. at'[3] >= 2 => Verify \in DOMAIN heard'[3]
    BY <1>3, <1>4, <1>5, <1>7, <1>8, <1>9, <2>1
  <2>4. at'[3] >= 3 => Check \in DOMAIN heard'[3]
    BY <1>3, <1>4, <1>5, <1>7, <1>8, <1>9, <2>1
  <2>5. at'[1] = at[1] /\ (at[2] = 4 => at'[2] = 4)
    BY <1>3, <1>4
  <2>6. Main \in DOMAIN heard'[2] /\ heard'[2][Main] # Null => (damaged' \/ heard'[2][Main] = job.main)
    BY <1>4, <1>5, <1>7, <1>8, <1>9, <1>10, <2>1, KeysDiffer
  <2>7. Verify \in DOMAIN heard'[3] /\ heard'[3][Verify] # Null =>
          (damaged' \/ heard'[3][Verify] = Sum(job.main)) /\ at'[2] = 4
    BY <1>4, <1>5, <1>7, <1>8, <1>9, <1>10, <2>1, <2>5, KeysDiffer
  <2>8. Check \in DOMAIN heard'[3] /\ heard'[3][Check] # Null =>
          (damaged' \/ heard'[3][Check] = Sum(job.main)) /\ at'[1] = 3
    BY <1>4, <1>5, <1>7, <1>8, <1>9, <1>10, <2>1, <2>5, KeysDiffer
  <2> QED
    BY <2>2, <2>3, <2>4, <2>6, <2>7, <2>8 DEF Heard
<1>15. Usable'
  <2>1. pc'[2] = "insert" => ~Unusable(2)'
    <3>1. pc'[2] = "insert" => n # 2 /\ pc[2] = "insert"
      BY <1>2
    <3> QED
      BY <1>7, <3>1, UnusableKept DEF DemoState, Usable
  <2>2. at'[3] >= 4 => at[3] >= 4 /\ n # 3
    BY <1>3, <1>4
  <2>3. at'[3] >= 4 => ~Unusable(3)'
    BY <1>7, <2>2, UnusableKept DEF DemoState, Usable
  <2>4. torn => at'[3] = 5
    BY <1>3, <1>4 DEF DemoState, Usable
  <2> QED
    BY <2>1, <2>3, <2>4 DEF Usable
<1> QED
  BY <1>11, <1>12, <1>13, <1>14, <1>15 DEF DemoState


----------------------------------------------------------------------------

(* The invariant holds at first.                                            *)
LEMMA DemoInit == Init /\ job.app = "demo" => DemoState
<1> SUFFICES ASSUME Init, job.app = "demo"
             PROVE  DemoState
  OBVIOUS
<1> USE NodeSpelled
<1>1. \A n \in Node : at[n] = 0 /\ pc[n] = "ready" /\ local[n] = <<>> /\ known[n] = <<>> /\ heard[n] = <<>>
  BY DEF Init
<1>2. Places
  BY <1>1 DEF Init, Places, Pc
<1>3. DOMAIN <<>> = {}
  OBVIOUS
<1>4. Maps
  BY <1>1, <1>3 DEF Init, Maps
<1>5. Stored
  BY <1>1, <1>3 DEF Stored
<1>6. Heard
  BY <1>1, <1>3 DEF Heard
<1>7. Usable
  BY <1>1 DEF Init, Usable
<1> QED
  BY <1>2, <1>4, <1>5, <1>6, <1>7 DEF DemoState

(* Every step of Demo keeps it.                                             *)
LEMMA DemoStep == DemoState /\ [Next]_vars => DemoState'
<1> SUFFICES ASSUME DemoState, [Next]_vars
             PROVE  DemoState'
  OBVIOUS
<1>1. ASSUME NEW n \in Node, StartListening(n) \/ PrintResult(n) \/ RequestTeardown(n)
      PROVE  DemoState'
  <2>1. at' = [at EXCEPT ![n] = @ + 1] /\ UNCHANGED <<job, pc, local, known, heard, damaged>>
    BY <1>1 DEF StartListening, PrintResult, RequestTeardown, Advance
  <2>2. \/ Doing(n, "listen") /\ torn' = torn
        \/ Doing(n, "show") /\ ~Unusable(n) /\ torn' = torn
        \/ Doing(n, "teardown")
    BY <1>1, Zenon DEF StartListening, PrintResult, RequestTeardown
  <2> QED
    BY <2>1, <2>2, CallStep
<1>2. ASSUME NEW n \in Node, NEW q \in Pc, pc' = [pc EXCEPT ![n] = q],
             UNCHANGED <<job, at, local, known, heard, torn>>, damaged => damaged',
             q \notin {"insert", "asked"}
      PROVE  DemoState'
  BY <1>2, PcStep
<1>3. ASSUME NEW n \in Node, SetCheck(n)
      PROVE  DemoState'
  <2>1. PICK q : q = IF Op(n).key \in DOMAIN known[n] THEN "aborted" ELSE "insert"
    OBVIOUS
  <2>2. q \in Pc /\ q # "asked"
    BY <2>1 DEF Pc
  <2>3. Doing(n, "set") /\ ~Unusable(n) /\ UNCHANGED <<job, at, local, known, heard, torn, damaged>>
    BY <1>3 DEF SetCheck
  <2>4. pc' = [pc EXCEPT ![n] = q]
    BY <1>3, <2>1, Zenon DEF SetCheck
  <2> QED
    BY <2>2, <2>3, <2>4, PcStep
<1>4. ASSUME NEW n \in Node, Lookup(n)
      PROVE  DemoState'
  <2>1. Doing(n, "wait") /\ Op(n).key \in DOMAIN known[n] /\ pc' = [pc EXCEPT ![n] = "asked"]
        /\ UNCHANGED <<job, at, local, known, heard, torn, damaged>>
    BY <1>4, Zenon DEF Lookup
  <2>2. "asked" \in Pc
    BY DEF Pc
  <2> QED
    BY <2>1, <2>2, PcStep
<1>5. ASSUME NEW n \in Node, Fail(n) \/ Hang(n) \/ Dereference(n) \/ Exit(n)
      PROVE  DemoState'
  <2>1. /\ \E q \in {"ready", "hung", "aborted", "exited"} : pc' = [pc EXCEPT ![n] = q]
        /\ UNCHANGED <<job, at, local, known, heard, torn, damaged>>
    BY <1>5 DEF Fail, Hang, Dereference, Exit
  <2> QED
    BY <1>2, <2>1 DEF Pc
<1>6. ASSUME NEW n \in Node, pc[n] = "asked"
       PROVE  Doing(n, "wait")
  <2>1. Alive(n)
    BY <1>6 DEF Alive
  <2>2. (n = 2 /\ at[2] = 1) \/ (n = 3 /\ at[3] \in {1, 2})
    BY <1>6, NodeSpelled DEF DemoState, Places
  <2>3. ~Done(n) /\ Op(n).op = "wait"
    BY <2>2, DemoDone, CounterOps, SummarizerOps DEF DemoState, Await
  <2> QED
    BY <2>1, <2>3 DEF Doing
<1>7. ASSUME NEW n \in Node, Answer(n)
      PROVE  DemoState'
  <2>1. PICK m : m = known[n][Op(n).key]
    OBVIOUS
  <2>2. /\ pc[n] = "asked" /\ Op(n).key \in DOMAIN local[m] /\ Hear(n, local[m][Op(n).key])
        /\ pc' = [pc EXCEPT ![n] = "ready"] /\ UNCHANGED <<job, local, known, torn, damaged>>
    BY <1>7, <2>1, Zenon DEF Answer
  <2>3. m \in Node
    BY <2>1, <2>2 DEF DemoState, Maps
  <2>4. Doing(n, "wait")
    BY <1>6, <2>2
  <2>5. PICK v : v = local[m][Op(n).key]
    OBVIOUS
  <2>6. Hear(n, v)
    BY <2>2, <2>5, Zenon DEF Hear
  <2> QED
    BY <2>2, <2>3, <2>4, <2>5, <2>6, HearStep
<1>8. ASSUME NEW n \in Node, Cut(n)
       PROVE  DemoState'
  <2>1. PICK m : m = known[n][Op(n).key]
    OBVIOUS
  <2>2. /\ pc[n] = "asked" /\ Op(n).key \in DOMAIN local[m] /\ damaged'
        /\ UNCHANGED <<job, local, known, torn>>
    BY <1>8, <2>1 DEF Cut
  <2>3. m \in Node
    BY <2>1, <2>2 DEF DemoState, Maps
  <2>4. CASE (\E v : Hear(n, v)) /\ pc' = [pc EXCEPT ![n] = "ready"]
    BY <1>6, <2>2, <2>3, <2>4, HearStep
  <2>5. CASE (\E q \in {"aborted", "hung"} : pc' = [pc EXCEPT ![n] = q]) /\ UNCHANGED <<at, heard>>
    BY <1>2, <2>2, <2>5 DEF Pc
  <2> QED
    BY <1>8, <2>4, <2>5 DEF Cut
<1>9. ASSUME NEW n \in Node, TimeOut(n)
      PROVE  DemoState'
  <2>1. Doing(n, "wait") /\ pc[n] = "ready" /\ Hear(n, Null) /\ UNCHANGED <<job, pc, local, known, torn, damaged>>
    BY <1>9, Zenon DEF TimeOut
  <2>2. pc' = [pc EXCEPT ![n] = "ready"]
    BY <2>1 DEF DemoState, Places
  <2> QED
    BY <2>1, <2>2, HearStep
<1>10. ASSUME UNCHANGED <<job, at, pc, local, known, heard, torn, damaged>>
      PROVE  DemoState'
  <2>1. Op(1)' = Op(1) /\ Op(2)' = Op(2) /\ Op(3)' = Op(3)
    BY <1>10, OpKept, NodeSpelled
  <2>2. Unusable(2)' = Unusable(2) /\ Unusable(3)' = Unusable(3)
    BY <1>10 DEF Unusable
  <2>3. Places' /\ Stored' /\ Heard'
    BY <1>10 DEF DemoState, Places, Stored, Heard
  <2>4. Maps'
    BY <1>10, <2>1, NodeSpelled DEF DemoState, Maps
  <2>5. Usable'
    BY <1>10, <2>2 DEF DemoState, Usable
  <2> QED
    BY <1>10, <2>3, <2>4, <2>5 DEF DemoState
<1>11. ASSUME NEW n \in Node, LoopEnds(n)
      PROVE  DemoState'
  BY <1>10, <1>11 DEF LoopEnds
<1>12. UNCHANGED vars => UNCHANGED <<job, at, pc, local, known, heard, torn, damaged>>
  BY DEF vars
<1> QED
  BY <1>1, <1>3, <1>4, <1>5, <1>7, <1>9, <1>10, <1>11, <1>12, <1>8, SetInsertStep, AnnounceStep DEF Next, App

(* The application does not change, and a frame that was cut stays cut.    *)
LEMMA JobKept == [Next]_vars => job' = job /\ (damaged => damaged')
<1> SUFFICES ASSUME [Next]_vars
             PROVE  job' = job /\ (damaged => damaged')
  OBVIOUS
<1>1. ASSUME NEW n \in Node, App(n)
      PROVE  UNCHANGED <<job, damaged>>
  BY <1>1 DEF App, StartListening, SetCheck, SetInsert, Lookup, Dereference, PrintResult, RequestTeardown
<1>2. ASSUME NEW n \in Node, Answer(n) \/ Fail(n) \/ Hang(n) \/ TimeOut(n) \/ LoopEnds(n) \/ Exit(n)
      PROVE  UNCHANGED <<job, damaged>>
  BY <1>2 DEF Answer, Fail, Hang, TimeOut, LoopEnds, Exit
<1>3. ASSUME NEW n \in Node, Cut(n)
      PROVE  job' = job /\ damaged'
  BY <1>3 DEF Cut
<1>4. ASSUME NEW m \in Node, NEW n \in Node, Announce(m, n)
      PROVE  UNCHANGED <<job, damaged>>
  BY <1>4 DEF Announce
<1> QED
  BY <1>1, <1>2, <1>3, <1>4 DEF Next, vars

(* The invariant holds whenever the application is Demo.                    *)
LEMMA DemoInvariant == Spec => [](job.app = "demo" => DemoState)
<1>1. Init => (job.app = "demo" => DemoState)
  BY DemoInit
<1>2. (job.app = "demo" => DemoState) /\ [Next]_vars => (job.app = "demo" => DemoState)'
  BY DemoStep, JobKept
<1> QED
  BY <1>1, <1>2, PTL DEF Spec

(* When the summarizer has the network torn down nobody in Demo waits, or  *)
(* has yet to set a key (demo.cpp:84).                                     *)
THEOREM DemoAlwaysTornDownLast == Spec => []DemoTornDownLast
<1>1. (job.app = "demo" => DemoState) => DemoTornDownLast
  <2> SUFFICES ASSUME DemoState, torn
               PROVE  \A n \in Node : Done(n)
    BY DEF DemoTornDownLast
  <2>1. at[3] = 5 /\ ~Unusable(3)
    BY DEF DemoState, Usable
  <2>2. /\ Verify \in DOMAIN heard[3] /\ heard[3][Verify] # Null
        /\ Check \in DOMAIN heard[3] /\ heard[3][Check] # Null
    BY <2>1 DEF DemoState, Heard, Unusable
  <2>3. at[1] = 3 /\ at[2] = 4
    BY <2>2 DEF DemoState, Heard
  <2> QED
    BY <2>1, <2>3, DemoDone, NodeSpelled DEF DemoState
<1> QED
  BY <1>1, DemoInvariant, PTL

(* What the summarizer prints as expected and as actual is the same, and   *)
(* is the sum of the main frame, unless a part of a frame was lost.        *)
THEOREM SummaryAlwaysRight == Spec => []SummaryRight
<1>1. (job.app = "demo" => DemoState) => SummaryRight
  <2> SUFFICES ASSUME DemoState, Shown(3), ~damaged
               PROVE  heard[3][Check] = heard[3][Verify] /\ heard[3][Check] = Sum(job.main)
    BY DEF SummaryRight, Check, Verify
  <2>1. at[3] >= 4
    <3>1. PICK i \in 1..at[3] : DemoSummarizer[i].op = "show"
      BY DemoScripts DEF Shown, DemoState
    <3>2. at[3] \in {0, 1, 2, 3, 4, 5}
      BY NodeSpelled DEF DemoState, Places
    <3>3. i \notin {1, 2, 3}
      BY <3>1 DEF DemoSummarizer, Listen, Await
    <3> QED
      BY <3>2, <3>3
  <2>2. /\ Verify \in DOMAIN heard[3] /\ heard[3][Verify] # Null
        /\ Check \in DOMAIN heard[3] /\ heard[3][Check] # Null
    <3>1. at[3] \in Nat
      BY NodeSpelled DEF DemoState, Places
    <3>2. at[3] >= 2 /\ at[3] >= 3
      BY <2>1, <3>1
    <3>3. ~Unusable(3)
      BY <2>1 DEF DemoState, Usable
    <3>4. Verify \in DOMAIN heard[3] /\ Check \in DOMAIN heard[3]
      BY <3>2 DEF DemoState, Heard
    <3> QED
      BY <3>3, <3>4 DEF Unusable
  <2>3. heard[3][Verify] = Sum(job.main) /\ heard[3][Check] = Sum(job.main)
    BY <2>2 DEF DemoState, Heard
  <2> QED
    BY <2>3
<1> QED
  BY <1>1, DemoInvariant, PTL

----------------------------------------------------------------------------
(* Linus: degrees of joint projects. *)

(* Who is found by the filters from some people are those with a joint     *)
(* project.                                                                *)
LEMMA FoundByFilters ==
  ASSUME NEW ids, NEW b
  PROVE  b \in UsersOf(ProjectsOf(ids, job.commits), job.commits) <=> \E a \in ids : Joint(a, b)
<1>1. PICK commits : commits = ToSet(job.commits)
  OBVIOUS
<1>2. ASSUME b \in UsersOf(ProjectsOf(ids, job.commits), job.commits)
      PROVE  \E a \in ids : Joint(a, b)
  <2>1. PICK c2 \in commits : b \in {c2.author, c2.committer} /\ c2.pid \in ProjectsOf(ids, job.commits)
    BY <1>1, <1>2 DEF UsersOf
  <2>2. PICK c1 \in commits : {c1.author, c1.committer} \cap ids # {} /\ c1.pid = c2.pid
    BY <1>1, <2>1 DEF ProjectsOf
  <2>3. PICK a \in ids : a \in {c1.author, c1.committer}
    BY <2>2
  <2> QED
    BY <1>1, <2>1, <2>2, <2>3 DEF Joint
<1>3. ASSUME NEW a \in ids, Joint(a, b)
      PROVE  b \in UsersOf(ProjectsOf(ids, job.commits), job.commits)
  <2>1. PICK c1 \in commits, c2 \in commits :
          c1.pid = c2.pid /\ a \in {c1.author, c1.committer} /\ b \in {c2.author, c2.committer}
    BY <1>1, <1>3 DEF Joint
  <2>2. c1.pid \in ProjectsOf(ids, job.commits)
    BY <1>1, <2>1 DEF ProjectsOf
  <2> QED
    BY <1>1, <2>1, <2>2 DEF UsersOf
<1> QED
  BY <1>2, <1>3

(* Who has a joint project with somebody is one of the people. *)
LEMMA JointPeople ==
  ASSUME NEW a, NEW b, Joint(a, b)
  PROVE  a \in People /\ b \in People
  BY DEF Joint, People

(* One step from Linus. *)
LEMMA WithinOne ==
  ASSUME NEW linus, NEW b
  PROVE  Within(1, linus, b) <=> Joint(linus, b)
<1>1. ASSUME Within(1, linus, b)
      PROVE  Joint(linus, b)
  <2>1. PICK path \in [0..1 -> People] : path[0] = linus /\ path[1] = b /\ \A i \in 1..1 : Joint(path[i - 1], path[i])
    BY <1>1 DEF Within
  <2>2. Joint(path[1 - 1], path[1])
    BY <2>1
  <2> QED
    BY <2>1, <2>2
<1>2. ASSUME Joint(linus, b)
      PROVE  Within(1, linus, b)
  <2>1. PICK path : path = [i \in 0..1 |-> IF i = 0 THEN linus ELSE b]
    OBVIOUS
  <2>2. path \in [0..1 -> People] /\ path[0] = linus /\ path[1] = b
    BY <1>2, <2>1, JointPeople
  <2>3. \A i \in 1..1 : Joint(path[i - 1], path[i])
    BY <1>2, <2>2
  <2> QED
    BY <2>2, <2>3 DEF Within
<1> QED
  BY <1>1, <1>2

(* One step more. *)
LEMMA WithinNext ==
  ASSUME NEW d \in Nat, NEW linus, NEW b
  PROVE  Within(d + 1, linus, b) <=> \E a : Within(d, linus, a) /\ Joint(a, b)
<1>1. ASSUME Within(d + 1, linus, b)
      PROVE  \E a : Within(d, linus, a) /\ Joint(a, b)
  <2>1. PICK path \in [0..(d + 1) -> People] :
          path[0] = linus /\ path[d + 1] = b /\ \A i \in 1..(d + 1) : Joint(path[i - 1], path[i])
    BY <1>1 DEF Within
  <2>2. PICK short : short = [i \in 0..d |-> path[i]]
    OBVIOUS
  <2>3. short \in [0..d -> People] /\ short[0] = linus /\ short[d] = path[d]
    BY <2>1, <2>2
  <2>4. ASSUME NEW i \in 1..d
        PROVE  Joint(short[i - 1], short[i])
    <3>1. i \in 1..(d + 1) /\ i \in 0..d /\ i - 1 \in 0..d
      OBVIOUS
    <3> QED
      BY <2>1, <2>2, <3>1
  <2>5. Joint(path[(d + 1) - 1], path[d + 1]) /\ (d + 1) - 1 = d
    BY <2>1
  <2> QED
    BY <2>1, <2>3, <2>4, <2>5 DEF Within
<1>2. ASSUME NEW a, Within(d, linus, a), Joint(a, b)
      PROVE  Within(d + 1, linus, b)
  <2>1. PICK path \in [0..d -> People] :
          path[0] = linus /\ path[d] = a /\ \A i \in 1..d : Joint(path[i - 1], path[i])
    BY <1>2 DEF Within
  <2>2. PICK long : long = [i \in 0..(d + 1) |-> IF i = d + 1 THEN b ELSE path[i]]
    OBVIOUS
  <2>3. long[0] = linus /\ long[d + 1] = b /\ \A i \in 0..d : long[i] = path[i]
    BY <2>1, <2>2
  <2>4. long \in [0..(d + 1) -> People]
    <3>1. b \in People
      BY <1>2, JointPeople
    <3>2. ASSUME NEW i \in 0..(d + 1), i # d + 1
          PROVE  path[i] \in People
      BY <2>1, <3>2
    <3> QED
      BY <2>2, <3>1, <3>2
  <2>5. ASSUME NEW i \in 1..(d + 1)
        PROVE  Joint(long[i - 1], long[i])
    <3>1. CASE i = d + 1
      <4>1. i - 1 = d /\ d \in 0..d
        BY <3>1
      <4> QED
        BY <1>2, <2>1, <2>3, <3>1, <4>1
    <3>2. CASE i # d + 1
      <4>1. i \in 1..d /\ i \in 0..d /\ i - 1 \in 0..d
        BY <3>2
      <4> QED
        BY <2>1, <2>3, <4>1
    <3> QED
      BY <3>1, <3>2
  <2> QED
    BY <2>3, <2>4, <2>5 DEF Within
<1> QED
  BY <1>1, <1>2

----------------------------------------------------------------------------
(* Linus: the calls of the scripts. *)

(* f is its parts one behind the other, part d beginning behind m * (d - 1).*)
Blocks(f, parts, m, k) ==
  /\ \A d \in 1..k : \A j \in 1..Len(parts[d]) :
       m * (d - 1) + j \in 1..Len(f) /\ f[m * (d - 1) + j] = parts[d][j]
  /\ \A p \in 1..Len(f) : \E d \in 1..k : \E j \in 1..Len(parts[d]) : p = m * (d - 1) + j

(* c has the elements of f, then those of g. *)
Joined(S, f, g, c) ==
  /\ c \in Seq(S) /\ Len(c) = Len(f) + Len(g)
  /\ \A p \in 1..Len(f) : p \in 1..Len(c) /\ c[p] = f[p]
  /\ \A j \in 1..Len(g) : Len(f) + j \in 1..Len(c) /\ c[Len(f) + j] = g[j]
  /\ \A p \in 1..Len(c) : p \in 1..Len(f) \/ \E j \in 1..Len(g) : p = Len(f) + j

(* Where the elements of a concatenation are.                              *)
LEMMA ConcatPlaces ==
  ASSUME NEW S, NEW f \in Seq(S), NEW g \in Seq(S), NEW c, c = f \o g
  PROVE  Joined(S, f, g, c)
<1>1. PICK m \in Nat, n \in Nat : m = Len(f) /\ n = Len(g)
  BY LenProperties
<1>2. /\ c \in Seq(S) /\ Len(c) = m + n
      /\ \A p \in 1..m : c[p] = f[p]
      /\ \A j \in 1..n : c[m + j] = g[j]
  BY <1>1
<1>3. \A p \in 1..(m + n) : p \in 1..m \/ \E j \in 1..n : p = m + j
  <2>1. ASSUME NEW p \in 1..(m + n), p \notin 1..m
        PROVE  p - m \in 1..n /\ p = m + (p - m)
    BY <2>1
  <2> QED
    BY <2>1
<1> QED
  BY <1>1, <1>2, <1>3 DEF Joined

(* Flatten is FlattenSeq. *)
LEMMA FlattenSums ==
  ASSUME NEW S, NEW parts \in Seq(Seq(S)), NEW n, n = Len(parts)
  PROVE  \E h : Sums(h, parts, n) /\ FlattenSeq(parts) = h[n]
<1>1. FlattenSeq(parts) = Flatten(parts)
  BY DEF FlattenSeq, Flatten
<1> QED
  BY <1>1, FlattenUnfolds

(* The places in a concatenation of parts of one length, but for the last. *)
LEMMA FlattenBlocks ==
  ASSUME NEW S, NEW parts \in Seq(Seq(S)), NEW n, n = Len(parts), NEW m \in Nat,
         \A d \in 1..n : d < n => Len(parts[d]) = m
  PROVE  FlattenSeq(parts) \in Seq(S) /\ Blocks(FlattenSeq(parts), parts, m, n)
<1>1. n \in Nat /\ \A d \in 1..n : parts[d] \in Seq(S)
  OBVIOUS
<1>2. PICK h : Sums(h, parts, n) /\ FlattenSeq(parts) = h[n]
  BY FlattenSums
<1>3. \A k \in 0..n : h[k] \in Seq(S)
  BY <1>1, <1>2, SumsAreSequences
<1> DEFINE T == {k \in Nat : k <= n => Blocks(h[k], parts, m, k) /\ (k < n => Len(h[k]) = m * k)}
<1>4. 0 \in T
  <2>1. h[0] = <<>>
    BY <1>2 DEF Sums, Nothing
  <2>2. Len(h[0]) = 0
    BY <2>1
  <2>3. Blocks(h[0], parts, m, 0)
    BY <2>2 DEF Blocks
  <2> QED
    BY <2>2, <2>3
<1>5. ASSUME NEW k \in Nat, k \in T
      PROVE  k + 1 \in T
  <2> SUFFICES ASSUME k + 1 <= n
               PROVE  Blocks(h[k + 1], parts, m, k + 1) /\ (k + 1 < n => Len(h[k + 1]) = m * (k + 1))
    OBVIOUS
  <2>1. k < n /\ k <= n /\ k \in 0..n /\ k + 1 \in 0..n /\ k + 1 \in 1..n
    BY <1>1
  <2>2. Blocks(h[k], parts, m, k) /\ Len(h[k]) = m * k
    BY <1>5, <2>1
  <2>3. PICK f, g, c : f = h[k] /\ g = parts[k + 1] /\ c = h[k + 1]
    OBVIOUS
  <2>4. f \in Seq(S) /\ g \in Seq(S) /\ c = f \o g
    <3>1. h[k + 1] = h[(k + 1) - 1] \o parts[k + 1]
      BY <1>2, <2>1 DEF Sums
    <3>2. (k + 1) - 1 = k
      OBVIOUS
    <3> QED
      BY <1>1, <1>3, <2>1, <2>3, <3>1, <3>2
  <2>5. /\ c \in Seq(S) /\ Len(c) = Len(f) + Len(g)
        /\ \A p \in 1..Len(f) : p \in 1..Len(c) /\ c[p] = f[p]
        /\ \A j \in 1..Len(g) : Len(f) + j \in 1..Len(c) /\ c[Len(f) + j] = g[j]
        /\ \A p \in 1..Len(c) : p \in 1..Len(f) \/ \E j \in 1..Len(g) : p = Len(f) + j
    <3>1. Joined(S, f, g, c)
      BY <2>4, ConcatPlaces
    <3> QED
      BY <3>1 DEF Joined
  <2>6. m * ((k + 1) - 1) = Len(f)
    BY <2>2, <2>3
  <2>7. ASSUME NEW d \in 1..(k + 1), NEW j \in 1..Len(parts[d])
        PROVE  m * (d - 1) + j \in 1..Len(c) /\ c[m * (d - 1) + j] = parts[d][j]
    <3>1. CASE d = k + 1
      BY <2>3, <2>5, <2>6, <3>1
    <3>2. CASE d # k + 1
      <4>1. d \in 1..k
        BY <3>2
      <4>2. m * (d - 1) + j \in 1..Len(f) /\ f[m * (d - 1) + j] = parts[d][j]
        BY <2>2, <2>3, <4>1 DEF Blocks
      <4> QED
        BY <2>5, <4>2
    <3> QED
      BY <3>1, <3>2
  <2>8. ASSUME NEW p \in 1..Len(c)
        PROVE  \E d \in 1..(k + 1) : \E j \in 1..Len(parts[d]) : p = m * (d - 1) + j
    <3>1. CASE p \in 1..Len(f)
      <4>1. PICK d \in 1..k : \E j \in 1..Len(parts[d]) : p = m * (d - 1) + j
        BY <2>2, <2>3, <3>1 DEF Blocks
      <4>2. d \in 1..(k + 1)
        OBVIOUS
      <4> QED
        BY <4>1, <4>2
    <3>2. CASE \E j \in 1..Len(g) : p = Len(f) + j
      <4>1. k + 1 \in 1..(k + 1)
        OBVIOUS
      <4> QED
        BY <2>3, <2>6, <3>2, <4>1
    <3> QED
      BY <2>5, <3>1, <3>2
  <2>9. k + 1 < n => Len(c) = m * (k + 1)
    <3>1. k + 1 < n => Len(g) = m
      BY <2>1, <2>3
    <3>2. m * (k + 1) = m * k + m
      OBVIOUS
    <3> QED
      BY <2>2, <2>3, <2>5, <3>1, <3>2
  <2> QED
    BY <2>3, <2>7, <2>8, <2>9 DEF Blocks
<1>6. \A k \in Nat : k \in T
  <2> HIDE DEF T
  <2> QED
    BY <1>4, <1>5, NatInductive
<1>7. Blocks(h[n], parts, m, n)
  BY <1>1, <1>6
<1>8. h[n] \in Seq(S)
  BY <1>1, <1>3
<1> QED
  BY <1>2, <1>7, <1>8

(* The calls of the applications' scripts. *)
Names == {"main", "check", "verify", "wc_df", "users", "commits", "projects", "linus_uuid",
          "linus_projects", "uuids_degree_", "projects_degree_", "degree"}
Keys == Names \X Nat
Calls == {Put(k) : k \in Keys} \cup {Await(k) : k \in Keys} \cup {Show, Listen, Teardown}

(* Call c comes before the i-th. *)
Earlier(s, i, c) == \E j \in 1..(i - 1) : s[j] = c

(* The calls for a degree, and those before the first.                     *)
CommitsPart(d) ==
  <<Put(<<"uuids_degree_", d>>)>> \o IF d = Degrees THEN <<>> ELSE <<Put(<<"projects_degree_", d>>)>>
CommitsStart == <<Put(Key("commits")), Listen, Await(Key("linus_uuid")), Put(Key("linus_projects"))>>

(* What the calls for a degree are, for the node of the commits. *)
LEMMA CommitsParts ==
  ASSUME NEW d \in 1..Degrees
  PROVE  /\ CommitsPart(d) \in Seq(Calls)
         /\ (d = Degrees => Len(CommitsPart(d)) = 1) /\ (d # Degrees => Len(CommitsPart(d)) = 2)
         /\ CommitsPart(d)[1] = Put(<<"uuids_degree_", d>>)
         /\ d # Degrees => CommitsPart(d)[2] = Put(<<"projects_degree_", d>>)
<1>1. PICK a, b : a = Put(<<"uuids_degree_", d>>) /\ b = Put(<<"projects_degree_", d>>)
  OBVIOUS
<1>2. a \in Calls /\ b \in Calls
  <2>1. d \in Nat
    BY PipelineAssumption
  <2>2. <<"uuids_degree_", d>> \in Keys /\ <<"projects_degree_", d>> \in Keys
    BY <2>1 DEF Keys, Names
  <2> QED
    BY <1>1, <2>2 DEF Calls
<1>3. CASE d = Degrees
  <2>1. CommitsPart(d) = <<a>> \o <<>>
    BY <1>1, <1>3 DEF CommitsPart
  <2>2. CommitsPart(d) = <<a>>
    BY <1>2, <2>1
  <2> QED
    BY <1>1, <1>2, <1>3, <2>2
<1>4. CASE d # Degrees
  <2>1. PICK x, y, p : x = <<a>> /\ y = <<b>> /\ p = CommitsPart(d)
    OBVIOUS
  <2>2. p = x \o y
    BY <1>1, <1>4, <2>1 DEF CommitsPart
  <2>3. x \in Seq(Calls) /\ Len(x) = 1 /\ x[1] = a /\ y \in Seq(Calls) /\ Len(y) = 1 /\ y[1] = b
    BY <1>2, <2>1
  <2>4. Joined(Calls, x, y, p)
    BY <2>2, <2>3, ConcatPlaces
  <2>5. p \in Seq(Calls) /\ Len(p) = 2
    BY <2>3, <2>4 DEF Joined
  <2>6. p[1] = a
    <3>1. 1 \in 1..Len(x)
      BY <2>3
    <3> QED
      BY <2>3, <2>4, <3>1 DEF Joined
  <2>7. p[2] = b
    <3>1. 1 \in 1..Len(y) /\ Len(x) + 1 = 2
      BY <2>3
    <3>2. p[Len(x) + 1] = y[1]
      BY <2>4, <3>1 DEF Joined
    <3> QED
      BY <2>3, <3>1, <3>2
  <2> QED
    BY <1>1, <1>4, <2>1, <2>5, <2>6, <2>7
<1> QED
  BY <1>3, <1>4

(* Where the calls of the node of the commits are. *)
LEMMA CommitsPlaces ==
  /\ LinusCommits \in Seq(Calls) /\ Len(LinusCommits) >= 4
  /\ LinusCommits[1] = Put(Key("commits")) /\ LinusCommits[2] = Listen
  /\ LinusCommits[3] = Await(Key("linus_uuid")) /\ LinusCommits[4] = Put(Key("linus_projects"))
  /\ \A d \in 1..Degrees :
       /\ 3 + 2 * d \in 1..Len(LinusCommits) /\ LinusCommits[3 + 2 * d] = Put(<<"uuids_degree_", d>>)
       /\ d # Degrees => 4 + 2 * d \in 1..Len(LinusCommits) /\ LinusCommits[4 + 2 * d] = Put(<<"projects_degree_", d>>)
  /\ \A i \in 1..Len(LinusCommits) : i > 4 =>
       \E d \in 1..Degrees : i = 3 + 2 * d \/ (i = 4 + 2 * d /\ d # Degrees)
<1>1. PICK parts : parts = [d \in 1..Degrees |-> CommitsPart(d)]
  OBVIOUS
<1>2. PICK start, rest, s : start = CommitsStart /\ rest = FlattenSeq(parts) /\ s = start \o rest
  OBVIOUS
<1>3. LinusCommits = s
  BY <1>1, <1>2 DEF LinusCommits, CommitsPart, CommitsStart
<1>4. Degrees \in Nat /\ \A d \in 1..Degrees : parts[d] = CommitsPart(d)
  BY <1>1, PipelineAssumption
<1>5. parts \in Seq(Seq(Calls)) /\ Len(parts) = Degrees
  <2>1. parts \in [1..Degrees -> Seq(Calls)]
    BY <1>1, CommitsParts
  <2> QED
    BY <1>4, <2>1
<1>6. \A d \in 1..Degrees : d < Degrees => Len(parts[d]) = 2
  <2>1. ASSUME NEW d \in 1..Degrees, d < Degrees
        PROVE  Len(parts[d]) = 2
    <3>1. parts[d] = CommitsPart(d) /\ d # Degrees
      BY <1>4, <2>1
    <3> QED
      BY <3>1, CommitsParts
  <2> QED
    BY <2>1
<1>7. rest \in Seq(Calls) /\ Blocks(rest, parts, 2, Degrees)
  <2>1. 2 \in Nat
    OBVIOUS
  <2> QED
    BY <1>2, <1>5, <1>6, <2>1, FlattenBlocks
<1>8. /\ start \in Seq(Calls) /\ Len(start) = 4
      /\ start[1] = Put(Key("commits")) /\ start[2] = Listen
      /\ start[3] = Await(Key("linus_uuid")) /\ start[4] = Put(Key("linus_projects"))
  <2>1. PICK a, b, c, e : /\ a = Put(Key("commits")) /\ b = Listen
                          /\ c = Await(Key("linus_uuid")) /\ e = Put(Key("linus_projects"))
    OBVIOUS
  <2>2. Key("commits") \in Keys /\ Key("linus_uuid") \in Keys /\ Key("linus_projects") \in Keys
    BY DEF Key, Keys, Names
  <2>3. a \in Calls /\ b \in Calls /\ c \in Calls /\ e \in Calls
    BY <2>1, <2>2 DEF Calls
  <2>4. start = <<a, b, c, e>>
    BY <1>2, <2>1 DEF CommitsStart
  <2> QED
    BY <2>1, <2>3, <2>4
<1>9. Joined(Calls, start, rest, s)
  BY <1>2, <1>7, <1>8, ConcatPlaces
<1>10. PICK n \in Nat : n = Len(rest)
  BY <1>7, LenProperties
<1>11. /\ s \in Seq(Calls) /\ Len(s) = 4 + n
       /\ s[1] = start[1] /\ s[2] = start[2] /\ s[3] = start[3] /\ s[4] = start[4]
       /\ \A j \in 1..n : 4 + j \in 1..Len(s) /\ s[4 + j] = rest[j]
       /\ \A i \in 1..Len(s) : i > 4 => \E j \in 1..n : i = 4 + j
  BY <1>8, <1>9, <1>10 DEF Joined
<1>12. ASSUME NEW d \in 1..Degrees
       PROVE  /\ 3 + 2 * d \in 1..Len(s) /\ s[3 + 2 * d] = Put(<<"uuids_degree_", d>>)
              /\ d # Degrees => 4 + 2 * d \in 1..Len(s) /\ s[4 + 2 * d] = Put(<<"projects_degree_", d>>)
  <2>1. PICK p : p = CommitsPart(d)
    OBVIOUS
  <2>2. (d = Degrees => Len(p) = 1) /\ (d # Degrees => Len(p) = 2) /\ p[1] = Put(<<"uuids_degree_", d>>)
        /\ (d # Degrees => p[2] = Put(<<"projects_degree_", d>>))
    BY <2>1, CommitsParts
  <2>3. \A j \in 1..Len(p) : 2 * (d - 1) + j \in 1..n /\ rest[2 * (d - 1) + j] = p[j]
    <3>1. p = parts[d]
      BY <1>4, <2>1
    <3> QED
      BY <1>7, <1>10, <3>1 DEF Blocks
  <2>4. 2 * (d - 1) + 1 \in 1..n /\ rest[2 * (d - 1) + 1] = p[1]
    BY <2>2, <2>3
  <2>5. d # Degrees => 2 * (d - 1) + 2 \in 1..n /\ rest[2 * (d - 1) + 2] = p[2]
    <3>1. d # Degrees => 2 \in 1..Len(p)
      BY <2>2
    <3> QED
      BY <2>3, <3>1
  <2>6. 4 + (2 * (d - 1) + 1) = 3 + 2 * d /\ 4 + (2 * (d - 1) + 2) = 4 + 2 * d
    OBVIOUS
  <2> QED
    BY <1>11, <2>2, <2>4, <2>5, <2>6
<1>13. ASSUME NEW i \in 1..Len(s), i > 4
       PROVE  \E d \in 1..Degrees : i = 3 + 2 * d \/ (i = 4 + 2 * d /\ d # Degrees)
  <2>1. PICK p \in 1..n : i = 4 + p
    BY <1>11, <1>13
  <2>2. PICK d \in 1..Degrees : \E j \in 1..Len(parts[d]) : p = 2 * (d - 1) + j
    BY <1>7, <1>10 DEF Blocks
  <2>3. PICK j \in 1..Len(parts[d]) : p = 2 * (d - 1) + j
    BY <2>2
  <2>4. j \in {1, 2} /\ (j = 2 => d # Degrees)
    <3>1. parts[d] = CommitsPart(d)
      BY <1>4
    <3>2. (d = Degrees => Len(parts[d]) = 1) /\ (d # Degrees => Len(parts[d]) = 2)
      BY <3>1, CommitsParts
    <3>3. PICK l : l = Len(parts[d])
      OBVIOUS
    <3>4. (d = Degrees => l = 1) /\ (d # Degrees => l = 2)
      BY <3>2, <3>3
    <3>5. j \in 1..l
      BY <3>3
    <3> QED
      BY <3>4, <3>5
  <2>5. j = 1 => i = 3 + 2 * d
    BY <2>1, <2>3
  <2>6. j = 2 => i = 4 + 2 * d
    BY <2>1, <2>3
  <2> QED
    BY <2>4, <2>5, <2>6
<1>14. Len(s) >= 4
  BY <1>11
<1> QED
  BY <1>3, <1>8, <1>11, <1>12, <1>13, <1>14

(* The same for the node of the users.                                     *)
UsersPart(d) == <<Await(<<"uuids_degree_", d>>), Put(<<"degree", d>>), Show>>
UsersStart(users) ==
  <<Put(Key("users")), Listen>> \o (IF Torvalds(users) = {} THEN <<>> ELSE <<Put(Key("linus_uuid"))>>)

(* How the script of the node of the users begins: with p calls. *)
Opening(start, users, p) ==
  /\ start \in Seq(Calls) /\ Len(start) = p
  /\ start[1] = Put(Key("users")) /\ start[2] = Listen
  /\ (Torvalds(users) = {} /\ p = 2) \/ (Torvalds(users) # {} /\ p = 3 /\ start[3] = Put(Key("linus_uuid")))

(* There is such a beginning. *)
LEMMA UsersOpen ==
  ASSUME NEW users
  PROVE  \E p \in {2, 3} : Opening(UsersStart(users), users, p)
<1>1. PICK a, b, c : a = Put(Key("users")) /\ b = Listen /\ c = Put(Key("linus_uuid"))
  OBVIOUS
<1>2. a \in Calls /\ b \in Calls /\ c \in Calls
  <2>1. Key("users") \in Keys /\ Key("linus_uuid") \in Keys
    BY DEF Key, Keys, Names
  <2> QED
    BY <1>1, <2>1 DEF Calls
<1>3. PICK start : start = UsersStart(users)
  OBVIOUS
<1>4. CASE Torvalds(users) = {}
  <2>1. start = <<a, b>> \o <<>>
    BY <1>1, <1>3, <1>4 DEF UsersStart
  <2>2. start = <<a, b>>
    <3>1. PICK x : x = <<a, b>>
      OBVIOUS
    <3>2. x \in Seq(Calls)
      BY <1>2, <3>1
    <3>3. x \o <<>> = x
      BY <3>2, ConcatEmptySeq
    <3> QED
      BY <2>1, <3>1, <3>3
  <2>3. start \in Seq(Calls) /\ Len(start) = 2 /\ start[1] = a /\ start[2] = b
    BY <1>2, <2>2
  <2>4. Opening(start, users, 2)
    BY <1>1, <1>4, <2>3 DEF Opening
  <2> QED
    BY <1>3, <2>4
<1>5. CASE Torvalds(users) # {}
  <2>1. PICK x, y : x = <<a, b>> /\ y = <<c>>
    OBVIOUS
  <2>2. start = x \o y
    BY <1>1, <1>3, <1>5, <2>1 DEF UsersStart
  <2>3. /\ x \in Seq(Calls) /\ Len(x) = 2 /\ x[1] = a /\ x[2] = b
        /\ y \in Seq(Calls) /\ Len(y) = 1 /\ y[1] = c
    BY <1>2, <2>1
  <2>4. Joined(Calls, x, y, start)
    BY <2>2, <2>3, ConcatPlaces
  <2>5. start \in Seq(Calls) /\ Len(start) = 3
    BY <2>3, <2>4 DEF Joined
  <2>6. start[1] = a /\ start[2] = b
    <3>1. 1 \in 1..Len(x) /\ 2 \in 1..Len(x)
      BY <2>3
    <3> QED
      BY <2>3, <2>4, <3>1 DEF Joined
  <2>7. start[3] = c
    <3>1. 1 \in 1..Len(y) /\ Len(x) + 1 = 3
      BY <2>3
    <3>2. start[Len(x) + 1] = y[1]
      BY <2>4, <3>1 DEF Joined
    <3> QED
      BY <2>3, <3>1, <3>2
  <2>8. Opening(start, users, 3)
    BY <1>1, <1>5, <2>5, <2>6, <2>7 DEF Opening
  <2> QED
    BY <1>3, <2>8
<1> QED
  BY <1>4, <1>5

(* What the calls for a degree are, for the node of the users. *)
LEMMA UsersParts ==
  ASSUME NEW d \in 1..Degrees
  PROVE  /\ UsersPart(d) \in Seq(Calls) /\ Len(UsersPart(d)) = 3
         /\ UsersPart(d)[1] = Await(<<"uuids_degree_", d>>)
         /\ UsersPart(d)[2] = Put(<<"degree", d>>) /\ UsersPart(d)[3] = Show
<1>1. PICK a, b, c : a = Await(<<"uuids_degree_", d>>) /\ b = Put(<<"degree", d>>) /\ c = Show
  OBVIOUS
<1>2. a \in Calls /\ b \in Calls /\ c \in Calls
  <2>1. d \in Nat
    BY PipelineAssumption
  <2>2. <<"uuids_degree_", d>> \in Keys /\ <<"degree", d>> \in Keys
    BY <2>1 DEF Keys, Names
  <2> QED
    BY <1>1, <2>2 DEF Calls
<1>3. UsersPart(d) = <<a, b, c>>
  BY <1>1 DEF UsersPart
<1> QED
  BY <1>1, <1>2, <1>3

(* Where the calls of the node of the users are, behind the first p. *)
Laid(s, users, p) ==
  /\ s \in Seq(Calls) /\ Len(s) >= p /\ s[1] = Put(Key("users")) /\ s[2] = Listen
  /\ (Torvalds(users) = {} /\ p = 2) \/ (Torvalds(users) # {} /\ p = 3 /\ s[3] = Put(Key("linus_uuid")))
  /\ \A d \in 1..Degrees :
       /\ s[p + 3 * d - 2] = Await(<<"uuids_degree_", d>>)
       /\ s[p + 3 * d - 1] = Put(<<"degree", d>>) /\ s[p + 3 * d] = Show
  /\ \A i \in 1..Len(s) : i > p =>
       \E d \in 1..Degrees : i = p + 3 * d - 2 \/ i = p + 3 * d - 1 \/ i = p + 3 * d

(* The script is laid out so. *)
LEMMA UsersPlaces ==
  ASSUME NEW users
  PROVE  \E p \in {2, 3} : Laid(LinusUsers(users), users, p)
<1>1. PICK parts : parts = [d \in 1..Degrees |-> UsersPart(d)]
  OBVIOUS
<1>2. PICK start, rest, s : start = UsersStart(users) /\ rest = FlattenSeq(parts) /\ s = start \o rest
  OBVIOUS
<1>3. LinusUsers(users) = s
  BY <1>1, <1>2 DEF LinusUsers, UsersPart, UsersStart
<1>4. Degrees \in Nat /\ \A d \in 1..Degrees : parts[d] = UsersPart(d)
  BY <1>1, PipelineAssumption
<1>5. parts \in Seq(Seq(Calls)) /\ Len(parts) = Degrees
  <2>1. parts \in [1..Degrees -> Seq(Calls)]
    BY <1>1, UsersParts
  <2> QED
    BY <1>4, <2>1
<1>6. \A d \in 1..Degrees : Len(parts[d]) = 3
  <2>1. ASSUME NEW d \in 1..Degrees
        PROVE  Len(parts[d]) = 3
    <3>1. parts[d] = UsersPart(d)
      BY <1>4, <2>1
    <3> QED
      BY <3>1, UsersParts
  <2> QED
    BY <2>1
<1>7. rest \in Seq(Calls) /\ Blocks(rest, parts, 3, Degrees)
  <2>1. 3 \in Nat
    OBVIOUS
  <2> QED
    BY <1>2, <1>5, <1>6, <2>1, FlattenBlocks
<1>8. PICK p \in {2, 3} : Opening(start, users, p)
  BY <1>2, UsersOpen
<1>9. Joined(Calls, start, rest, s)
  <2>1. start \in Seq(Calls)
    BY <1>8 DEF Opening
  <2> QED
    BY <1>2, <1>7, <2>1, ConcatPlaces
<1>10. PICK n \in Nat : n = Len(rest)
  BY <1>7, LenProperties
<1>11. /\ s \in Seq(Calls) /\ Len(s) = p + n
       /\ \A i \in 1..p : s[i] = start[i]
       /\ \A j \in 1..n : p + j \in 1..Len(s) /\ s[p + j] = rest[j]
       /\ \A i \in 1..Len(s) : i > p => \E j \in 1..n : i = p + j
  <2>1. Len(start) = p
    BY <1>8 DEF Opening
  <2> QED
    BY <1>9, <1>10, <2>1 DEF Joined
<1>12. ASSUME NEW d \in 1..Degrees
       PROVE  /\ s[p + 3 * d - 2] = Await(<<"uuids_degree_", d>>)
              /\ s[p + 3 * d - 1] = Put(<<"degree", d>>) /\ s[p + 3 * d] = Show
  <2>1. PICK q : q = UsersPart(d)
    OBVIOUS
  <2>2. /\ Len(q) = 3 /\ q[1] = Await(<<"uuids_degree_", d>>)
        /\ q[2] = Put(<<"degree", d>>) /\ q[3] = Show
    BY <2>1, UsersParts
  <2>3. \A j \in 1..3 : 3 * (d - 1) + j \in 1..n /\ rest[3 * (d - 1) + j] = q[j]
    <3>1. q = parts[d]
      BY <1>4, <2>1
    <3> QED
      BY <1>7, <1>10, <2>2, <3>1 DEF Blocks
  <2>4. \A j \in 1..3 : s[p + (3 * (d - 1) + j)] = q[j]
    BY <1>11, <2>3
  <2>5. /\ p + (3 * (d - 1) + 1) = p + 3 * d - 2 /\ p + (3 * (d - 1) + 2) = p + 3 * d - 1
        /\ p + (3 * (d - 1) + 3) = p + 3 * d
    OBVIOUS
  <2>6. 1 \in 1..3 /\ 2 \in 1..3 /\ 3 \in 1..3
    OBVIOUS
  <2> QED
    BY <2>2, <2>4, <2>5, <2>6
<1>13. ASSUME NEW i \in 1..Len(s), i > p
       PROVE  \E d \in 1..Degrees : i = p + 3 * d - 2 \/ i = p + 3 * d - 1 \/ i = p + 3 * d
  <2>1. PICK q \in 1..n : i = p + q
    BY <1>11, <1>13
  <2>2. PICK d \in 1..Degrees : \E j \in 1..Len(parts[d]) : q = 3 * (d - 1) + j
    BY <1>7, <1>10 DEF Blocks
  <2>3. PICK j \in 1..Len(parts[d]) : q = 3 * (d - 1) + j
    BY <2>2
  <2>4. j \in {1, 2, 3}
    <3>1. Len(parts[d]) = 3
      BY <1>6
    <3> QED
      BY <2>3, <3>1
  <2>5. j = 1 => i = p + 3 * d - 2
    BY <2>1, <2>3
  <2>6. j = 2 => i = p + 3 * d - 1
    BY <2>1, <2>3
  <2>7. j = 3 => i = p + 3 * d
    BY <2>1, <2>3
  <2> QED
    BY <2>4, <2>5, <2>6, <2>7
<1>14. Len(s) >= p /\ s[1] = start[1] /\ s[2] = start[2] /\ (p = 3 => s[3] = start[3])
  BY <1>11
<1>15. Laid(s, users, p)
  BY <1>8, <1>11, <1>12, <1>13, <1>14 DEF Opening, Laid
<1> QED
  BY <1>3, <1>15

(* What a call does, by its first field. *)
LEMMA CallKinds ==
  ASSUME NEW k
  PROVE  /\ Put(k).op = "set" /\ Await(k).op = "wait" /\ Put(k).key = k /\ Await(k).key = k
         /\ Show.op = "show" /\ Listen.op = "listen" /\ Teardown.op = "teardown"
  BY DEF Put, Await, Show, Listen, Teardown

(* What the node of the commits has done before it sets the people of a    *)
(* degree, their projects, or one of the keys before the degrees.          *)
UuidsMove(s, i, d) ==
  /\ s[i] = Put(<<"uuids_degree_", d>>) /\ Earlier(s, i, Await(Key("linus_uuid")))
  /\ d = 1 => Earlier(s, i, Put(Key("linus_projects")))
  /\ d # 1 => Earlier(s, i, Put(<<"projects_degree_", d - 1>>))

ProjectsMove(s, i, d) ==
  s[i] = Put(<<"projects_degree_", d>>) /\ Earlier(s, i, Put(<<"uuids_degree_", d>>))

FirstMove(s, i) ==
  \/ s[i] = Put(Key("commits"))
  \/ s[i] = Put(Key("linus_projects")) /\ Earlier(s, i, Await(Key("linus_uuid")))

(* Every set of the node of the commits comes after these.                 *)
LEMMA CommitsOrder ==
  ASSUME NEW s, s = LinusCommits, NEW i \in 1..Len(s), s[i].op = "set"
  PROVE  FirstMove(s, i) \/ \E d \in 1..Degrees : UuidsMove(s, i, d) \/ ProjectsMove(s, i, d)
<1>1. /\ s[1] = Put(Key("commits")) /\ s[2] = Listen
      /\ s[3] = Await(Key("linus_uuid")) /\ s[4] = Put(Key("linus_projects"))
      /\ i > 4 => \E d \in 1..Degrees : i = 3 + 2 * d \/ (i = 4 + 2 * d /\ d # Degrees)
  BY CommitsPlaces
<1>2. \A d \in 1..Degrees :
         /\ s[3 + 2 * d] = Put(<<"uuids_degree_", d>>)
         /\ d # Degrees => s[4 + 2 * d] = Put(<<"projects_degree_", d>>)
  BY CommitsPlaces
<1>3. i \in Nat /\ Degrees \in Nat
  BY PipelineAssumption
<1>4. CASE i <= 4
  <2>1. i # 2 /\ i # 3
    BY <1>1, CallKinds
  <2>2. i = 1 \/ i = 4
    BY <1>3, <1>4, <2>1
  <2>3. ASSUME i = 4
        PROVE  Earlier(s, i, Await(Key("linus_uuid")))
    <3>1. 3 \in 1..(i - 1)
      BY <2>3
    <3> QED
      BY <1>1, <3>1 DEF Earlier
  <2> QED
    BY <1>1, <2>2, <2>3 DEF FirstMove
<1>5. ASSUME NEW d \in 1..Degrees, i = 3 + 2 * d
      PROVE  UuidsMove(s, i, d)
  <2>1. 3 \in 1..(i - 1) /\ 4 \in 1..(i - 1)
    BY <1>5
  <2>2. Earlier(s, i, Await(Key("linus_uuid"))) /\ Earlier(s, i, Put(Key("linus_projects")))
    BY <1>1, <2>1 DEF Earlier
  <2>3. ASSUME d # 1
        PROVE  Earlier(s, i, Put(<<"projects_degree_", d - 1>>))
    <3>1. d - 1 \in 1..Degrees /\ d - 1 # Degrees
      BY <1>3, <2>3
    <3>2. s[4 + 2 * (d - 1)] = Put(<<"projects_degree_", d - 1>>)
      BY <1>2, <3>1
    <3>3. 4 + 2 * (d - 1) \in 1..(i - 1)
      BY <1>5, <3>1
    <3> QED
      BY <3>2, <3>3 DEF Earlier
  <2> QED
    BY <1>2, <1>5, <2>2, <2>3 DEF UuidsMove
<1>6. ASSUME NEW d \in 1..Degrees, i = 4 + 2 * d, d # Degrees
      PROVE  ProjectsMove(s, i, d)
  <2>1. 3 + 2 * d \in 1..(i - 1)
    BY <1>6
  <2>2. s[3 + 2 * d] = Put(<<"uuids_degree_", d>>) /\ s[4 + 2 * d] = Put(<<"projects_degree_", d>>)
    BY <1>2, <1>6
  <2> QED
    BY <1>6, <2>1, <2>2 DEF Earlier, ProjectsMove
<1>7. CASE i > 4
  <2>1. PICK d \in 1..Degrees : i = 3 + 2 * d \/ (i = 4 + 2 * d /\ d # Degrees)
    BY <1>1, <1>7
  <2> QED
    BY <1>5, <1>6, <2>1
<1>8. i <= 4 \/ i > 4
  BY <1>3
<1> QED
  BY <1>4, <1>7, <1>8

(* What the node of the users has done before it sets a key. *)
LEMMA UsersOrder ==
  ASSUME NEW users, NEW s, s = LinusUsers(users), NEW i \in 1..Len(s), s[i].op = "set"
  PROVE  \/ s[i] = Put(Key("users"))
         \/ s[i] = Put(Key("linus_uuid")) /\ Torvalds(users) # {}
         \/ \E d \in 1..Degrees :
              /\ s[i] = Put(<<"degree", d>>) /\ Earlier(s, i, Await(<<"uuids_degree_", d>>))
              /\ Torvalds(users) # {} => Earlier(s, i, Put(Key("linus_uuid")))
<1>1. PICK p \in {2, 3} : Laid(s, users, p)
  BY UsersPlaces
<1>2. i \in Nat /\ Degrees \in Nat
  BY PipelineAssumption
<1>3. /\ s[1] = Put(Key("users")) /\ s[2] = Listen
      /\ p = 2 => Torvalds(users) = {}
      /\ p = 3 => Torvalds(users) # {} /\ s[3] = Put(Key("linus_uuid"))
  BY <1>1 DEF Laid
<1>4. CASE i <= p
  <2>1. i # 2
    BY <1>3, CallKinds
  <2>2. i = 1 \/ (i = 3 /\ p = 3)
    BY <1>2, <1>4, <2>1
  <2> QED
    BY <1>3, <2>2
<1>5. CASE i > p
  <2>1. PICK d \in 1..Degrees : i = p + 3 * d - 2 \/ i = p + 3 * d - 1 \/ i = p + 3 * d
    BY <1>1, <1>5 DEF Laid
  <2>2. /\ s[p + 3 * d - 2] = Await(<<"uuids_degree_", d>>)
        /\ s[p + 3 * d - 1] = Put(<<"degree", d>>) /\ s[p + 3 * d] = Show
    BY <1>1 DEF Laid
  <2>3. i = p + 3 * d - 1
    BY <2>1, <2>2, CallKinds
  <2>4. p + 3 * d - 2 \in 1..(i - 1) /\ (p = 3 => 3 \in 1..(i - 1))
    BY <2>3
  <2>5. Earlier(s, i, Await(<<"uuids_degree_", d>>))
    BY <2>2, <2>4 DEF Earlier
  <2>6. Torvalds(users) # {} => Earlier(s, i, Put(Key("linus_uuid")))
    BY <1>3, <2>4 DEF Earlier
  <2> QED
    BY <2>2, <2>3, <2>5, <2>6
<1> QED
  BY <1>2, <1>4, <1>5

(* The scripts are sequences of calls. *)
LEMMA ScriptsOfCalls ==
  ASSUME job.app \in {"linus", "words"}, NEW n \in Node
  PROVE  Script(n) \in Seq(Calls)
<1>1. n \in {1, 2, 3}
  BY DEF Node
<1>2. \A name \in Names : Key(name) \in Keys
  BY DEF Key, Keys
<1>3. CASE job.app = "linus"
  <2>1. /\ n = 1 => Script(n) = LinusUsers(job.users)
        /\ n = 2 => Script(n) = LinusCommits
        /\ n = 3 => Script(n) = LinusProjects
    BY <1>3 DEF Script
  <2>2. LinusUsers(job.users) \in Seq(Calls) /\ LinusCommits \in Seq(Calls)
    BY UsersPlaces, CommitsPlaces DEF Laid
  <2>3. LinusProjects \in Seq(Calls)
    <3>1. PICK a, b : a = Put(Key("projects")) /\ b = Listen
      OBVIOUS
    <3>2. a \in Calls /\ b \in Calls
      BY <1>2, <3>1 DEF Calls, Names
    <3>3. <<a, b>> \in Seq(Calls)
      BY <3>2
    <3> QED
      BY <3>1, <3>3 DEF LinusProjects
  <2> QED
    BY <1>1, <2>1, <2>2, <2>3
<1>4. CASE job.app = "words"
  <2>1. /\ n = 1 => Script(n) = WordReader(job.text)
        /\ n = 2 => Script(n) = WordCounter
        /\ n = 3 => Script(n) = <<>>
    BY <1>4 DEF Script
  <2>2. PICK a, b, c, e, f : /\ a = Listen /\ b = Teardown /\ c = Put(Key("wc_df"))
                             /\ e = Await(Key("wc_df")) /\ f = Show
    OBVIOUS
  <2>3. a \in Calls /\ b \in Calls /\ c \in Calls /\ e \in Calls /\ f \in Calls
    BY <1>2, <2>2 DEF Calls, Names
  <2>4. <<a, b>> \in Seq(Calls) /\ <<a, c>> \in Seq(Calls) /\ <<a, e, f>> \in Seq(Calls) /\ <<>> \in Seq(Calls)
    BY <2>3
  <2>5. WordReader(job.text) = <<a, b>> \/ WordReader(job.text) = <<a, c>>
    BY <2>2 DEF WordReader
  <2>6. WordCounter = <<a, e, f>>
    BY <2>2 DEF WordCounter
  <2> QED
    BY <1>1, <2>1, <2>4, <2>5, <2>6
<1> QED
  BY <1>3, <1>4

----------------------------------------------------------------------------
(* Linus: the values. *)

(* The id that _users takes for that of torvalds.                          *)
Linus ==
  job.users[CHOOSE i \in Torvalds(job.users) : \A j \in Torvalds(job.users) : i <= j].uuid

(* v are the people at most d joint projects away from him, their          *)
(* projects, their names.                                                  *)
Ball(v, d) == \A b : b \in v <=> Within(d, Linus, b)

RightProjects(v, d) == \E w : Ball(w, d) /\ v = ProjectsOf(w, job.commits)

RightNames(v, d) == \E w : Ball(w, d) /\ v = NamesOf(w, job.users)

(* v is what belongs under k, said without the code that computes it but   *)
(* for ReadInFile.                                                         *)
Right(k, v) ==
  /\ k = Key("wc_df") => v = ReadInFile(job.text)
  /\ k = Key("linus_uuid") => v = {Linus}
  /\ k = Key("linus_projects") => v = ProjectsOf({Linus}, job.commits)
  /\ \A d \in 1..Degrees : k = <<"uuids_degree_", d>> => Ball(v, d)
  /\ \A d \in 1..Degrees : k = <<"projects_degree_", d>> => RightProjects(v, d)
  /\ \A d \in 1..Degrees : k = <<"degree", d>> => RightNames(v, d)

(* Nothing is asked of the inputs. *)
LEMMA RightInputs ==
  ASSUME NEW k \in {Key("users"), Key("commits"), Key("projects")}, NEW v
  PROVE  Right(k, v)
  BY DEF Right, Key

(* The words of the text. *)
LEMMA RightText == Right(Key("wc_df"), ReadInFile(job.text))
<1>1. PICK v : v = ReadInFile(job.text)
  OBVIOUS
<1>2. Right(Key("wc_df"), v)
  BY <1>1 DEF Right, Key
<1> QED
  BY <1>1, <1>2

(* The id of torvalds. *)
LEMMA RightLinus == Right(Key("linus_uuid"), {Linus})
<1>1. PICK v : v = {Linus}
  OBVIOUS
<1>2. Right(Key("linus_uuid"), v)
  BY <1>1 DEF Right, Key
<1> QED
  BY <1>1, <1>2

(* His own projects. *)
LEMMA RightOwn == Right(Key("linus_projects"), ProjectsOf({Linus}, job.commits))
<1>1. PICK v : v = ProjectsOf({Linus}, job.commits)
  OBVIOUS
<1>2. Right(Key("linus_projects"), v)
  BY <1>1 DEF Right, Key
<1> QED
  BY <1>1, <1>2

(* What is computed for a degree. *)
LEMMA RightDegrees ==
  ASSUME NEW d \in 1..Degrees, NEW v
  PROVE  /\ Ball(v, d) => Right(<<"uuids_degree_", d>>, v)
         /\ RightProjects(v, d) => Right(<<"projects_degree_", d>>, v)
         /\ RightNames(v, d) => Right(<<"degree", d>>, v)
<1>1. ASSUME Ball(v, d) PROVE Right(<<"uuids_degree_", d>>, v)
  BY <1>1 DEF Right, Key
<1>2. ASSUME RightProjects(v, d) PROVE Right(<<"projects_degree_", d>>, v)
  BY <1>2 DEF Right, Key
<1>3. ASSUME RightNames(v, d) PROVE Right(<<"degree", d>>, v)
  BY <1>3 DEF Right, Key
<1> QED
  BY <1>1, <1>2, <1>3

(* What is right depends on the job alone. *)
LEMMA RightKept ==
  ASSUME job' = job, NEW k, NEW v
  PROVE  Right(k, v)' <=> Right(k, v)
<1>1. Linus' = Linus
  BY DEF Linus, Torvalds
<1>2. \A d, b : Within(d, Linus, b)' <=> Within(d, Linus, b)
  BY <1>1 DEF Within, Joint, People
<1>3. \A w, d : Ball(w, d)' <=> Ball(w, d)
  BY <1>2 DEF Ball
<1> QED
  BY <1>1, <1>3 DEF Right, RightProjects, RightNames

(* The people the filters find from Linus' own projects ...                *)
LEMMA BallOne ==
  ASSUME NEW v, v = UsersOf(ProjectsOf({Linus}, job.commits), job.commits)
  PROVE  Ball(v, 1)
  BY FoundByFilters, WithinOne DEF Ball

(* ... and from the projects of the degree before.                         *)
LEMMA BallNext ==
  ASSUME NEW d \in Nat, NEW w, Ball(w, d), NEW v, v = UsersOf(ProjectsOf(w, job.commits), job.commits)
  PROVE  Ball(v, d + 1)
<1>1. ASSUME NEW b
      PROVE  b \in v <=> Within(d + 1, Linus, b)
  <2>1. b \in v <=> \E a \in w : Joint(a, b)
    BY FoundByFilters
  <2>2. Within(d + 1, Linus, b) <=> \E a : Within(d, Linus, a) /\ Joint(a, b)
    BY WithinNext
  <2>3. \A a : a \in w <=> Within(d, Linus, a)
    BY DEF Ball
  <2> QED
    BY <2>1, <2>2, <2>3
<1> QED
  BY <1>1 DEF Ball

(* What is set under a key without a degree ...                            *)
LEMMA LinusValues ==
  ASSUME NEW n
  PROVE  /\ Value(n, Key("wc_df")) = ReadInFile(job.text)
         /\ Value(n, Key("linus_uuid")) = {Linus}
         /\ Value(n, Key("linus_projects")) = ProjectsOf(heard[n][Key("linus_uuid")], job.commits)
<1>1. Value(n, Key("wc_df")) = ReadInFile(job.text)
  BY DEF Value, Key
<1>2. Value(n, Key("linus_uuid")) = {Linus}
  BY DEF Value, Key, Linus
<1>3. Value(n, Key("linus_projects")) = ProjectsOf(heard[n][Key("linus_uuid")], job.commits)
  BY DEF Value, Key
<1> QED
  BY <1>1, <1>2, <1>3

(* ... and under one with a degree.                                        *)
LEMMA DegreeValues ==
  ASSUME NEW n, NEW d
  PROVE  /\ d = 1 => Value(n, <<"uuids_degree_", d>>) = UsersOf(local[n][Key("linus_projects")], job.commits)
         /\ d # 1 => Value(n, <<"uuids_degree_", d>>) =
                       UsersOf(local[n][<<"projects_degree_", d - 1>>], job.commits)
         /\ Value(n, <<"projects_degree_", d>>) = ProjectsOf(local[n][<<"uuids_degree_", d>>], job.commits)
         /\ Value(n, <<"degree", d>>) = NamesOf(heard[n][<<"uuids_degree_", d>>], job.users)
<1>1. d = 1 => Value(n, <<"uuids_degree_", d>>) = UsersOf(local[n][Key("linus_projects")], job.commits)
  BY DEF Value
<1>2. d # 1 => Value(n, <<"uuids_degree_", d>>) =
                 UsersOf(local[n][<<"projects_degree_", d - 1>>], job.commits)
  BY DEF Value
<1>3. Value(n, <<"projects_degree_", d>>) = ProjectsOf(local[n][<<"uuids_degree_", d>>], job.commits)
  BY DEF Value
<1>4. Value(n, <<"degree", d>>) = NamesOf(heard[n][<<"uuids_degree_", d>>], job.users)
  BY DEF Value
<1> QED
  BY <1>1, <1>2, <1>3, <1>4

----------------------------------------------------------------------------
(* The invariant, for Linus and WordCount. *)

(* Where the threads are: a set and a wait are taken up in their turn. *)
InScript ==
  /\ at \in [Node -> Nat] /\ \A n \in Node : at[n] <= Len(Script(n))
  /\ pc \in [Node -> Pc]
  /\ \A n \in Node : pc[n] = "insert" => at[n] # Len(Script(n)) /\ Op(n).op = "set"
  /\ \A n \in Node : pc[n] = "asked" => at[n] # Len(Script(n)) /\ Op(n).op = "wait"

(* The i-th call of n has left its key; n has come past the call that      *)
(* leaves k.                                                               *)
DidAt(n, i) ==
  /\ Script(n)[i].op = "set" => Script(n)[i].key \in DOMAIN local[n]
  /\ Script(n)[i].op = "wait" => Script(n)[i].key \in DOMAIN heard[n]

CameBy(n, k) == \E i \in 1..at[n] : Script(n)[i] = Put(k)

(* What is past in a script has been done ... *)
Did == \A n \in Node : \A i \in 1..at[n] : DidAt(n, i)

(* ... and what is there has come of it. *)
Came ==
  /\ \A n \in Node : \A k \in DOMAIN local[n] : CameBy(n, k)
  /\ \A n \in Node : \A k \in DOMAIN heard[n] : \E m \in Node : k \in DOMAIN local[m]

(* Stored and heard is what belongs under the key.                         *)
AllRight ==
  /\ \A n \in Node : \A k \in DOMAIN local[n] : Right(k, local[n][k])
  /\ \A n \in Node : \A k \in DOMAIN heard[n] : Right(k, heard[n][k])

(* No wait of these applications times out.                                *)
LinusState == job.app \in {"linus", "words"} /\ InScript /\ Maps /\ Did /\ Came /\ AllRight

(* The call that is next. *)
LEMMA NextCall ==
  ASSUME LinusState, NEW n \in Node, at[n] # Len(Script(n))
  PROVE  /\ at[n] \in Nat /\ at[n] + 1 \in 1..Len(Script(n)) /\ Op(n) = Script(n)[at[n] + 1]
         /\ Len(Script(n)) \in Nat /\ Op(n) \in Calls
<1>1. Script(n) \in Seq(Calls)
  BY ScriptsOfCalls DEF LinusState
<1>2. at[n] \in Nat /\ at[n] <= Len(Script(n)) /\ Len(Script(n)) \in Nat
  BY <1>1 DEF LinusState, InScript
<1>3. at[n] + 1 \in 1..Len(Script(n))
  BY <1>2
<1>4. Op(n) = Script(n)[at[n] + 1]
  BY DEF Op
<1>5. Script(n)[at[n] + 1] \in Calls
  BY <1>1, <1>3
<1> QED
  BY <1>2, <1>3, <1>4, <1>5

(* A script depends on the job alone. *)
LEMMA ScriptKept ==
  ASSUME job' = job, NEW n
  PROVE  Script(n)' = Script(n)
  BY DEF Script

(* A call that sets is the setting of its key. *)
LEMMA SetsArePuts ==
  ASSUME NEW c \in Calls, c.op = "set"
  PROVE  c = Put(c.key)
<1>1. PICK k : c = Put(k) \/ c = Await(k) \/ c \in {Show, Listen, Teardown}
  BY DEF Calls
<1>2. c = Put(k)
  BY <1>1, CallKinds
<1> QED
  BY <1>2, CallKinds

(* The value to be set is right. *)
LEMMA ValueRight ==
  ASSUME LinusState, NEW n \in Node, at[n] # Len(Script(n)), Op(n).op = "set"
  PROVE  Right(Op(n).key, Value(n, Op(n).key))
<1>1. PICK s, i : s = Script(n) /\ i = at[n] + 1
  OBVIOUS
<1>2. i \in 1..Len(s) /\ s[i].op = "set" /\ Op(n) = s[i] /\ at[n] \in Nat
  BY <1>1, NextCall
<1>3. ASSUME NEW k, Earlier(s, i, Put(k))
      PROVE  k \in DOMAIN local[n] /\ Right(k, local[n][k])
  <2>1. PICK j \in 1..(i - 1) : s[j] = Put(k)
    BY <1>3 DEF Earlier
  <2>2. j \in 1..at[n]
    BY <1>1, <1>2, <2>1
  <2>3. DidAt(n, j)
    BY <2>2 DEF LinusState, Did
  <2>4. k \in DOMAIN local[n]
    BY <1>1, <2>1, <2>3, CallKinds DEF DidAt
  <2> QED
    BY <2>4 DEF LinusState, AllRight
<1>4. ASSUME NEW k, Earlier(s, i, Await(k))
      PROVE  k \in DOMAIN heard[n] /\ Right(k, heard[n][k])
  <2>1. PICK j \in 1..(i - 1) : s[j] = Await(k)
    BY <1>4 DEF Earlier
  <2>2. j \in 1..at[n]
    BY <1>1, <1>2, <2>1
  <2>3. DidAt(n, j)
    BY <2>2 DEF LinusState, Did
  <2>4. k \in DOMAIN heard[n]
    BY <1>1, <2>1, <2>3, CallKinds DEF DidAt
  <2> QED
    BY <2>4 DEF LinusState, AllRight
<1>5. ASSUME NEW k, s[i] = Put(k), Right(k, Value(n, k))
      PROVE  Right(Op(n).key, Value(n, Op(n).key))
  <2>1. Op(n).key = k
    BY <1>2, <1>5, CallKinds
  <2> QED
    BY <1>5, <2>1
<1>6. ASSUME NEW k \in {Key("users"), Key("commits"), Key("projects")}, s[i] = Put(k)
      PROVE  Right(Op(n).key, Value(n, Op(n).key))
  BY <1>5, <1>6, RightInputs
<1>7. CASE job.app = "linus" /\ n = 2
  <2>1. s = LinusCommits
    BY <1>1, <1>7 DEF Script
  <2>2. CASE FirstMove(s, i)
    <3>1. CASE s[i] = Put(Key("commits"))
      BY <1>6, <3>1
    <3>2. CASE s[i] = Put(Key("linus_projects")) /\ Earlier(s, i, Await(Key("linus_uuid")))
      <4>1. Right(Key("linus_uuid"), heard[n][Key("linus_uuid")])
        BY <1>4, <3>2
      <4>2. heard[n][Key("linus_uuid")] = {Linus}
        BY <4>1 DEF Right
      <4>3. Value(n, Key("linus_projects")) = ProjectsOf({Linus}, job.commits)
        BY <4>2, LinusValues
      <4> QED
        BY <1>5, <3>2, <4>3, RightOwn
    <3> QED
      BY <2>2, <3>1, <3>2 DEF FirstMove
  <2>3. ASSUME NEW d \in 1..Degrees, UuidsMove(s, i, d)
        PROVE  Right(Op(n).key, Value(n, Op(n).key))
    <3>1. PICK v : v = Value(n, <<"uuids_degree_", d>>)
      OBVIOUS
    <3>2. ASSUME d = 1
          PROVE  Ball(v, d)
      <4>1. Right(Key("linus_projects"), local[n][Key("linus_projects")])
        BY <1>3, <2>3, <3>2 DEF UuidsMove
      <4>2. local[n][Key("linus_projects")] = ProjectsOf({Linus}, job.commits)
        BY <4>1 DEF Right
      <4>3. v = UsersOf(ProjectsOf({Linus}, job.commits), job.commits)
        BY <3>1, <3>2, <4>2, DegreeValues
      <4> QED
        BY <3>2, <4>3, BallOne
    <3>3. ASSUME d # 1
          PROVE  Ball(v, d)
      <4>1. d - 1 \in 1..Degrees /\ d - 1 \in Nat /\ (d - 1) + 1 = d
        BY <3>3, PipelineAssumption
      <4>2. Earlier(s, i, Put(<<"projects_degree_", d - 1>>))
        BY <2>3, <3>3 DEF UuidsMove
      <4>3. PICK x : x = local[n][<<"projects_degree_", d - 1>>]
        OBVIOUS
      <4>4. Right(<<"projects_degree_", d - 1>>, x)
        BY <1>3, <4>2, <4>3
      <4>5. RightProjects(x, d - 1)
        BY <4>1, <4>4 DEF Right
      <4>6. PICK w : Ball(w, d - 1) /\ x = ProjectsOf(w, job.commits)
        BY <4>5 DEF RightProjects
      <4>7. v = UsersOf(ProjectsOf(w, job.commits), job.commits)
        BY <3>1, <3>3, <4>3, <4>6, DegreeValues
      <4>8. Ball(v, (d - 1) + 1)
        BY <4>1, <4>6, <4>7, BallNext
      <4> QED
        BY <4>1, <4>8
    <3>4. Ball(v, d)
      BY <3>2, <3>3
    <3>5. s[i] = Put(<<"uuids_degree_", d>>)
      BY <2>3 DEF UuidsMove
    <3>6. Right(<<"uuids_degree_", d>>, v)
      BY <3>4, RightDegrees
    <3> QED
      BY <1>5, <3>1, <3>5, <3>6
  <2>4. ASSUME NEW d \in 1..Degrees, ProjectsMove(s, i, d)
        PROVE  Right(Op(n).key, Value(n, Op(n).key))
    <3>1. PICK v, w : v = Value(n, <<"projects_degree_", d>>) /\ w = local[n][<<"uuids_degree_", d>>]
      OBVIOUS
    <3>2. s[i] = Put(<<"projects_degree_", d>>) /\ Earlier(s, i, Put(<<"uuids_degree_", d>>))
      BY <2>4 DEF ProjectsMove
    <3>3. Right(<<"uuids_degree_", d>>, w)
      BY <1>3, <3>1, <3>2
    <3>4. Ball(w, d)
      BY <3>3 DEF Right
    <3>5. v = ProjectsOf(w, job.commits)
      BY <3>1, DegreeValues
    <3>6. Right(<<"projects_degree_", d>>, v)
      BY <3>4, <3>5, RightDegrees DEF RightProjects
    <3> QED
      BY <1>5, <3>1, <3>2, <3>6
  <2>5. FirstMove(s, i) \/ \E d \in 1..Degrees : UuidsMove(s, i, d) \/ ProjectsMove(s, i, d)
    BY <1>2, <2>1, CommitsOrder
  <2> QED
    BY <2>2, <2>3, <2>4, <2>5
<1>8. CASE job.app = "linus" /\ n = 1
  <2>1. s = LinusUsers(job.users)
    BY <1>1, <1>8 DEF Script
  <2>2. CASE s[i] = Put(Key("users"))
    BY <1>6, <2>2
  <2>3. CASE s[i] = Put(Key("linus_uuid"))
    BY <1>5, <2>3, LinusValues, RightLinus
  <2>4. ASSUME NEW d \in 1..Degrees, s[i] = Put(<<"degree", d>>), Earlier(s, i, Await(<<"uuids_degree_", d>>))
        PROVE  Right(Op(n).key, Value(n, Op(n).key))
    <3>1. PICK v, w : v = Value(n, <<"degree", d>>) /\ w = heard[n][<<"uuids_degree_", d>>]
      OBVIOUS
    <3>2. Right(<<"uuids_degree_", d>>, w)
      BY <1>4, <2>4, <3>1
    <3>3. Ball(w, d)
      BY <3>2 DEF Right
    <3>4. v = NamesOf(w, job.users)
      BY <3>1, DegreeValues
    <3>5. Right(<<"degree", d>>, v)
      BY <3>3, <3>4, RightDegrees DEF RightNames
    <3> QED
      BY <1>5, <2>4, <3>1, <3>5
  <2>5. \/ s[i] = Put(Key("users"))
        \/ s[i] = Put(Key("linus_uuid"))
        \/ \E d \in 1..Degrees : s[i] = Put(<<"degree", d>>) /\ Earlier(s, i, Await(<<"uuids_degree_", d>>))
    BY <1>2, <2>1, UsersOrder
  <2> QED
    BY <2>2, <2>3, <2>4, <2>5
<1>9. CASE job.app = "linus" /\ n = 3
  <2>1. s = LinusProjects
    BY <1>1, <1>9 DEF Script
  <2>2. i \in {1, 2} /\ s[1] = Put(Key("projects")) /\ s[2] = Listen
    BY <1>2, <2>1 DEF LinusProjects
  <2>3. s[i] = Put(Key("projects"))
    BY <1>2, <2>2, CallKinds
  <2> QED
    BY <1>6, <2>3
<1>10. CASE job.app = "words"
  <2>1. n = 1 \/ n = 2 \/ n = 3
    BY NodeSpelled
  <2>2. n = 1 => s = WordReader(job.text)
    BY <1>1, <1>10 DEF Script
  <2>3. n = 2 => s = WordCounter
    BY <1>1, <1>10 DEF Script
  <2>4. n = 3 => s = <<>>
    BY <1>1, <1>10 DEF Script
  <2>5. n # 3
    BY <1>2, <2>4
  <2>6. n # 2
    <3> SUFFICES ASSUME n = 2 PROVE FALSE
      OBVIOUS
    <3>1. PICK a, b, c : a = Listen /\ b = Await(Key("wc_df")) /\ c = Show
      OBVIOUS
    <3>2. s = <<a, b, c>>
      BY <2>3, <3>1 DEF WordCounter
    <3>3. Len(s) = 3 /\ s[1] = a /\ s[2] = b /\ s[3] = c
      BY <3>2
    <3>4. i = 1 \/ i = 2 \/ i = 3
      BY <1>2, <3>3
    <3> QED
      BY <1>2, <3>1, <3>3, <3>4, CallKinds
  <2>7. i \in {1, 2} /\ s[1] = Listen /\ (s[2] = Teardown \/ s[2] = Put(Key("wc_df")))
    BY <1>2, <2>1, <2>2, <2>5, <2>6 DEF WordReader
  <2>8. s[i] = Put(Key("wc_df"))
    BY <1>2, <2>7, CallKinds
  <2> QED
    BY <1>5, <2>8, LinusValues, RightText
<1> QED
  BY <1>7, <1>8, <1>9, <1>10, NodeSpelled DEF LinusState

----------------------------------------------------------------------------
(* The steps of Linus and WordCount. *)

(* A step that only lets the thread of n do something else. *)
LEMMA LinusPcStep ==
  ASSUME LinusState, NEW n \in Node, NEW q \in Pc, pc' = [pc EXCEPT ![n] = q],
         UNCHANGED <<job, at, local, known, heard>>,
         q = "insert" => Doing(n, "set"),
         q = "asked" => Doing(n, "wait") /\ Op(n).key \in DOMAIN known[n]
  PROVE  LinusState'
<1>1. pc' \in [Node -> Pc] /\ pc'[n] = q /\ \A m \in Node : m # n => pc'[m] = pc[m]
  BY DEF LinusState, InScript
<1>2. \A m \in Node : Op(m)' = Op(m)
  BY OpKept
<1>3. \A m : Script(m)' = Script(m)
  BY ScriptKept
<1>4. InScript'
  <2>1. ASSUME NEW m \in Node, pc'[m] = "insert"
        PROVE  at[m] # Len(Script(m)) /\ Op(m).op = "set"
    BY <1>1, <2>1 DEF LinusState, InScript, Doing, Done
  <2>2. ASSUME NEW m \in Node, pc'[m] = "asked"
        PROVE  at[m] # Len(Script(m)) /\ Op(m).op = "wait"
    BY <1>1, <2>2 DEF LinusState, InScript, Doing, Done
  <2>3. at \in [Node -> Nat] /\ \A m \in Node : at[m] <= Len(Script(m))
    BY DEF LinusState, InScript
  <2> QED
    BY <1>1, <1>2, <1>3, <2>1, <2>2, <2>3 DEF InScript
<1>5. Maps'
  <2>1. ASSUME NEW m \in Node, pc'[m] = "asked"
        PROVE  Op(m).key \in DOMAIN known[m]
    BY <1>1, <2>1 DEF LinusState, Maps
  <2> QED
    BY <1>2, <2>1 DEF LinusState, Maps
<1>6. Did'
  BY <1>3 DEF LinusState, Did, DidAt
<1>7. Came'
  BY <1>3 DEF LinusState, Came, CameBy
<1>8. AllRight'
  BY RightKept DEF LinusState, AllRight
<1> QED
  BY <1>4, <1>5, <1>6, <1>7, <1>8 DEF LinusState

(* A step past the next call: everything before it stays done. *)
LEMMA GoesOn ==
  ASSUME LinusState, NEW n \in Node, at[n] # Len(Script(n)), at' = [at EXCEPT ![n] = @ + 1], job' = job
  PROVE  /\ at' \in [Node -> Nat] /\ \A m \in Node : at'[m] <= Len(Script(m))
         /\ at'[n] = at[n] + 1 /\ \A m \in Node : m # n => at'[m] = at[m]
         /\ \A m \in Node : 1..at[m] \subseteq 1..at'[m]
         /\ \A i \in 1..at'[n] : i \in 1..at[n] \/ (i = at'[n] /\ Script(n)[i] = Op(n))
         /\ at'[n] \in 1..at'[n]
<1>1. at[n] \in Nat /\ at[n] + 1 \in 1..Len(Script(n)) /\ Op(n) = Script(n)[at[n] + 1] /\ Len(Script(n)) \in Nat
  BY NextCall
<1>2. at' \in [Node -> Nat] /\ at'[n] = at[n] + 1 /\ \A m \in Node : m # n => at'[m] = at[m]
  BY <1>1 DEF LinusState, InScript
<1>3. \A m \in Node : at'[m] <= Len(Script(m))
  <2>1. at'[n] <= Len(Script(n))
    BY <1>1, <1>2
  <2> QED
    BY <1>2, <2>1 DEF LinusState, InScript
<1>4. \A m \in Node : 1..at[m] \subseteq 1..at'[m]
  <2>1. 1..at[n] \subseteq 1..at'[n]
    BY <1>1, <1>2
  <2> QED
    BY <1>2, <2>1
<1>5. \A i \in 1..at'[n] : i \in 1..at[n] \/ (i = at'[n] /\ Script(n)[i] = Op(n))
  BY <1>1, <1>2
<1>6. at'[n] \in 1..at'[n]
  BY <1>1, <1>2
<1> QED
  BY <1>2, <1>3, <1>4, <1>5, <1>6

(* A step past a call leaves the other threads where they are. *)
LEMMA OthersStay ==
  ASSUME LinusState, NEW n \in Node, at' \in [Node -> Nat], \A m \in Node : at'[m] <= Len(Script(m)),
         \A m \in Node : m # n => at'[m] = at[m], job' = job,
         pc' \in [Node -> Pc], pc'[n] \notin {"insert", "asked"}, \A m \in Node : m # n => pc'[m] = pc[m]
  PROVE  InScript' /\ \A m \in Node : pc'[m] = "asked" => Op(m)' = Op(m) /\ Op(m).key \in DOMAIN known[m]
<1>1. \A m : Script(m)' = Script(m)
  BY ScriptKept
<1>2. ASSUME NEW m \in Node, m # n
      PROVE  Op(m)' = Op(m)
  BY <1>2, OpKept
<1>3. \A m \in Node : pc'[m] = "insert" => at'[m] # Len(Script(m)) /\ Op(m)'.op = "set"
  BY <1>2 DEF LinusState, InScript
<1>4. \A m \in Node : pc'[m] = "asked" => at'[m] # Len(Script(m)) /\ Op(m)'.op = "wait"
  BY <1>2 DEF LinusState, InScript
<1>5. InScript'
  BY <1>1, <1>3, <1>4 DEF InScript
<1>6. \A m \in Node : pc'[m] = "asked" => Op(m)' = Op(m) /\ Op(m).key \in DOMAIN known[m]
  BY <1>2 DEF LinusState, Maps
<1> QED
  BY <1>5, <1>6

(* A step past a call that neither sets nor waits. *)
LEMMA LinusCallStep ==
  ASSUME LinusState, NEW n \in Node, NEW op \in {"listen", "show", "teardown"}, Doing(n, op),
         at' = [at EXCEPT ![n] = @ + 1], UNCHANGED <<job, pc, local, known, heard>>
  PROVE  LinusState'
<1>1. at[n] # Len(Script(n)) /\ Op(n).op = op
  BY DEF Doing, Done
<1>2. /\ at' \in [Node -> Nat] /\ \A m \in Node : at'[m] <= Len(Script(m))
      /\ at'[n] = at[n] + 1 /\ \A m \in Node : m # n => at'[m] = at[m]
      /\ \A m \in Node : 1..at[m] \subseteq 1..at'[m]
      /\ \A i \in 1..at'[n] : i \in 1..at[n] \/ (i = at'[n] /\ Script(n)[i] = Op(n))
  BY <1>1, GoesOn
<1>3. \A m : Script(m)' = Script(m)
  BY ScriptKept
<1>4. pc[n] \notin {"insert", "asked"} /\ pc \in [Node -> Pc]
  BY <1>1 DEF LinusState, InScript
<1>5. InScript' /\ \A m \in Node : pc'[m] = "asked" => Op(m)' = Op(m) /\ Op(m).key \in DOMAIN known[m]
  BY <1>2, <1>4, OthersStay
<1>6. Maps'
  BY <1>5 DEF LinusState, Maps
<1>7. Did'
  <2>1. ASSUME NEW m \in Node, NEW i \in 1..at'[m]
        PROVE  DidAt(m, i)
    <3>1. CASE i \in 1..at[m]
      BY <3>1 DEF LinusState, Did
    <3>2. CASE i \notin 1..at[m]
      <4>1. m = n /\ Script(n)[i] = Op(n)
        BY <1>2, <3>2
      <4> QED
        BY <1>1, <4>1 DEF DidAt
    <3> QED
      BY <3>1, <3>2
  <2> QED
    BY <1>3, <2>1 DEF Did, DidAt
<1>8. Came'
  BY <1>2, <1>3 DEF LinusState, Came, CameBy
<1>9. AllRight'
  BY RightKept DEF LinusState, AllRight
<1> QED
  BY <1>5, <1>6, <1>7, <1>8, <1>9 DEF LinusState

(* Key lists. *)
LEMMA LinusAnnounceStep ==
  ASSUME LinusState, NEW m \in Node, NEW n \in Node, Announce(m, n)
  PROVE  LinusState'
<1>1. UNCHANGED <<job, at, pc, local, heard>>
  BY DEF Announce
<1>2. PICK ks, old : ks = DOMAIN local[m] /\ old = known[n]
  OBVIOUS
<1>3. PICK new : new = [k \in DOMAIN old \cup ks |-> IF k \in ks THEN m ELSE old[k]]
  OBVIOUS
<1>4. known' = [known EXCEPT ![n] = new]
  BY <1>2, <1>3, Zenon DEF Announce
<1>5. DOMAIN new = DOMAIN old \cup ks /\ \A k \in DOMAIN new : new[k] \in Node
  BY <1>2, <1>3 DEF LinusState, Maps
<1>6. known' = [x \in Node |-> known'[x]] /\ known'[n] = new /\ \A x \in Node : x # n => known'[x] = known[x]
  BY <1>4 DEF LinusState, Maps
<1>7. \A x \in Node : \A k \in DOMAIN known'[x] : known'[x][k] \in Node
  BY <1>5, <1>6 DEF LinusState, Maps
<1>8. \A x \in Node : DOMAIN known[x] \subseteq DOMAIN known'[x]
  BY <1>2, <1>5, <1>6
<1>9. \A x \in Node : Op(x)' = Op(x) /\ Script(x)' = Script(x)
  BY <1>1, OpKept, ScriptKept
<1>10. Maps'
  <2>1. \A x \in Node : pc[x] = "asked" => Op(x).key \in DOMAIN known'[x]
    BY <1>8 DEF LinusState, Maps
  <2> QED
    BY <1>1, <1>6, <1>7, <1>9, <2>1 DEF LinusState, Maps
<1>11. InScript'
  BY <1>1, <1>9 DEF LinusState, InScript
<1>12. Did'
  BY <1>1, <1>9 DEF LinusState, Did, DidAt
<1>13. Came'
  BY <1>1, <1>9 DEF LinusState, Came, CameBy
<1>14. AllRight'
  BY <1>1, RightKept DEF LinusState, AllRight
<1> QED
  BY <1>1, <1>10, <1>11, <1>12, <1>13, <1>14 DEF LinusState

(* The second critical section of KVStore::set. *)
LEMMA LinusSetStep ==
  ASSUME LinusState, NEW n \in Node, SetInsert(n)
  PROVE  LinusState'
<1>1. /\ pc[n] = "insert" /\ pc' = [pc EXCEPT ![n] = "ready"] /\ at' = [at EXCEPT ![n] = @ + 1]
      /\ UNCHANGED <<job, known, heard>>
  BY DEF SetInsert, Advance
<1>2. at[n] # Len(Script(n)) /\ Op(n).op = "set"
  BY <1>1 DEF LinusState, InScript
<1>3. PICK k, v, old : k = Op(n).key /\ v = Value(n, Op(n).key) /\ old = local[n]
  OBVIOUS
<1>4. PICK new : new = With(old, k, v)
  OBVIOUS
<1>5. local' = [local EXCEPT ![n] = new]
  BY <1>3, <1>4, Zenon DEF SetInsert
<1>6. local' = [x \in Node |-> local'[x]] /\ local'[n] = new /\ \A x \in Node : x # n => local'[x] = local[x]
  BY <1>5 DEF LinusState, Maps
<1>7. DOMAIN new = DOMAIN old \cup {k} /\ new[k] = v /\ \A x \in DOMAIN old : x # k => new[x] = old[x]
  BY <1>4 DEF With
<1>8. \A m \in Node : DOMAIN local[m] \subseteq DOMAIN local'[m]
  BY <1>3, <1>6, <1>7
<1>9. /\ at' \in [Node -> Nat] /\ \A m \in Node : at'[m] <= Len(Script(m))
      /\ at'[n] = at[n] + 1 /\ \A m \in Node : m # n => at'[m] = at[m]
      /\ \A m \in Node : 1..at[m] \subseteq 1..at'[m]
      /\ \A i \in 1..at'[n] : i \in 1..at[n] \/ (i = at'[n] /\ Script(n)[i] = Op(n))
      /\ at'[n] \in 1..at'[n]
  BY <1>1, <1>2, GoesOn
<1>10. pc' \in [Node -> Pc] /\ pc'[n] = "ready" /\ \A m \in Node : m # n => pc'[m] = pc[m]
  BY <1>1 DEF LinusState, InScript, Pc
<1>11. \A m : Script(m)' = Script(m)
  BY <1>1, ScriptKept
<1>12. InScript' /\ \A m \in Node : pc'[m] = "asked" => Op(m)' = Op(m) /\ Op(m).key \in DOMAIN known[m]
  BY <1>1, <1>9, <1>10, OthersStay
<1>13. Maps'
  BY <1>1, <1>6, <1>12 DEF LinusState, Maps
<1>14. Did'
  <2>1. ASSUME NEW m \in Node, NEW i \in 1..at'[m]
        PROVE  DidAt(m, i)'
    <3>1. CASE i \in 1..at[m]
      BY <1>1, <1>8, <1>11, <3>1 DEF LinusState, Did, DidAt
    <3>2. CASE i \notin 1..at[m]
      <4>1. m = n /\ Script(n)[i] = Op(n)
        BY <1>9, <3>2
      <4> QED
        BY <1>2, <1>3, <1>6, <1>7, <1>11, <4>1 DEF DidAt
    <3> QED
      BY <3>1, <3>2
  <2> QED
    BY <2>1 DEF Did
<1>15. Came'
  <2>1. Op(n) = Put(k)
    BY <1>2, <1>3, NextCall, SetsArePuts
  <2>2. Script(n)[at'[n]] = Put(k)
    <3>1. at'[n] \notin 1..at[n]
      BY <1>2, <1>9, NextCall
    <3> QED
      BY <1>9, <2>1, <3>1
  <2>3. ASSUME NEW m \in Node, NEW x \in DOMAIN local'[m]
        PROVE  \E i \in 1..at'[m] : Script(m)[i] = Put(x)
    <3>1. CASE x \in DOMAIN local[m]
      BY <1>9, <3>1 DEF LinusState, Came, CameBy
    <3>2. CASE x \notin DOMAIN local[m]
      <4>1. m = n /\ x = k
        BY <1>3, <1>6, <1>7, <2>3, <3>2
      <4> QED
        BY <1>9, <2>2, <4>1
    <3> QED
      BY <3>1, <3>2
  <2>4. \A m \in Node : \A x \in DOMAIN heard'[m] : \E o \in Node : x \in DOMAIN local'[o]
    BY <1>1, <1>8 DEF LinusState, Came
  <2> QED
    BY <1>11, <2>3, <2>4 DEF Came, CameBy
<1>16. AllRight'
  <2>1. Right(k, v)
    BY <1>2, <1>3, ValueRight
  <2>2. ASSUME NEW m \in Node, NEW x \in DOMAIN local'[m]
        PROVE  Right(x, local'[m][x])
    <3>1. CASE m = n /\ x = k
      BY <1>6, <1>7, <2>1, <3>1
    <3>2. CASE ~(m = n /\ x = k)
      <4>1. x \in DOMAIN local[m] /\ local'[m][x] = local[m][x]
        BY <1>3, <1>6, <1>7, <2>2, <3>2
      <4> QED
        BY <4>1 DEF LinusState, AllRight
    <3> QED
      BY <3>1, <3>2
  <2>3. \A m \in Node : \A x \in DOMAIN heard'[m] : Right(x, heard'[m][x])
    BY <1>1 DEF LinusState, AllRight
  <2>4. \A x, y : Right(x, y)' <=> Right(x, y)
    BY <1>1, RightKept
  <2> QED
    BY <2>2, <2>3, <2>4 DEF AllRight
<1> QED
  BY <1>1, <1>12, <1>13, <1>14, <1>15, <1>16 DEF LinusState

(* n goes on with the value it asked m for. *)
LEMMA LinusAnswerStep ==
  ASSUME LinusState, NEW n \in Node, Answer(n)
  PROVE  LinusState'
<1>1. PICK k, m : k = Op(n).key /\ m = known[n][k]
  OBVIOUS
<1>2. /\ pc[n] = "asked" /\ k \in DOMAIN local[m] /\ Hear(n, local[m][k])
      /\ pc' = [pc EXCEPT ![n] = "ready"] /\ UNCHANGED <<job, local, known>>
  BY <1>1, Zenon DEF Answer
<1>3. m \in Node /\ at[n] # Len(Script(n)) /\ Op(n).op = "wait"
  BY <1>1, <1>2 DEF LinusState, Maps, InScript
<1>4. PICK v, old : v = local[m][k] /\ old = heard[n]
  OBVIOUS
<1>5. PICK new : new = With(old, k, v)
  OBVIOUS
<1>6. heard' = [heard EXCEPT ![n] = new] /\ at' = [at EXCEPT ![n] = @ + 1]
  BY <1>1, <1>2, <1>4, <1>5, Zenon DEF Hear, Advance
<1>7. heard' = [x \in Node |-> heard'[x]] /\ heard'[n] = new /\ \A x \in Node : x # n => heard'[x] = heard[x]
  BY <1>6 DEF LinusState, Maps
<1>8. DOMAIN new = DOMAIN old \cup {k} /\ new[k] = v /\ \A x \in DOMAIN old : x # k => new[x] = old[x]
  BY <1>5 DEF With
<1>9. \A o \in Node : DOMAIN heard[o] \subseteq DOMAIN heard'[o]
  BY <1>4, <1>7, <1>8
<1>10. /\ at' \in [Node -> Nat] /\ \A o \in Node : at'[o] <= Len(Script(o))
       /\ at'[n] = at[n] + 1 /\ \A o \in Node : o # n => at'[o] = at[o]
       /\ \A o \in Node : 1..at[o] \subseteq 1..at'[o]
       /\ \A i \in 1..at'[n] : i \in 1..at[n] \/ (i = at'[n] /\ Script(n)[i] = Op(n))
  BY <1>2, <1>3, <1>6, GoesOn
<1>11. pc' \in [Node -> Pc] /\ pc'[n] = "ready" /\ \A o \in Node : o # n => pc'[o] = pc[o]
  BY <1>2 DEF LinusState, InScript, Pc
<1>12. \A o : Script(o)' = Script(o)
  BY <1>2, ScriptKept
<1>13. InScript' /\ \A o \in Node : pc'[o] = "asked" => Op(o)' = Op(o) /\ Op(o).key \in DOMAIN known[o]
  BY <1>2, <1>10, <1>11, OthersStay
<1>14. Maps'
  BY <1>2, <1>7, <1>13 DEF LinusState, Maps
<1>15. Did'
  <2>1. ASSUME NEW o \in Node, NEW i \in 1..at'[o]
        PROVE  DidAt(o, i)'
    <3>1. CASE i \in 1..at[o]
      BY <1>2, <1>9, <1>12, <3>1 DEF LinusState, Did, DidAt
    <3>2. CASE i \notin 1..at[o]
      <4>1. o = n /\ Script(n)[i] = Op(n)
        BY <1>10, <3>2
      <4> QED
        BY <1>1, <1>3, <1>7, <1>8, <1>12, <4>1 DEF DidAt
    <3> QED
      BY <3>1, <3>2
  <2> QED
    BY <2>1 DEF Did
<1>16. Came'
  <2>1. ASSUME NEW o \in Node, NEW x \in DOMAIN heard'[o]
        PROVE  \E y \in Node : x \in DOMAIN local[y]
    <3>1. CASE x \in DOMAIN heard[o]
      BY <3>1 DEF LinusState, Came
    <3>2. CASE x \notin DOMAIN heard[o]
      <4>1. x = k
        BY <1>4, <1>7, <1>8, <2>1, <3>2
      <4> QED
        BY <1>2, <1>3, <4>1
    <3> QED
      BY <3>1, <3>2
  <2>2. \A o \in Node : \A x \in DOMAIN local[o] : \E i \in 1..at'[o] : Script(o)[i] = Put(x)
    BY <1>10 DEF LinusState, Came, CameBy
  <2> QED
    BY <1>2, <1>12, <2>1, <2>2 DEF Came, CameBy
<1>17. AllRight'
  <2>1. Right(k, v)
    BY <1>2, <1>3, <1>4 DEF LinusState, AllRight
  <2>2. ASSUME NEW o \in Node, NEW x \in DOMAIN heard'[o]
        PROVE  Right(x, heard'[o][x])
    <3>1. CASE o = n /\ x = k
      BY <1>7, <1>8, <2>1, <3>1
    <3>2. CASE ~(o = n /\ x = k)
      <4>1. x \in DOMAIN heard[o] /\ heard'[o][x] = heard[o][x]
        BY <1>4, <1>7, <1>8, <2>2, <3>2
      <4> QED
        BY <4>1 DEF LinusState, AllRight
    <3> QED
      BY <3>1, <3>2
  <2>3. \A o \in Node : \A x \in DOMAIN local'[o] : Right(x, local'[o][x])
    BY <1>2 DEF LinusState, AllRight
  <2>4. \A x, y : Right(x, y)' <=> Right(x, y)
    BY <1>2, RightKept
  <2> QED
    BY <2>2, <2>3, <2>4 DEF AllRight
<1> QED
  BY <1>2, <1>13, <1>14, <1>15, <1>16, <1>17 DEF LinusState

(* The invariant holds at first. *)
LEMMA LinusInit == Init /\ job.app \in {"linus", "words"} => LinusState
<1> SUFFICES ASSUME Init, job.app \in {"linus", "words"}
             PROVE  LinusState
  OBVIOUS
<1>1. \A n \in Node : at[n] = 0 /\ pc[n] = "ready" /\ local[n] = <<>> /\ known[n] = <<>> /\ heard[n] = <<>>
  BY DEF Init
<1>2. DOMAIN <<>> = {}
  OBVIOUS
<1>3. InScript
  <2>1. ASSUME NEW n \in Node
        PROVE  at[n] <= Len(Script(n))
    <3>1. Script(n) \in Seq(Calls)
      BY ScriptsOfCalls
    <3> QED
      BY <1>1, <3>1
  <2> QED
    BY <1>1, <2>1 DEF Init, InScript, Pc
<1>4. Maps
  BY <1>1, <1>2 DEF Init, Maps
<1>5. Did
  BY <1>1 DEF Did
<1>6. Came
  BY <1>1, <1>2 DEF Came
<1>7. AllRight
  BY <1>1, <1>2 DEF AllRight
<1> QED
  BY <1>3, <1>4, <1>5, <1>6, <1>7 DEF LinusState

(* Every step keeps it that leaves frames whole. *)
LEMMA LinusStep == LinusState /\ [Next]_vars /\ ~damaged' => LinusState'
<1> SUFFICES ASSUME LinusState, [Next]_vars, ~damaged'
             PROVE  LinusState'
  OBVIOUS
<1>1. ASSUME NEW n \in Node, StartListening(n) \/ PrintResult(n) \/ RequestTeardown(n)
      PROVE  LinusState'
  <2>1. at' = [at EXCEPT ![n] = @ + 1] /\ UNCHANGED <<job, pc, local, known, heard, damaged>>
    BY <1>1 DEF StartListening, PrintResult, RequestTeardown, Advance
  <2>2. Doing(n, "listen") \/ Doing(n, "show") \/ Doing(n, "teardown")
    BY <1>1, Zenon DEF StartListening, PrintResult, RequestTeardown
  <2> QED
    BY <2>1, <2>2, LinusCallStep
<1>2. ASSUME NEW n \in Node, SetCheck(n)
      PROVE  LinusState'
  <2>1. PICK q : q = IF Op(n).key \in DOMAIN known[n] THEN "aborted" ELSE "insert"
    OBVIOUS
  <2>2. q \in Pc /\ q # "asked"
    BY <2>1 DEF Pc
  <2>3. Doing(n, "set") /\ UNCHANGED <<job, at, local, known, heard>>
    BY <1>2 DEF SetCheck
  <2>4. pc' = [pc EXCEPT ![n] = q]
    BY <1>2, <2>1, Zenon DEF SetCheck
  <2> QED
    BY <2>2, <2>3, <2>4, LinusPcStep
<1>3. ASSUME NEW n \in Node, Lookup(n)
      PROVE  LinusState'
  <2>1. Doing(n, "wait") /\ Op(n).key \in DOMAIN known[n] /\ pc' = [pc EXCEPT ![n] = "asked"]
        /\ UNCHANGED <<job, at, local, known, heard>>
    BY <1>3, Zenon DEF Lookup
  <2>2. "asked" \in Pc
    BY DEF Pc
  <2> QED
    BY <2>1, <2>2, LinusPcStep
<1>4. ASSUME NEW n \in Node, Fail(n) \/ Hang(n) \/ Dereference(n) \/ Exit(n)
      PROVE  LinusState'
  <2>1. PICK q \in {"ready", "hung", "aborted", "exited"} :
          pc' = [pc EXCEPT ![n] = q] /\ UNCHANGED <<job, at, local, known, heard>>
    BY <1>4 DEF Fail, Hang, Dereference, Exit
  <2>2. q \in Pc /\ q # "insert" /\ q # "asked"
    BY DEF Pc
  <2> QED
    BY <2>1, <2>2, LinusPcStep
<1>5. ASSUME NEW n \in Node, TimeOut(n)
      PROVE  LinusState'
  BY <1>5 DEF TimeOut, LinusState
<1>6. ASSUME UNCHANGED <<job, at, pc, local, known, heard>>
      PROVE  LinusState'
  <2>1. \A n \in Node : Op(n)' = Op(n) /\ Script(n)' = Script(n)
    BY <1>6, OpKept, ScriptKept
  <2>2. InScript'
    BY <1>6, <2>1 DEF LinusState, InScript
  <2>3. Maps'
    BY <1>6, <2>1 DEF LinusState, Maps
  <2>4. Did'
    BY <1>6, <2>1 DEF LinusState, Did, DidAt
  <2>5. Came'
    BY <1>6, <2>1 DEF LinusState, Came, CameBy
  <2>6. AllRight'
    BY <1>6, RightKept DEF LinusState, AllRight
  <2> QED
    BY <1>6, <2>2, <2>3, <2>4, <2>5, <2>6 DEF LinusState
<1>7. ASSUME NEW n \in Node, LoopEnds(n)
      PROVE  LinusState'
  BY <1>6, <1>7 DEF LoopEnds
<1>8. UNCHANGED vars => UNCHANGED <<job, at, pc, local, known, heard>>
  BY DEF vars
<1>9. \A n \in Node : ~Cut(n)
  BY DEF Cut
<1> QED
  BY <1>1, <1>2, <1>3, <1>4, <1>5, <1>6, <1>7, <1>8, <1>9, LinusSetStep, LinusAnswerStep, LinusAnnounceStep
  DEF Next, App

(* The invariant holds whenever the application is Linus or WordCount, as  *)
(* long as no frame was cut.                                               *)
Undamaged == job.app \in {"linus", "words"} /\ ~damaged => LinusState

LEMMA LinusInvariant == Spec => []Undamaged
<1>1. Init => Undamaged
  BY LinusInit DEF Undamaged
<1>2. Undamaged /\ [Next]_vars => Undamaged'
  BY LinusStep, JobKept DEF Undamaged
<1> QED
  BY <1>1, <1>2, PTL DEF Spec

(* Whoever put a key did what comes before that. *)
LEMMA PutPlaces ==
  ASSUME LinusState, NEW n \in Node, NEW k, k \in DOMAIN local[n]
  PROVE  \E i \in 1..Len(Script(n)) :
           /\ Script(n)[i] = Put(k)
           /\ \A x : Earlier(Script(n), i, Await(x)) => \E m \in Node : x \in DOMAIN local[m]
           /\ \A x : Earlier(Script(n), i, Put(x)) => x \in DOMAIN local[n]
<1>1. PICK i \in 1..at[n] : Script(n)[i] = Put(k)
  BY DEF LinusState, Came, CameBy
<1>2. at[n] \in Nat /\ at[n] <= Len(Script(n)) /\ Len(Script(n)) \in Nat
  <2>1. Script(n) \in Seq(Calls)
    BY ScriptsOfCalls DEF LinusState
  <2> QED
    BY <2>1 DEF LinusState, InScript
<1>3. i \in 1..Len(Script(n))
  BY <1>2
<1>4. ASSUME NEW j \in 1..(i - 1)
      PROVE  DidAt(n, j)
  <2>1. j \in 1..at[n]
    BY <1>2
  <2> QED
    BY <2>1 DEF LinusState, Did
<1>5. ASSUME NEW x, Earlier(Script(n), i, Await(x))
      PROVE  \E m \in Node : x \in DOMAIN local[m]
  <2>1. PICK j \in 1..(i - 1) : Script(n)[j] = Await(x)
    BY <1>5 DEF Earlier
  <2>2. x \in DOMAIN heard[n]
    BY <1>4, <2>1, CallKinds DEF DidAt
  <2> QED
    BY <2>2 DEF LinusState, Came
<1>6. ASSUME NEW x, Earlier(Script(n), i, Put(x))
      PROVE  x \in DOMAIN local[n]
  <2>1. PICK j \in 1..(i - 1) : Script(n)[j] = Put(x)
    BY <1>6 DEF Earlier
  <2> QED
    BY <1>4, <2>1, CallKinds DEF DidAt
<1> QED
  BY <1>1, <1>3, <1>5, <1>6

(* Which node of Linus puts which key, and after which waits. *)
LEMMA WhoPuts ==
  ASSUME job.app = "linus", NEW n \in Node, NEW i \in 1..Len(Script(n)), NEW k, Script(n)[i] = Put(k)
  PROVE  /\ k = Key("linus_uuid") => n = 1
         /\ \A d \in 1..Degrees : k = <<"uuids_degree_", d>> => Earlier(Script(n), i, Await(Key("linus_uuid")))
         /\ \A d \in 1..Degrees : k = <<"degree", d>> => Earlier(Script(n), i, Await(<<"uuids_degree_", d>>))
<1>1. PICK s : s = Script(n)
  OBVIOUS
<1>2. i \in 1..Len(s) /\ s[i].op = "set" /\ s[i].key = k
  BY <1>1, CallKinds
<1>3. CASE n = 1
  <2>1. s = LinusUsers(job.users)
    BY <1>1, <1>3 DEF Script
  <2>2. \/ s[i] = Put(Key("users"))
        \/ s[i] = Put(Key("linus_uuid"))
        \/ \E d \in 1..Degrees : s[i] = Put(<<"degree", d>>) /\ Earlier(s, i, Await(<<"uuids_degree_", d>>))
    BY <1>2, <2>1, UsersOrder
  <2>3. CASE s[i] = Put(Key("users")) \/ s[i] = Put(Key("linus_uuid"))
    <3>1. k = Key("users") \/ k = Key("linus_uuid")
      BY <1>2, <2>3, CallKinds
    <3> QED
      BY <1>3, <3>1 DEF Key
  <2>4. ASSUME NEW d \in 1..Degrees, s[i] = Put(<<"degree", d>>), Earlier(s, i, Await(<<"uuids_degree_", d>>))
        PROVE  /\ k # Key("linus_uuid")
               /\ \A e \in 1..Degrees : k # <<"uuids_degree_", e>>
               /\ \A e \in 1..Degrees : k = <<"degree", e>> => Earlier(s, i, Await(<<"uuids_degree_", e>>))
    <3>1. k = <<"degree", d>>
      BY <1>2, <2>4, CallKinds
    <3>2. k # Key("linus_uuid") /\ \A e \in 1..Degrees : k # <<"uuids_degree_", e>>
      BY <3>1 DEF Key
    <3>3. \A e \in 1..Degrees : k = <<"degree", e>> => e = d
      BY <3>1
    <3> QED
      BY <2>4, <3>2, <3>3
  <2>5. CASE \E d \in 1..Degrees : s[i] = Put(<<"degree", d>>) /\ Earlier(s, i, Await(<<"uuids_degree_", d>>))
    BY <1>1, <2>4, <2>5
  <2> QED
    BY <2>2, <2>3, <2>5
<1>4. CASE n = 2
  <2>1. s = LinusCommits
    BY <1>1, <1>4 DEF Script
  <2>2. FirstMove(s, i) \/ \E d \in 1..Degrees : UuidsMove(s, i, d) \/ ProjectsMove(s, i, d)
    BY <1>2, <2>1, CommitsOrder
  <2>3. \/ k = Key("commits")
        \/ k = Key("linus_projects")
        \/ \E d \in 1..Degrees : k = <<"uuids_degree_", d>> /\ Earlier(s, i, Await(Key("linus_uuid")))
        \/ \E d \in 1..Degrees : k = <<"projects_degree_", d>>
    <3>1. CASE FirstMove(s, i)
      BY <1>2, <3>1, CallKinds DEF FirstMove
    <3>2. ASSUME NEW d \in 1..Degrees, UuidsMove(s, i, d)
          PROVE  k = <<"uuids_degree_", d>> /\ Earlier(s, i, Await(Key("linus_uuid")))
      <4>1. s[i] = Put(<<"uuids_degree_", d>>) /\ Earlier(s, i, Await(Key("linus_uuid")))
        BY <3>2 DEF UuidsMove
      <4> QED
        BY <1>2, <4>1, CallKinds
    <3>3. ASSUME NEW d \in 1..Degrees, ProjectsMove(s, i, d)
          PROVE  k = <<"projects_degree_", d>>
      BY <1>2, <3>3, CallKinds DEF ProjectsMove
    <3> QED
      BY <2>2, <3>1, <3>2, <3>3
  <2>4. k # Key("linus_uuid")
    BY <2>3 DEF Key
  <2>5. ASSUME NEW d \in 1..Degrees, k = <<"uuids_degree_", d>>
        PROVE  Earlier(s, i, Await(Key("linus_uuid")))
    BY <2>3, <2>5 DEF Key
  <2>6. \A d \in 1..Degrees : k # <<"degree", d>>
    BY <2>3 DEF Key
  <2> QED
    BY <1>1, <2>4, <2>5, <2>6
<1>5. CASE n = 3
  <2>1. s = LinusProjects
    BY <1>1, <1>5 DEF Script
  <2>2. PICK a, b : a = Put(Key("projects")) /\ b = Listen
    OBVIOUS
  <2>3. s = <<a, b>>
    BY <2>1, <2>2 DEF LinusProjects
  <2>4. i \in {1, 2} /\ s[1] = a /\ s[2] = b
    BY <1>2, <2>3
  <2>5. k = Key("projects")
    BY <1>2, <2>2, <2>4, CallKinds
  <2> QED
    BY <2>5 DEF Key
<1> QED
  BY <1>3, <1>4, <1>5, NodeSpelled

(* The names that Linus::_users stores and prints for degree d are those   *)
(* of the users at most d joint projects away from the user called         *)
(* torvalds, however many degrees, users and commits there are and in      *)
(* whatever order the three nodes come to know the keys, unless a part of  *)
(* a frame was lost.                                                       *)
THEOREM DegreesAlwaysBalls == Spec => []DegreesAreBalls
<1>1. Undamaged => DegreesAreBalls
  <2> SUFFICES ASSUME LinusState, job.app = "linus", NEW d \in 1..Degrees, <<"degree", d>> \in DOMAIN local[1]
               PROVE  \E linus \in local[1][Key("linus_uuid")] :
                        local[1][<<"degree", d>>] =
                          {u.name : u \in {u \in ToSet(job.users) : Within(d, linus, u.uuid)}}
    BY DEF DegreesAreBalls, Undamaged
  <2>1. PICK ids, own, names : ids = <<"uuids_degree_", d>> /\ own = Key("linus_uuid") /\ names = <<"degree", d>>
    OBVIOUS
  <2>2. PICK n \in Node : ids \in DOMAIN local[n]
    <3>1. 1 \in Node
      BY DEF Node
    <3>2. PICK i \in 1..Len(Script(1)) :
            /\ Script(1)[i] = Put(names)
            /\ \A x : Earlier(Script(1), i, Await(x)) => \E m \in Node : x \in DOMAIN local[m]
      BY <2>1, <3>1, PutPlaces
    <3>3. Earlier(Script(1), i, Await(ids))
      BY <2>1, <3>1, <3>2, WhoPuts
    <3> QED
      BY <3>2, <3>3
  <2>3. PICK m \in Node : own \in DOMAIN local[m]
    <3>1. PICK i \in 1..Len(Script(n)) :
            /\ Script(n)[i] = Put(ids)
            /\ \A x : Earlier(Script(n), i, Await(x)) => \E o \in Node : x \in DOMAIN local[o]
      BY <2>2, PutPlaces
    <3>2. Earlier(Script(n), i, Await(own))
      BY <2>1, <3>1, WhoPuts
    <3> QED
      BY <3>1, <3>2
  <2>4. own \in DOMAIN local[1]
    <3>1. PICK i \in 1..Len(Script(m)) : Script(m)[i] = Put(own)
      BY <2>3, PutPlaces
    <3>2. m = 1
      BY <2>1, <3>1, WhoPuts
    <3> QED
      BY <2>3, <3>2
  <2>5. 1 \in Node
    BY DEF Node
  <2>6. local[1][own] = {Linus}
    BY <2>1, <2>4, <2>5 DEF LinusState, AllRight, Right
  <2>7. PICK v : v = local[1][names]
    OBVIOUS
  <2>8. RightNames(v, d)
    BY <2>1, <2>5, <2>7 DEF LinusState, AllRight, Right
  <2>9. PICK w : Ball(w, d) /\ v = NamesOf(w, job.users)
    BY <2>8 DEF RightNames
  <2>10. v = {u.name : u \in {u \in ToSet(job.users) : Within(d, Linus, u.uuid)}}
    <3>1. {u \in ToSet(job.users) : u.uuid \in w} = {u \in ToSet(job.users) : Within(d, Linus, u.uuid)}
      BY <2>9 DEF Ball
    <3> QED
      BY <2>9, <3>1 DEF NamesOf
  <2> QED
    BY <2>1, <2>6, <2>7, <2>10
<1> QED
  BY <1>1, LinusInvariant, PTL

----------------------------------------------------------------------------
(* WordCount: what is read.                                                *)

(* The step of ReadInFile.                                                 *)
ReadChar(s, c) ==
  IF c # Blank THEN [s EXCEPT !.word = Append(@, c)]
  ELSE IF s.word # <<>>
       THEN [words |-> Append(s.words, s.word), word |-> <<>>]
  ELSE s

Chars == INSTANCE InductionLemmas WITH Combine <- ReadChar

(* Nothing is read yet.                                                    *)
Unread == [words |-> <<>>, word |-> <<>>]

(* ReadInFile is the fold of its step.                                     *)
LEMMA ReadUnfolds ==
  ASSUME NEW text
  PROVE  ReadInFile(text) = Chars!Fold(Unread, FlattenSeq(text)).words
BY DEF ReadInFile, ReadChar, Unread, Chars!Fold, FoldLeft, MapThenFoldSet, Chars!Top, Max

(* Where the words of a text are, and the word that is there. *)
Spots(text) == UNION {{l} \X Words(text[l]) : l \in DOMAIN text}
WordAt(text, t) == SubSeq(text[t[1]], t[2][1], t[2][2])

(* g has the words of ws at the places of D, each at its own. *)
Pairs(g, ws, D, text) ==
  /\ \A k \in 1..Len(ws) : g[k] \in D /\ WordAt(text, g[k]) = ws[k]
  /\ \A k, m \in 1..Len(ws) : g[k] = g[m] => k = m
  /\ \A t \in D : \E k \in 1..Len(ws) : g[k] = t

Paired(ws, D, text) == \E g : Pairs(g, ws, D, text)

(* One word more at one place more. *)
LEMMA PairedMore ==
  ASSUME NEW W, NEW ws \in Seq(W), NEW w \in W, NEW D, NEW text, NEW t, t \notin D, WordAt(text, t) = w,
         Paired(ws, D, text), NEW E, E = D \cup {t}
  PROVE  Paired(Append(ws, w), E, text)
<1>1. PICK g : Pairs(g, ws, D, text)
  BY DEF Paired
<1>2. PICK n \in Nat : n = Len(ws)
  BY LenProperties
<1>3. PICK more : more = Append(ws, w)
  OBVIOUS
<1>4. Len(more) = n + 1 /\ more[n + 1] = w /\ \A k \in 1..n : more[k] = ws[k]
  BY <1>2, <1>3
<1>5. PICK h : h = [k \in 1..(n + 1) |-> IF k = n + 1 THEN t ELSE g[k]]
  OBVIOUS
<1>6. h[n + 1] = t /\ \A k \in 1..n : h[k] = g[k]
  BY <1>5
<1>7. /\ \A k \in 1..n : g[k] \in D /\ WordAt(text, g[k]) = ws[k]
      /\ \A k, m \in 1..n : g[k] = g[m] => k = m
      /\ \A x \in D : \E k \in 1..n : g[k] = x
  BY <1>1, <1>2 DEF Pairs
<1>8. ASSUME NEW k \in 1..(n + 1)
      PROVE  h[k] \in E /\ WordAt(text, h[k]) = more[k] /\ (k # n + 1 => h[k] \in D)
  <2>1. k = n + 1 \/ k \in 1..n
    OBVIOUS
  <2> QED
    BY <1>4, <1>6, <1>7, <2>1
<1>9. ASSUME NEW k \in 1..(n + 1), NEW m \in 1..(n + 1), h[k] = h[m]
      PROVE  k = m
  <2>1. (k = n + 1 \/ k \in 1..n) /\ (m = n + 1 \/ m \in 1..n)
    OBVIOUS
  <2> QED
    BY <1>6, <1>7, <1>9, <2>1
<1>10. ASSUME NEW x \in E
       PROVE  \E k \in 1..(n + 1) : h[k] = x
  <2>1. CASE x = t
    <3>1. n + 1 \in 1..(n + 1)
      OBVIOUS
    <3> QED
      BY <1>6, <2>1, <3>1
  <2>2. CASE x \in D
    <3>1. PICK k \in 1..n : g[k] = x
      BY <1>7, <2>2
    <3>2. k \in 1..(n + 1)
      OBVIOUS
    <3> QED
      BY <1>6, <3>1, <3>2
  <2> QED
    BY <2>1, <2>2
<1>11. Pairs(h, more, E, text)
  BY <1>4, <1>8, <1>9, <1>10 DEF Pairs
<1> QED
  BY <1>3, <1>11 DEF Paired

(* How often w is among ws, and among the words at the places of D.        *)
Often(ws, w) == Cardinality({i \in DOMAIN ws : ws[i] = w})
OftenAt(D, text, w) == Cardinality({t \in D : WordAt(text, t) = w})

(* A word is as often in ws as at the places. *)
LEMMA PairedCounts ==
  ASSUME NEW W, NEW ws \in Seq(W), NEW D, NEW text, Paired(ws, D, text), NEW w
  PROVE  Often(ws, w) = OftenAt(D, text, w)
<1>1. PICK g : Pairs(g, ws, D, text)
  BY DEF Paired
<1>2. PICK n \in Nat : n = Len(ws)
  BY LenProperties
<1>3. /\ \A k \in 1..n : g[k] \in D /\ WordAt(text, g[k]) = ws[k]
      /\ \A k, m \in 1..n : g[k] = g[m] => k = m
      /\ \A x \in D : \E k \in 1..n : g[k] = x
  BY <1>1, <1>2 DEF Pairs
<1>4. PICK A, B : A = {i \in DOMAIN ws : ws[i] = w} /\ B = {t \in D : WordAt(text, t) = w}
  OBVIOUS
<1>5. \A i : i \in A <=> i \in 1..n /\ ws[i] = w
  BY <1>2, <1>4
<1>6. PICK h : h = [i \in A |-> g[i]]
  OBVIOUS
<1>7. h \in [A -> B]
  BY <1>3, <1>4, <1>5, <1>6
<1>8. \A i, j \in A : h[i] = h[j] => i = j
  BY <1>3, <1>5, <1>6
<1>9. \A t \in B : \E i \in A : h[i] = t
  BY <1>3, <1>4, <1>5, <1>6
<1>10. ExistsBijection(A, B)
  <2>1. h \in Bijection(A, B)
    BY <1>7, <1>8, <1>9 DEF Bijection, Injection, Surjection, IsInjective
  <2> QED
    BY <2>1 DEF ExistsBijection
<1>11. IsFiniteSet(A)
  <2>1. IsFiniteSet(1..n)
    BY FS_Interval
  <2>2. A \subseteq 1..n
    BY <1>5
  <2> QED
    BY <2>1, <2>2, FS_Subset
<1>12. Cardinality(A) = Cardinality(B)
  BY <1>10, <1>11, FS_Bijection
<1> QED
  BY <1>4, <1>12 DEF Often, OftenAt

(* The words in ws are those at the places. *)
LEMMA PairedWords ==
  ASSUME NEW W, NEW ws \in Seq(W), NEW D, NEW text, Paired(ws, D, text)
  PROVE  ToSet(ws) = {WordAt(text, t) : t \in D}
<1>1. PICK g : Pairs(g, ws, D, text)
  BY DEF Paired
<1>2. DOMAIN ws = 1..Len(ws)
  OBVIOUS
<1>3. ASSUME NEW w \in ToSet(ws)
      PROVE  \E t \in D : w = WordAt(text, t)
  BY <1>1, <1>2 DEF ToSet, Pairs
<1>4. ASSUME NEW t \in D
      PROVE  WordAt(text, t) \in ToSet(ws)
  BY <1>1, <1>2 DEF ToSet, Pairs
<1> QED
  BY <1>3, <1>4

(* The words that have ended when q characters of line l have been read. *)
Ended(text, l, q) == {t \in Spots(text) : t[1] < l \/ (t[1] = l /\ t[2][2] < q)}

(* What is being read is a word that begins at its place in the line. *)
WordSoFar(line, word, q) ==
  /\ Len(word) <= q
  /\ \A k \in 1..Len(word) : word[k] = line[q - Len(word) + k] /\ word[k] # Blank
  /\ q = Len(word) \/ line[q - Len(word)] = Blank

(* What has been read when q characters of line l have.                    *)
Reading(text, s, l, q) ==
  /\ s = [words |-> s.words, word |-> s.word]
  /\ s.words \in Seq(Seq(Char)) /\ s.word \in Seq(Char)
  /\ Paired(s.words, Ended(text, l, q), text)
  /\ WordSoFar(text[l], s.word, q)

(* The place of a word in its text. *)
LEMMA SpotsSpelled ==
  ASSUME NEW text, NEW n \in Nat, DOMAIN text = 1..n, NEW t
  PROVE  t \in Spots(text) <=>
           /\ t = <<t[1], <<t[2][1], t[2][2]>> >>
           /\ t[1] \in 1..n /\ <<t[2][1], t[2][2]>> \in Words(text[t[1]])
<1>1. ASSUME t \in Spots(text)
      PROVE  /\ t = <<t[1], <<t[2][1], t[2][2]>> >>
             /\ t[1] \in 1..n /\ <<t[2][1], t[2][2]>> \in Words(text[t[1]])
  <2>1. PICK l \in 1..n : t \in {l} \X Words(text[l])
    BY <1>1 DEF Spots
  <2>2. t = <<t[1], t[2]>> /\ t[1] = l /\ t[2] \in Words(text[l])
    BY <2>1
  <2>3. t[2] \in (DOMAIN text[l]) \X (DOMAIN text[l])
    BY <2>2 DEF Words
  <2>4. t[2] = <<t[2][1], t[2][2]>>
    BY <2>3
  <2> QED
    BY <2>2, <2>4
<1>2. ASSUME t = <<t[1], <<t[2][1], t[2][2]>> >>, t[1] \in 1..n, <<t[2][1], t[2][2]>> \in Words(text[t[1]])
      PROVE  t \in Spots(text)
  <2>1. t \in {t[1]} \X Words(text[t[1]])
    BY <1>2
  <2> QED
    BY <1>2, <2>1 DEF Spots
<1> QED
  BY <1>1, <1>2

(* Where a word is: from i to j, between blanks or the ends of the line. *)
IsWord(line, i, j) ==
  /\ i \in 1..Len(line) /\ j \in 1..Len(line) /\ i <= j /\ \A k \in i..j : line[k] # Blank
  /\ i = 1 \/ line[i - 1] = Blank
  /\ j = Len(line) \/ line[j + 1] = Blank

(* These are the pairs in Words. *)
LEMMA WordsSpelled ==
  ASSUME NEW S, NEW line \in Seq(S), NEW i, NEW j
  PROVE  <<i, j>> \in Words(line) <=> IsWord(line, i, j)
<1>1. PICK p : p = <<i, j>>
  OBVIOUS
<1>2. p[1] = i /\ p[2] = j
  BY <1>1
<1>3. p \in (DOMAIN line) \X (DOMAIN line) <=> i \in 1..Len(line) /\ j \in 1..Len(line)
  BY <1>1
<1>4. p \in Words(line) <=>
        /\ p \in (DOMAIN line) \X (DOMAIN line)
        /\ p[1] <= p[2] /\ \A k \in p[1]..p[2] : line[k] # Blank
        /\ p[1] = 1 \/ line[p[1] - 1] = Blank
        /\ p[2] = Len(line) \/ line[p[2] + 1] = Blank
  BY DEF Words
<1> QED
  BY <1>1, <1>2, <1>3, <1>4 DEF IsWord

(* A character that is no blank goes on with the word. *)
LEMMA LetterRead ==
  ASSUME NEW line \in Seq(Char), NEW word \in Seq(Char), NEW q \in Nat, q < Len(line),
         WordSoFar(line, word, q), line[q + 1] # Blank, NEW next, next = Append(word, line[q + 1])
  PROVE  next \in Seq(Char) /\ WordSoFar(line, next, q + 1)
<1>1. PICK m \in Nat : m = Len(word)
  BY LenProperties
<1>2. q + 1 \in 1..Len(line) /\ line[q + 1] \in Char
  BY LenProperties
<1>3. next \in Seq(Char) /\ Len(next) = m + 1 /\ next[m + 1] = line[q + 1] /\ \A k \in 1..m : next[k] = word[k]
  BY <1>1, <1>2
<1>4. /\ m <= q /\ (q = m \/ line[q - m] = Blank)
      /\ \A k \in 1..m : word[k] = line[q - m + k] /\ word[k] # Blank
  BY <1>1 DEF WordSoFar
<1>5. (q + 1) - (m + 1) = q - m
  BY <1>1
<1>6. ASSUME NEW k \in 1..(m + 1)
      PROVE  next[k] = line[(q + 1) - (m + 1) + k] /\ next[k] # Blank
  <2>1. CASE k = m + 1
    <3>1. (q + 1) - (m + 1) + k = q + 1
      BY <2>1
    <3> QED
      BY <1>3, <2>1, <3>1
  <2>2. CASE k # m + 1
    <3>1. k \in 1..m
      BY <2>2
    <3> QED
      BY <1>3, <1>4, <1>5, <3>1
  <2> QED
    BY <2>1, <2>2
<1> QED
  BY <1>3, <1>4, <1>5, <1>6 DEF WordSoFar

(* What is being read is, at a blank, the one word that ends there. *)
LEMMA WordEnds ==
  ASSUME NEW line \in Seq(Char), NEW word \in Seq(Char), NEW q \in Nat, q < Len(line),
         WordSoFar(line, word, q), line[q + 1] = Blank
  PROVE  /\ \A i : IsWord(line, i, q) <=> word # <<>> /\ i = q - Len(word) + 1
         /\ word # <<>> => word = SubSeq(line, q - Len(word) + 1, q)
<1>1. PICK m \in Nat : m = Len(word)
  BY LenProperties
<1>2. PICK z \in Nat : z = Len(line)
  BY LenProperties
<1>3. word = <<>> <=> m = 0
  BY <1>1
<1>4. /\ m <= q /\ (q = m \/ line[q - m] = Blank)
      /\ \A k \in 1..m : word[k] = line[q - m + k] /\ word[k] # Blank
  BY <1>1 DEF WordSoFar
<1>5. \A x \in (q - m + 1)..q : line[x] # Blank
  <2> SUFFICES ASSUME NEW x \in (q - m + 1)..q
               PROVE  line[x] # Blank
    OBVIOUS
  <2>1. x - (q - m) \in 1..m /\ q - m + (x - (q - m)) = x
    BY <1>4
  <2> QED
    BY <1>4, <2>1
<1>6. ASSUME NEW i, IsWord(line, i, q)
      PROVE  m # 0 /\ i = q - m + 1
  <2>1. /\ i \in 1..z /\ q \in 1..z /\ i <= q /\ (i = 1 \/ line[i - 1] = Blank)
        /\ \A k \in i..q : line[k] # Blank
    BY <1>2, <1>6 DEF IsWord
  <2>2. q \in i..q
    BY <2>1
  <2>3. m # 0
    BY <1>4, <2>1, <2>2
  <2>4. ~(i < q - m + 1)
    <3> SUFFICES ASSUME i < q - m + 1
                 PROVE  FALSE
      OBVIOUS
    <3>1. q - m \in i..q /\ q # m
      BY <2>1
    <3> QED
      BY <1>4, <2>1, <3>1
  <2>5. ~(i > q - m + 1)
    <3> SUFFICES ASSUME i > q - m + 1
                 PROVE  FALSE
      OBVIOUS
    <3>1. i - 1 \in (q - m + 1)..q /\ i # 1
      BY <1>4, <2>1
    <3> QED
      BY <1>5, <2>1, <3>1
  <2> QED
    BY <2>1, <2>3, <2>4, <2>5
<1>7. ASSUME m # 0
      PROVE  IsWord(line, q - m + 1, q)
  <2>1. q - m + 1 \in 1..z /\ q \in 1..z /\ q - m + 1 <= q
    BY <1>2, <1>4, <1>7
  <2>2. q - m + 1 = 1 \/ line[(q - m + 1) - 1] = Blank
    BY <1>4
  <2> QED
    BY <1>2, <1>5, <2>1, <2>2 DEF IsWord
<1>8. ASSUME m # 0
      PROVE  word = SubSeq(line, q - m + 1, q)
  <2>1. q - m + 1 \in 1..z /\ q \in 1..z
    BY <1>2, <1>4, <1>8
  <2>2. PICK sub : sub = SubSeq(line, q - m + 1, q)
    OBVIOUS
  <2>3. sub \in Seq(Char) /\ Len(sub) = m /\ \A k \in 1..m : sub[k] = line[q - m + k]
    <3>1. PICK b \in Nat : b = q - m + 1
      BY <1>4
    <3>2. b \in 1..Len(line) /\ q \in 1..Len(line) /\ b <= q /\ q - b + 1 = m
      BY <1>2, <1>8, <2>1, <3>1
    <3>3. \A x \in b..q : line[x] \in Char
      <4>1. \A x \in b..q : x \in 1..Len(line)
        BY <1>2, <3>1, <3>2
      <4> QED
        BY <4>1
    <3>4. /\ SubSeq(line, b, q) \in Seq(Char)
          /\ Len(SubSeq(line, b, q)) = IF b <= q THEN q - b + 1 ELSE 0
          /\ \A k \in 1..(q - b + 1) : SubSeq(line, b, q)[k] = line[b + k - 1]
      BY <3>3, SubSeqProperties
    <3>5. \A k \in 1..m : b + k - 1 = q - m + k
      BY <3>1
    <3> QED
      BY <2>2, <3>1, <3>2, <3>4, <3>5
  <2>4. \A k \in 1..m : word[k] = sub[k]
    BY <1>4, <2>3
  <2> QED
    BY <1>1, <2>2, <2>3, <2>4, SeqEqual
<1> QED
  BY <1>1, <1>3, <1>6, <1>7, <1>8

(* No word is being read where a line begins and after a blank. *)
LEMMA NoWord ==
  ASSUME NEW line, NEW word, word = <<>>, NEW q \in Nat, q = 0 \/ line[q] = Blank
  PROVE  WordSoFar(line, word, q)
<1>1. PICK m \in Nat : m = Len(word) /\ m = 0
  <2>1. Len(word) = 0
    OBVIOUS
  <2> QED
    BY <2>1
<1>2. m <= q /\ (q = m \/ line[q - m] = Blank) /\ \A k \in 1..m : word[k] = line[q - m + k] /\ word[k] # Blank
  <2>1. m <= q /\ q - m = q
    BY <1>1
  <2>2. \A k \in 1..m : FALSE
    BY <1>1
  <2> QED
    BY <1>1, <2>1, <2>2
<1> QED
  BY <1>1, <1>2 DEF WordSoFar

(* Which words end with one character more. *)
LEMMA EndedMore ==
  ASSUME NEW text \in Seq(Seq(Char)), NEW l \in 1..Len(text), NEW q \in Nat, NEW t
  PROVE  t \in Ended(text, l, q + 1) <=>
           t \in Ended(text, l, q) \/ (t = <<l, <<t[2][1], q>> >> /\ IsWord(text[l], t[2][1], q))
<1>1. PICK n \in Nat : n = Len(text) /\ DOMAIN text = 1..n
  BY LenProperties
<1>2. t \in Spots(text) <=>
        /\ t = <<t[1], <<t[2][1], t[2][2]>> >>
        /\ t[1] \in 1..n /\ <<t[2][1], t[2][2]>> \in Words(text[t[1]])
  BY <1>1, SpotsSpelled
<1>3. text[l] \in Seq(Char)
  OBVIOUS
<1>4. ASSUME t \in Ended(text, l, q + 1), t \notin Ended(text, l, q)
      PROVE  t = <<l, <<t[2][1], q>> >> /\ IsWord(text[l], t[2][1], q)
  <2>1. t \in Spots(text) /\ t[1] = l /\ t[2][2] < q + 1 /\ ~(t[2][2] < q)
    BY <1>4 DEF Ended
  <2>2. <<t[2][1], t[2][2]>> \in Words(text[l])
    BY <1>2, <2>1
  <2>3. IsWord(text[l], t[2][1], t[2][2])
    BY <1>3, <2>2, WordsSpelled
  <2>4. t[2][2] \in 1..Len(text[l])
    BY <2>3 DEF IsWord
  <2>5. t[2][2] = q
    BY <2>1, <2>4
  <2> QED
    BY <1>2, <2>1, <2>3, <2>5
<1>5. ASSUME t = <<l, <<t[2][1], q>> >>, IsWord(text[l], t[2][1], q)
      PROVE  t \in Ended(text, l, q + 1)
  <2>1. t[1] = l /\ t[2][2] = q
    BY <1>5
  <2>2. <<t[2][1], q>> \in Words(text[l])
    BY <1>3, <1>5, WordsSpelled
  <2>3. t \in Spots(text)
    BY <1>1, <1>2, <1>5, <2>1, <2>2
  <2> QED
    BY <2>1, <2>3 DEF Ended
<1>6. ASSUME t \in Ended(text, l, q)
      PROVE  t \in Ended(text, l, q + 1)
  <2>1. t \in Spots(text) /\ (t[1] < l \/ (t[1] = l /\ t[2][2] < q))
    BY <1>6 DEF Ended
  <2>2. CASE t[1] < l
    BY <2>1, <2>2 DEF Ended
  <2>3. CASE t[1] = l /\ t[2][2] < q
    <3>1. <<t[2][1], t[2][2]>> \in Words(text[l])
      BY <1>2, <2>1, <2>3
    <3>2. IsWord(text[l], t[2][1], t[2][2])
      BY <1>3, <3>1, WordsSpelled
    <3>3. t[2][2] \in 1..Len(text[l])
      BY <3>2 DEF IsWord
    <3>4. t[2][2] < q + 1
      BY <2>3, <3>3
    <3> QED
      BY <2>1, <2>3, <3>4 DEF Ended
  <2> QED
    BY <2>1, <2>2, <2>3
<1> QED
  BY <1>4, <1>5, <1>6

(* One character is read. *)
LEMMA CharRead ==
  ASSUME NEW text \in Seq(Seq(Char)), NEW l \in 1..Len(text), NEW q \in Nat, q < Len(text[l]),
         NEW s, Reading(text, s, l, q), NEW next, next = ReadChar(s, text[l][q + 1])
  PROVE  Reading(text, next, l, q + 1)
<1>1. PICK line \in Seq(Char) : line = text[l]
  OBVIOUS
<1>2. PICK ws \in Seq(Seq(Char)), wd \in Seq(Char) : ws = s.words /\ wd = s.word
  BY DEF Reading
<1>3. s = [words |-> ws, word |-> wd] /\ Paired(ws, Ended(text, l, q), text) /\ WordSoFar(line, wd, q)
  BY <1>1, <1>2 DEF Reading
<1>4. PICK c : c = line[q + 1]
  OBVIOUS
<1>5. next = ReadChar(s, c)
  BY <1>1, <1>4
<1>6. PICK D, E : D = Ended(text, l, q) /\ E = Ended(text, l, q + 1)
  OBVIOUS
<1>7. \A t : t \in E <=> t \in D \/ (t = <<l, <<t[2][1], q>> >> /\ IsWord(line, t[2][1], q))
  <2> SUFFICES ASSUME NEW t
               PROVE  t \in Ended(text, l, q + 1) <=>
                        t \in Ended(text, l, q) \/ (t = <<l, <<t[2][1], q>> >> /\ IsWord(text[l], t[2][1], q))
    BY <1>1, <1>6
  <2> QED
    BY EndedMore
<1>8. CASE c # Blank
  <2>1. PICK w : w = Append(wd, c)
    OBVIOUS
  <2>2. next = [words |-> ws, word |-> w]
    BY <1>3, <1>5, <1>8, <2>1 DEF ReadChar
  <2>3. w \in Seq(Char) /\ WordSoFar(line, w, q + 1)
    BY <1>1, <1>3, <1>4, <1>8, <2>1, LetterRead
  <2>4. \A i : ~IsWord(line, i, q)
    BY <1>1, <1>4, <1>8 DEF IsWord
  <2>5. E = D
    BY <1>7, <2>4
  <2> QED
    BY <1>1, <1>3, <1>6, <2>2, <2>3, <2>5 DEF Reading
<1>9. CASE c = Blank
  <2>1. /\ \A i : IsWord(line, i, q) <=> wd # <<>> /\ i = q - Len(wd) + 1
        /\ wd # <<>> => wd = SubSeq(line, q - Len(wd) + 1, q)
    BY <1>1, <1>3, <1>4, <1>9, WordEnds
  <2>2. PICK none \in Seq(Char) : none = <<>>
    BY EmptySeq
  <2>4. WordSoFar(line, none, q + 1)
    <3>1. PICK p \in Nat : p = q + 1
      OBVIOUS
    <3>2. line[p] = Blank
      BY <1>4, <1>9, <3>1
    <3>3. WordSoFar(line, none, p)
      BY <2>2, <3>2, NoWord
    <3> QED
      BY <3>1, <3>3
  <2>5. CASE wd = none
    <3>1. next = s
      BY <1>3, <1>5, <1>9, <2>2, <2>5 DEF ReadChar
    <3>2. E = D
      BY <1>7, <2>1, <2>2, <2>5
    <3> QED
      BY <1>1, <1>2, <1>3, <1>6, <2>4, <2>5, <3>1, <3>2 DEF Reading
  <2>6. CASE wd # none
    <3>1. PICK more : more = Append(ws, wd)
      OBVIOUS
    <3>2. next = [words |-> more, word |-> none]
      BY <1>3, <1>5, <1>9, <2>2, <2>6, <3>1 DEF ReadChar
    <3>3. PICK i : i = q - Len(wd) + 1
      OBVIOUS
    <3>4. PICK t : t = <<l, <<i, q>> >>
      OBVIOUS
    <3>5. t[1] = l /\ t[2][1] = i /\ t[2][2] = q
      BY <3>4
    <3>6. E = D \cup {t}
      BY <1>7, <2>1, <2>2, <2>6, <3>3, <3>4, <3>5
    <3>7. t \notin D
      BY <1>6, <3>5 DEF Ended
    <3>8. WordAt(text, t) = wd
      BY <1>1, <2>1, <2>2, <2>6, <3>3, <3>5 DEF WordAt
    <3>9. Paired(more, E, text)
      BY <1>3, <1>6, <3>1, <3>6, <3>7, <3>8, PairedMore
    <3>10. more \in Seq(Seq(Char))
      BY <3>1
    <3> QED
      BY <1>1, <1>6, <2>4, <3>2, <3>9, <3>10 DEF Reading
  <2> QED
    BY <2>5, <2>6
<1> QED
  BY <1>8, <1>9

(* Whole lines have been read. *)
LinesRead(text, s, l) ==
  /\ s = [words |-> s.words, word |-> <<>>] /\ s.words \in Seq(Seq(Char))
  /\ Paired(s.words, {t \in Spots(text) : t[1] <= l}, text)

(* The next line begins ... *)
LEMMA LineBegins ==
  ASSUME NEW text \in Seq(Seq(Char)), NEW l \in Nat, l + 1 \in 1..Len(text), NEW s, LinesRead(text, s, l)
  PROVE  Reading(text, s, l + 1, 0)
<1>1. PICK n \in Nat : n = Len(text) /\ DOMAIN text = 1..n
  BY LenProperties
<1>2. {t \in Spots(text) : t[1] <= l} = Ended(text, l + 1, 0)
  <2> SUFFICES ASSUME NEW t \in Spots(text)
               PROVE  t[1] <= l <=> t[1] < l + 1 \/ (t[1] = l + 1 /\ t[2][2] < 0)
    BY DEF Ended
  <2>1. t[1] \in 1..n /\ <<t[2][1], t[2][2]>> \in Words(text[t[1]])
    BY <1>1, SpotsSpelled
  <2>2. text[t[1]] \in Seq(Char)
    BY <1>1, <2>1
  <2>3. IsWord(text[t[1]], t[2][1], t[2][2])
    BY <2>1, <2>2, WordsSpelled
  <2>4. t[2][2] \in 1..Len(text[t[1]])
    BY <2>3 DEF IsWord
  <2>5. t[2][2] \in Int /\ ~(t[2][2] < 0)
    BY <2>4
  <2>6. t[1] \in Int
    BY <2>1
  <2> QED
    BY <2>5, <2>6
<1>3. PICK none \in Seq(Char) : none = <<>>
  BY EmptySeq
<1>5. WordSoFar(text[l + 1], none, 0)
  BY <1>3, NoWord
<1>6. s.word = none /\ s.words \in Seq(Seq(Char)) /\ s = [words |-> s.words, word |-> s.word]
  BY <1>3 DEF LinesRead
<1> QED
  BY <1>2, <1>5, <1>6 DEF Reading, LinesRead

(* ... and ends, in a blank. *)
LEMMA LineEnds ==
  ASSUME NEW text \in Seq(Seq(Char)), NEW l \in 1..Len(text), NEW s, NEW q, q = Len(text[l]),
         Reading(text, s, l, q), q # 0 => text[l][q] = Blank
  PROVE  LinesRead(text, s, l)
<1>1. PICK n \in Nat : n = Len(text) /\ DOMAIN text = 1..n
  BY LenProperties
<1>2. PICK line \in Seq(Char) : line = text[l]
  OBVIOUS
<1>3. q \in Nat
  BY <1>2, LenProperties
<1>4. Ended(text, l, q) = {t \in Spots(text) : t[1] <= l}
  <2> SUFFICES ASSUME NEW t \in Spots(text)
               PROVE  t[1] <= l <=> t[1] < l \/ (t[1] = l /\ t[2][2] < q)
    BY DEF Ended
  <2>1. t[1] \in 1..n /\ <<t[2][1], t[2][2]>> \in Words(text[t[1]])
    BY <1>1, SpotsSpelled
  <2>2. ASSUME t[1] = l
        PROVE  t[2][2] < q
    <3>1. IsWord(line, t[2][1], t[2][2])
      BY <1>2, <2>1, <2>2, WordsSpelled
    <3>2. /\ t[2][1] \in 1..q /\ t[2][2] \in 1..q /\ t[2][1] <= t[2][2]
          /\ \A k \in t[2][1]..t[2][2] : line[k] # Blank
      BY <1>2, <3>1 DEF IsWord
    <3>3. t[2][2] \in t[2][1]..t[2][2]
      BY <3>2
    <3>4. t[2][2] # q
      BY <1>2, <1>3, <3>2, <3>3
    <3> QED
      BY <1>3, <3>2, <3>4
  <2> QED
    BY <2>1, <2>2
<1>5. PICK wd \in Seq(Char) : wd = s.word
  BY DEF Reading
<1>6. PICK m \in Nat : m = Len(wd)
  BY LenProperties
<1>7. m <= q /\ \A k \in 1..m : wd[k] = line[q - m + k] /\ wd[k] # Blank
  BY <1>2, <1>5, <1>6 DEF Reading, WordSoFar
<1>8. m = 0
  <2> SUFFICES ASSUME m # 0
               PROVE  FALSE
    OBVIOUS
  <2>1. m \in 1..m /\ q - m + m = q /\ q # 0
    BY <1>3, <1>7
  <2> QED
    BY <1>2, <1>7, <2>1
<1>9. wd = <<>>
  BY <1>6, <1>8, EmptySeq
<1> QED
  BY <1>4, <1>5, <1>9 DEF Reading, LinesRead

(* A whole line is read. *)
LEMMA LineRead ==
  ASSUME NEW text \in Seq(Seq(Char)), NEW l \in Nat, l + 1 \in 1..Len(text), NEW z, z = Len(text[l + 1]),
         z # 0 => text[l + 1][z] = Blank,
         NEW r, NEW at0 \in Nat, LinesRead(text, r[at0], l),
         \A q \in 1..z : r[at0 + q] = ReadChar(r[at0 + q - 1], text[l + 1][q])
  PROVE  LinesRead(text, r[at0 + z], l + 1)
<1>1. text[l + 1] \in Seq(Char) /\ z \in Nat
  BY LenProperties
<1> DEFINE T == {q \in Nat : q <= z => Reading(text, r[at0 + q], l + 1, q)}
<1>2. 0 \in T
  <2>1. Reading(text, r[at0], l + 1, 0)
    BY LineBegins
  <2>2. at0 + 0 = at0
    OBVIOUS
  <2> QED
    BY <2>1, <2>2
<1>3. ASSUME NEW q \in Nat, q \in T
      PROVE  q + 1 \in T
  <2> SUFFICES ASSUME q + 1 <= z
               PROVE  Reading(text, r[at0 + (q + 1)], l + 1, q + 1)
    OBVIOUS
  <2>1. q < z /\ q <= z /\ q + 1 \in 1..z
    BY <1>1
  <2>2. PICK s : s = r[at0 + q]
    OBVIOUS
  <2>3. Reading(text, s, l + 1, q)
    BY <1>3, <2>1, <2>2
  <2>4. at0 + (q + 1) - 1 = at0 + q
    OBVIOUS
  <2>5. r[at0 + (q + 1)] = ReadChar(s, text[l + 1][q + 1])
    BY <2>1, <2>2, <2>4
  <2> HIDE DEF T
  <2> QED
    BY <2>1, <2>3, <2>5, CharRead
<1>4. \A q \in Nat : q \in T
  <2> HIDE DEF T
  <2> QED
    BY <1>2, <1>3, NatInductive
<1>5. Reading(text, r[at0 + z], l + 1, z)
  <2>1. z \in T
    <3> HIDE DEF T
    <3> QED
      BY <1>1, <1>4
  <2>2. z <= z
    BY <1>1
  <2> QED
    BY <2>1, <2>2
<1> QED
  BY <1>5, LineEnds

(* Where the parts of a concatenation are. *)
PlacedIn(c, parts, h, k) ==
  \A q \in 1..Len(parts[k]) :
    Len(h[k - 1]) + q \in 1..Len(c) /\ c[Len(h[k - 1]) + q] = parts[k][q]

(* That is where they are. *)
LEMMA PartPlaces ==
  ASSUME NEW S, NEW n \in Nat, NEW parts, \A k \in 1..n : parts[k] \in Seq(S), NEW h, Sums(h, parts, n),
         NEW o \in 1..n
  PROVE  PlacedIn(h[n], parts, h, o)
<1>1. \A k \in 0..n : h[k] \in Seq(S)
  BY SumsAreSequences
<1> DEFINE T == {m \in Nat : m <= n => \A k \in 1..m : \A q \in 1..Len(parts[k]) :
                   /\ Len(h[k - 1]) + q \in 1..Len(h[m])
                   /\ h[m][Len(h[k - 1]) + q] = parts[k][q]}
<1>2. 0 \in T
  OBVIOUS
<1>3. ASSUME NEW m \in Nat, m \in T
      PROVE  m + 1 \in T
  <2> SUFFICES ASSUME m + 1 <= n, NEW k \in 1..(m + 1), NEW q \in 1..Len(parts[k])
               PROVE  /\ Len(h[k - 1]) + q \in 1..Len(h[m + 1])
                      /\ h[m + 1][Len(h[k - 1]) + q] = parts[k][q]
    OBVIOUS
  <2>1. m <= n /\ m \in 0..n /\ m + 1 \in 1..n /\ (m + 1) - 1 = m
    OBVIOUS
  <2>2. PICK f, g, c : f = h[m] /\ g = parts[m + 1] /\ c = h[m + 1]
    OBVIOUS
  <2>3. f \in Seq(S) /\ g \in Seq(S) /\ c = f \o g
    <3>1. h[m + 1] = h[(m + 1) - 1] \o parts[m + 1]
      BY <2>1 DEF Sums
    <3> QED
      BY <1>1, <2>1, <2>2, <3>1
  <2>4. /\ \A p \in 1..Len(f) : p \in 1..Len(c) /\ c[p] = f[p]
        /\ \A j \in 1..Len(g) : Len(f) + j \in 1..Len(c) /\ c[Len(f) + j] = g[j]
    <3>1. Joined(S, f, g, c)
      BY <2>3, ConcatPlaces
    <3> QED
      BY <3>1 DEF Joined
  <2>5. CASE k = m + 1
    <3>1. k - 1 = m
      BY <2>5
    <3> QED
      BY <2>2, <2>4, <2>5, <3>1
  <2>6. CASE k # m + 1
    <3>1. k \in 1..m
      BY <2>6
    <3>2. Len(h[k - 1]) + q \in 1..Len(f) /\ f[Len(h[k - 1]) + q] = parts[k][q]
      BY <1>3, <2>1, <2>2, <3>1
    <3> QED
      BY <2>2, <2>4, <3>2
  <2> QED
    BY <2>5, <2>6
<1>4. \A m \in Nat : m \in T
  <2> HIDE DEF T
  <2> QED
    BY <1>2, <1>3, NatInductive
<1>5. n \in T
  <2> HIDE DEF T
  <2> QED
    BY <1>4
<1>6. n <= n
  OBVIOUS
<1> QED
  BY <1>5, <1>6 DEF PlacedIn

(* All of a text is read. *)
LEMMA TextRead ==
  ASSUME NEW text \in Seq(Seq(Char)), \A l \in DOMAIN text : text[l] # <<>> => Last(text[l]) = Blank
  PROVE  \E s : LinesRead(text, s, Len(text)) /\ s.words = ReadInFile(text)
<1>1. PICK n \in Nat : n = Len(text) /\ DOMAIN text = 1..n
  BY LenProperties
<1>2. PICK h : Sums(h, text, n) /\ FlattenSeq(text) = h[n]
  BY <1>1, FlattenSums
<1>3. \A k \in 1..n : text[k] \in Seq(Char)
  BY <1>1
<1>4. \A k \in 0..n : h[k] \in Seq(Char)
  BY <1>2, <1>3, SumsAreSequences
<1>5. PICK flat \in Seq(Char) : flat = h[n]
  BY <1>1, <1>4
<1>6. PICK z \in Nat : z = Len(flat) /\ DOMAIN flat = 1..z
  BY LenProperties
<1>7. PICK r : /\ r[0] = Unread
               /\ \A k \in 1..z : r[k] = ReadChar(r[k - 1], flat[k])
               /\ Chars!Fold(Unread, flat) = r[z]
  <2>1. PICK x : Chars!Folding(x, Unread, flat, z) /\ Chars!Fold(Unread, flat) = x[z]
    BY <1>6, Chars!FoldSteps
  <2> QED
    BY <2>1 DEF Chars!Folding
<1>8. ReadInFile(text) = r[z].words
  BY <1>2, <1>5, <1>7, ReadUnfolds
<1> DEFINE T == {l \in Nat : l <= n => LinesRead(text, r[Len(h[l])], l)}
<1>9. 0 \in T
  <2>1. Len(h[0]) = 0
    BY <1>2, EmptySeq DEF Sums, Nothing
  <2>2. PICK none : none = <<>>
    OBVIOUS
  <2>3. r[0] = [words |-> none, word |-> none]
    BY <1>7, <2>2 DEF Unread
  <2>4. none \in Seq(Seq(Char)) /\ Len(none) = 0
    BY <2>2, EmptySeq
  <2>5. {t \in Spots(text) : t[1] <= 0} = {}
    <3> SUFFICES ASSUME NEW t \in Spots(text)
                 PROVE  ~(t[1] <= 0)
      OBVIOUS
    <3>1. t[1] \in 1..n
      BY <1>1, SpotsSpelled
    <3> QED
      BY <3>1
  <2>6. Paired(none, {}, text)
    <3>1. \A k \in 1..0 : FALSE
      OBVIOUS
    <3>2. Pairs(none, none, {}, text)
      BY <2>4, <3>1 DEF Pairs
    <3> QED
      BY <3>2 DEF Paired
  <2>7. LinesRead(text, r[0], 0)
    <3>1. r[0].words = none /\ r[0] = [words |-> r[0].words, word |-> none]
      BY <2>3
    <3> QED
      BY <2>2, <2>4, <2>5, <2>6, <3>1 DEF LinesRead
  <2> QED
    BY <2>1, <2>7
<1>10. ASSUME NEW l \in Nat, l \in T
       PROVE  l + 1 \in T
  <2> SUFFICES ASSUME l + 1 <= n
               PROVE  LinesRead(text, r[Len(h[l + 1])], l + 1)
    OBVIOUS
  <2>1. l <= n /\ l \in 0..n /\ l + 1 \in 0..n /\ l + 1 \in 1..n /\ (l + 1) - 1 = l
    BY <1>1
  <2>2. PICK line \in Seq(Char) : line = text[l + 1]
    BY <1>3, <2>1
  <2>3. PICK at0 \in Nat, e \in Nat : at0 = Len(h[l]) /\ e = Len(line)
    BY <1>4, <2>1, LenProperties
  <2>4. Len(h[l + 1]) = at0 + e
    <3>1. h[l + 1] = h[l] \o line
      <4>1. h[l + 1] = h[(l + 1) - 1] \o text[l + 1]
        BY <1>2, <2>1 DEF Sums
      <4> QED
        BY <2>1, <2>2, <4>1
    <3> QED
      BY <1>4, <2>1, <2>3, <3>1, ConcatProperties
  <2>5. ASSUME NEW q \in 1..e
        PROVE  at0 + q \in 1..z /\ flat[at0 + q] = line[q]
    <3>1. n \in 1..n /\ l + 1 \in 1..n
      BY <1>1, <2>1
    <3>2. PlacedIn(h[n], text, h, l + 1)
      BY <1>2, <1>3, <3>1, PartPlaces
    <3>3. \A x \in 1..Len(text[l + 1]) :
            Len(h[(l + 1) - 1]) + x \in 1..Len(h[n]) /\ h[n][Len(h[(l + 1) - 1]) + x] = text[l + 1][x]
      BY <3>2 DEF PlacedIn
    <3> QED
      BY <1>5, <1>6, <2>1, <2>2, <2>3, <3>3
  <2>6. ASSUME NEW q \in 1..e
        PROVE  r[at0 + q] = ReadChar(r[at0 + q - 1], line[q])
    <3>1. PICK p \in 1..z : p = at0 + q /\ flat[p] = line[q]
      BY <2>5
    <3>2. r[p] = ReadChar(r[p - 1], flat[p])
      BY <1>7
    <3> QED
      BY <3>1, <3>2
  <2>7. e # 0 => line[e] = Blank
    <3> SUFFICES ASSUME e # 0
                 PROVE  line[e] = Blank
      OBVIOUS
    <3>1. line # <<>>
      BY <2>3, EmptySeq
    <3>2. Last(line) = Blank
      BY <1>1, <2>1, <2>2, <3>1
    <3> QED
      BY <2>3, <3>2 DEF Last
  <2>8. LinesRead(text, r[at0], l)
    BY <1>10, <2>1, <2>3
  <2>9. LinesRead(text, r[at0 + e], l + 1)
    <3> HIDE DEF T
    <3>1. l + 1 \in 1..Len(text) /\ e = Len(text[l + 1])
      BY <1>1, <2>1, <2>2, <2>3
    <3>2. e # 0 => text[l + 1][e] = Blank
      BY <2>2, <2>7
    <3>3. \A q \in 1..e : r[at0 + q] = ReadChar(r[at0 + q - 1], text[l + 1][q])
      BY <2>2, <2>6
    <3> QED
      BY <2>8, <3>1, <3>2, <3>3, LineRead
  <2> QED
    BY <2>4, <2>9
<1>11. \A l \in Nat : l \in T
  <2> HIDE DEF T
  <2> QED
    BY <1>9, <1>10, NatInductive
<1>12. LinesRead(text, r[Len(h[n])], n)
  BY <1>11
<1> QED
  BY <1>1, <1>5, <1>6, <1>8, <1>12

(* The words of a line. *)
LineWords(line) == {SubSeq(line, ij[1], ij[2]) : ij \in Words(line)}

(* The words of a text. *)
WordsOf(text) == UNION {{SubSeq(line, ij[1], ij[2]) : ij \in Words(line)} : line \in ToSet(text)}

(* The counts of the words that were read are those of the text. *)
LEMMA ReadIsCounted ==
  ASSUME NEW text \in Seq(Seq(Char)), \A l \in DOMAIN text : text[l] # <<>> => Last(text[l]) = Blank, NEW ws, ws = ReadInFile(text)
  PROVE  ToSet(ws) = WordsOf(text) /\ \A w : Often(ws, w) = Times(w, text)
<1>1. PICK n \in Nat : n = Len(text) /\ DOMAIN text = 1..n
  BY LenProperties
<1>2. ws \in Seq(Seq(Char)) /\ Paired(ws, {t \in Spots(text) : t[1] <= n}, text)
  <2>1. PICK s : LinesRead(text, s, Len(text)) /\ s.words = ReadInFile(text)
    BY TextRead
  <2> QED
    BY <1>1, <2>1 DEF LinesRead
<1>3. {t \in Spots(text) : t[1] <= n} = Spots(text)
  <2> SUFFICES ASSUME NEW t \in Spots(text)
               PROVE  t[1] <= n
    OBVIOUS
  <2>1. t[1] \in 1..n
    BY <1>1, SpotsSpelled
  <2> QED
    BY <2>1
<1>4. Paired(ws, Spots(text), text)
  BY <1>2, <1>3
<1>5. ToSet(ws) = {WordAt(text, t) : t \in Spots(text)}
  BY <1>2, <1>4, PairedWords
<1>6. PICK words : words = WordsOf(text)
  OBVIOUS
<1>7. ASSUME NEW t \in Spots(text)
      PROVE  WordAt(text, t) \in words
  <2>1. PICK l \in 1..n : t \in {l} \X Words(text[l])
    BY <1>1 DEF Spots
  <2>2. t[1] = l /\ t[2] \in Words(text[l])
    BY <2>1
  <2>3. text[l] \in ToSet(text)
    BY <1>1 DEF ToSet
  <2>4. PICK line \in ToSet(text) : line = text[l]
    BY <2>3
  <2>5. PICK ij \in Words(line) : ij = t[2]
    BY <2>2, <2>4
  <2>6. WordAt(text, t) = SubSeq(line, ij[1], ij[2])
    BY <2>2, <2>4, <2>5 DEF WordAt
  <2>7. WordAt(text, t) \in LineWords(line)
    BY <2>5, <2>6 DEF LineWords
  <2>8. words = UNION {LineWords(x) : x \in ToSet(text)}
    BY <1>6, Zenon DEF LineWords, WordsOf
  <2> QED
    BY <2>4, <2>7, <2>8
<1>8. ASSUME NEW w \in words
      PROVE  \E t \in Spots(text) : w = WordAt(text, t)
  <2>1. PICK line \in ToSet(text) : w \in {SubSeq(line, ij[1], ij[2]) : ij \in Words(line)}
    BY <1>6 DEF WordsOf
  <2>2. PICK ij \in Words(line) : w = SubSeq(line, ij[1], ij[2])
    BY <2>1
  <2>3. PICK l \in 1..n : line = text[l]
    BY <1>1 DEF ToSet
  <2>4. PICK t : t = <<l, ij>>
    OBVIOUS
  <2>5. t \in {l} \X Words(text[l])
    BY <2>2, <2>3, <2>4
  <2>6. l \in DOMAIN text
    BY <1>1
  <2>7. t \in Spots(text)
    BY <2>5, <2>6, Zenon DEF Spots
  <2> QED
    BY <2>2, <2>3, <2>4, <2>7 DEF WordAt
<1>9. ToSet(ws) = words
  BY <1>5, <1>7, <1>8
<1>10. ASSUME NEW w
       PROVE  Often(ws, w) = Times(w, text)
  <2>1. Often(ws, w) = Cardinality({t \in Spots(text) : WordAt(text, t) = w})
    <3>1. PICK D : D = Spots(text)
      OBVIOUS
    <3>2. Paired(ws, D, text)
      BY <1>4, <3>1
    <3>3. PICK W : W = Seq(Char)
      OBVIOUS
    <3>4. ws \in Seq(W)
      BY <1>2, <3>3
    <3>5. Often(ws, w) = OftenAt(D, text, w)
      BY <3>2, <3>4, PairedCounts
    <3> QED
      BY <3>1, <3>5, Zenon DEF OftenAt
  <2>2. {lij \in Spots(text) : SubSeq(text[lij[1]], lij[2][1], lij[2][2]) = w}
        = {t \in Spots(text) : WordAt(text, t) = w}
    BY DEF WordAt
  <2>3. Times(w, text)
        = Cardinality({lij \in Spots(text) : SubSeq(text[lij[1]], lij[2][1], lij[2][2]) = w})
    BY Zenon DEF Times, Spots
  <2> QED
    BY <2>1, <2>2, <2>3
<1> QED
  BY <1>6, <1>9, <1>10

(* What the counter has heard when it prints. *)
LEMMA CounterHeard ==
  ASSUME LinusState, job.app = "words", Shown(2)
  PROVE  job.text # Null /\ heard[2][Key("wc_df")] = ReadInFile(job.text)
<1>1. 2 \in Node /\ 1 \in Node
  BY DEF Node
<1>2. PICK key : key = Key("wc_df")
  OBVIOUS
<1>3. PICK a, b, c : a = Listen /\ b = Await(key) /\ c = Show
  OBVIOUS
<1>4. Script(2) = <<a, b, c>>
  <2>1. Script(2) = WordCounter
    BY DEF Script
  <2> QED
    BY <1>2, <1>3, <2>1 DEF WordCounter
<1>5. at[2] \in Nat /\ at[2] <= 3
  BY <1>1, <1>4 DEF LinusState, InScript
<1>6. PICK i \in 1..at[2] : Script(2)[i].op = "show"
  BY DEF Shown
<1>7. i \notin {1, 2}
  BY <1>3, <1>4, <1>6, CallKinds
<1>8. 2 \in 1..at[2]
  BY <1>5, <1>7
<1>9. DidAt(2, 2)
  BY <1>1, <1>8 DEF LinusState, Did
<1>10. key \in DOMAIN heard[2]
  BY <1>3, <1>4, <1>9, CallKinds DEF DidAt
<1>11. heard[2][key] = ReadInFile(job.text)
  BY <1>1, <1>2, <1>10 DEF LinusState, AllRight, Right
<1>12. PICK m \in Node : key \in DOMAIN local[m]
  BY <1>1, <1>10 DEF LinusState, Came
<1>13. PICK j \in 1..Len(Script(m)) : Script(m)[j] = Put(key)
  BY <1>12, PutPlaces
<1>14. m = 1
  <2>1. m # 2
    <3> SUFFICES ASSUME m = 2
                 PROVE  FALSE
      OBVIOUS
    <3>1. j \in 1..3
      BY <1>4, <1>13
    <3> QED
      BY <1>3, <1>4, <1>13, <3>1, CallKinds
  <2>2. m # 3
    <3> SUFFICES ASSUME m = 3
                 PROVE  FALSE
      OBVIOUS
    <3>1. Script(3) = <<>>
      BY DEF Script
    <3> QED
      BY <1>13, <3>1
  <2> QED
    BY <2>1, <2>2, NodeSpelled
<1>15. job.text # Null
  <2> SUFFICES ASSUME job.text = Null
               PROVE  FALSE
    OBVIOUS
  <2>1. PICK d : d = Teardown
    OBVIOUS
  <2>2. Script(1) = WordReader(job.text)
    BY DEF Script
  <2>3. Script(1) = <<a, d>>
    BY <1>3, <2>1, <2>2 DEF WordReader
  <2>4. j \in 1..2
    BY <1>13, <1>14, <2>3
  <2> QED
    BY <1>3, <1>13, <1>14, <2>1, <2>3, <2>4, CallKinds
<1> QED
  BY <1>2, <1>11, <1>15

(* The job is one of those that may be started.                            *)
LEMMA JobStarted == Spec => [](job \in Jobs)
<1>1. Init => job \in Jobs
  BY DEF Init
<1>2. job \in Jobs /\ [Next]_vars => (job \in Jobs)'
  BY JobKept
<1> QED
  BY <1>1, <1>2, PTL DEF Spec

(* What WordCount's counter prints are the words that stand in the lines   *)
(* of the text, each with the number of its places, for any text in which  *)
(* every line that is not empty ends in a blank, if no part of the frame   *)
(* was lost: the word that is carried  *)
(* from character to character (wordcount.cpp:81-89) is the part of the    *)
(* line since the last blank.                                              *)
THEOREM WordsAlwaysCounted == Spec => []WordsCounted
<1>1. job \in Jobs /\ Undamaged => WordsCounted
  <2> SUFFICES ASSUME job \in Jobs, LinusState, job.app = "words", Shown(2),
                      \A l \in DOMAIN job.text : job.text[l] # <<>> => Last(job.text[l]) = Blank
               PROVE  Counts(heard[2][Key("wc_df")]) =
                        [w \in UNION {{SubSeq(line, ij[1], ij[2]) : ij \in Words(line)} : line \in ToSet(job.text)}
                           |-> Times(w, job.text)]
    BY DEF WordsCounted, Undamaged
  <2>1. PICK ws : ws = heard[2][Key("wc_df")]
    OBVIOUS
  <2>2. job.text # Null /\ ws = ReadInFile(job.text)
    BY <2>1, CounterHeard
  <2>3. PICK text \in Seq(Seq(Char)) : text = job.text
    BY <2>2, PipelineAssumption
  <2>4. PICK words : words = WordsOf(text)
    OBVIOUS
  <2>5. ToSet(ws) = words /\ \A w : Often(ws, w) = Times(w, text)
    BY <2>2, <2>3, <2>4, ReadIsCounted
  <2>6. Counts(ws) = [w \in words |-> Often(ws, w)]
    BY <2>5, Zenon DEF Counts, Often
  <2>7. Counts(ws) = [w \in words |-> Times(w, text)]
    BY <2>5, <2>6
  <2> QED
    BY <2>1, <2>3, <2>4, <2>7, Zenon DEF WordsOf
<1> QED
  BY <1>1, JobStarted, LinusInvariant, PTL

=============================================================================
