----------------------------- MODULE RemoteRead -----------------------------
(***************************************************************************)
(* What KVStore::get promises for a key that lives on another node,        *)
(* without connections, packets or worker threads: a call made for a key   *)
(* some node holds either ends with that node's DataFrame, or ends without *)
(* one when the connection is lost, or dies with its process.              *)
(***************************************************************************)
EXTENDS Naturals

CONSTANTS
  Node,     \* the client processes
  Thread,   \* the application threads
  Home,     \* [Thread -> Node]
  Key       \* key names

VARIABLES
  held,     \* node -> keys of its local map
  call,     \* thread -> the read it is doing: <<node asked, key>>
  answer    \* thread -> the DataFrames its current call obtained

vars == <<held, call, answer>>

NoCall == <<>>
Read == Node \X Key

TypeOK ==
  /\ held \in [Node -> SUBSET Key]
  /\ call \in [Thread -> Read \cup {NoCall}]
  /\ answer \in [Thread -> SUBSET (Node \X Key)]

Init ==
  /\ held \in [Node -> SUBSET Key]
  /\ call = [t \in Thread |-> NoCall]
  /\ answer = [t \in Thread |-> {}]

(* A key is stored; it is never removed again. *)
Store(n, k) ==
  /\ held' = [held EXCEPT ![n] = @ \cup {k}]
  /\ UNCHANGED <<call, answer>>

(* A thread asks another node for a key that node holds. *)
Ask(t, n, k) ==
  /\ call[t] = NoCall
  /\ n # Home[t] /\ k \in held[n]
  /\ call' = [call EXCEPT ![t] = <<n, k>>]
  /\ UNCHANGED <<held, answer>>

(* The call obtains the DataFrame the node it asked holds under its key. *)
Answer(t) ==
  /\ call[t] # NoCall /\ answer[t] = {}
  /\ call[t][2] \in held[call[t][1]]
  /\ answer' = [answer EXCEPT ![t] = {call[t]}]
  /\ UNCHANGED <<held, call>>

(* The call returns; without an answer it returns nullptr. *)
Return(t) ==
  /\ call[t] # NoCall
  /\ call' = [call EXCEPT ![t] = NoCall]
  /\ answer' = [answer EXCEPT ![t] = {}]
  /\ UNCHANGED held

(* A process ends and its calls with it. *)
Crash(n) ==
  /\ call' = [t \in Thread |-> IF Home[t] = n THEN NoCall ELSE call[t]]
  /\ answer' = [t \in Thread |-> IF Home[t] = n THEN {} ELSE answer[t]]
  /\ UNCHANGED held

Next ==
  \/ \E n \in Node, k \in Key : Store(n, k)
  \/ \E t \in Thread, n \in Node, k \in Key : Ask(t, n, k)
  \/ \E t \in Thread : Answer(t) \/ Return(t)
  \/ \E n \in Node : Crash(n)

Spec == Init /\ [][Next]_vars

(* Calls are answered, and answered calls return. *)
FairSpec ==
  /\ Spec
  /\ \A t \in Thread : WF_vars(Answer(t)) /\ WF_vars(answer[t] # {} /\ Return(t))

============================================================================
