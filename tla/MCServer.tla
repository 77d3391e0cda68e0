------------------------------ MODULE MCServer ------------------------------
(* Instances of ServerUpdates for TLC. *)
EXTENDS ServerUpdates, TLC

CONSTANTS a, b, c      \* client addresses
CONSTANTS c1, c2      \* runs of client processes

AddrEach == (c1 :> a) @@ (c2 :> b)               \* a run of each of two clients
AddrOnce == (a :> a) @@ (b :> b) @@ (c :> c)     \* three clients, a run named as its client

\* A client that crashes and asks for teardowns, and one that leaves or crashes.
FaultsMixed == (c1 :> {"crash", "teardown"}) @@ (c2 :> {"leave", "crash"})
FaultsCrash == [i \in {c1, c2} |-> {"crash"}]
FaultsNone == [i \in {a, b, c} |-> {}]

ClientSymmetry == Permutations({a, b, c})

=============================================================================
