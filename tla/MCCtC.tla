------------------------------- MODULE MCCtC -------------------------------
(* Instances of CtCRequests for TLC: two nodes and one TCP connection.      *)
EXTENDS CtCImplementsRead, TLC

CONSTANTS a, b,     \* the nodes
          ab, ba,   \* a's connection to b and b's connection to a
          t1, t2,   \* application threads
          k1, k2,   \* keys
          q1, q2    \* ValueRequest objects

MCOwner == (ab :> a) @@ (ba :> b)
MCPeer == (ab :> ba) @@ (ba :> ab)

\* Both threads run on a; b holds every key.
ReadersHome == [t \in {t1, t2} |-> a]
ReadersStored == (a :> {}) @@ (b :> {k1, k2})
OneHome == [t \in {t1} |-> a]
OneStored == (a :> {}) @@ (b :> {k1})
\* One thread on each node; a holds k1, b produces k2 and, against the contract, k1.
BothHome == (t1 :> a) @@ (t2 :> b)
BothStored == (a :> {k1}) @@ (b :> {})
ClashProduces == (a :> {}) @@ (b :> {k1, k2})
NoProduces == [n \in {a, b} |-> {}]

\* Requests are interchangeable, and so are the readers and the keys they read.
ReadersSymmetry ==
  Permutations({q1, q2}) \cup Permutations({t1, t2}) \cup Permutations({k1, k2})
RequestSymmetry == Permutations({q1, q2})

============================================================================
