----------------------------- MODULE MCFraming -----------------------------
(* Instances of Framing for TLC. *)
EXTENDS Framing

(* Packets that end within a buffer of 4 units and behind it. *)
SomePackets == {[type |-> Plain, value |-> <<>>],
                [type |-> Ask, value |-> <<2>>],
                [type |-> Plain, value |-> <<1, 2, 1, 2, 1, 2, 1>>]}

==================================================
