----------------------------- MODULE PacketFifo -----------------------------
(***************************************************************************)
(* What one direction of a Connection promises: packets come out of        *)
(* receive_and_parse as they went into _send_packet, in order, each once,  *)
(* until the framing breaks.  After that whatever is parsed has nothing to *)
(* do with what was sent.                                                  *)
(***************************************************************************)
EXTENDS Naturals, Sequences

CONSTANT Packets

VARIABLES
  sent,     \* packets given to _send_packet
  got,      \* packets given to _parse_data
  broken    \* framing has been lost

vars == <<sent, got, broken>>

Init == sent = <<>> /\ got = <<>> /\ broken = FALSE

Send(p) == sent' = Append(sent, p) /\ UNCHANGED got

Deliver ==
  /\ Len(got) < Len(sent)
  /\ got' = Append(got, sent[Len(got) + 1])
  /\ UNCHANGED sent

Garble ==
  /\ Len(got') = Len(got) + 1 /\ SubSeq(got', 1, Len(got)) = got
  /\ got'[Len(got')] \in [type : Nat, value : Seq(Nat)]
  /\ UNCHANGED sent

Next ==
  /\ broken => broken'
  /\ \/ \E p \in Packets : Send(p)
     \/ ~broken' /\ Deliver
     \/ broken' /\ Garble
     \/ UNCHANGED <<sent, got>>

Spec == Init /\ [][Next]_vars

=============================================================================
