------------------------------ MODULE Framing ------------------------------
(***************************************************************************)
(* One direction of a Connection: _send_packet writes a packet into a      *)
(* non-blocking socket, receive_data appends what has arrived to           *)
(* _r_buffer, and unpack cuts packets off its front with                   *)
(* Packet::partial_unpack, reading on from the socket while a packet is    *)
(* larger than the buffer.                                                 *)
(*                                                                         *)
(* The stream is a sequence of units.  A packet is its type, its length    *)
(* and its value; the eight bytes of the length are one unit, as a length  *)
(* cut in its middle and one that has not arrived are both read with zeros *)
(* for what is missing.  Type 0 is NONE, Ask stands for the types whose    *)
(* parsing ends in ParseResult::Response, Plain for those ending in        *)
(* Success.                                                                *)
(*                                                                         *)
(* unpack hands BUFFER_SIZE to partial_unpack, not _r_buf_pos: what has    *)
(* not arrived is read as the zeros behind the data.  When more is         *)
(* consumed than was there, _r_buf_pos wraps around and the memset that    *)
(* follows clears memory in front of the buffer, _r_buf_pos first.  Eight  *)
(* missing bytes or more set it to 0; seven leave it at 249, behind as     *)
(* many zeros; six or fewer leave a position behind the buffer, where recv *)
(* fails or writes elsewhere, which is undefined and taken as a reader     *)
(* that is stuck.  AfterUnpack has all three outcomes.                     *)
(***************************************************************************)
EXTENDS Naturals, Sequences, SequencesExt

CONSTANTS
  Packets,      \* packets the sender may send: [type, value]
  BufferSize,   \* BUFFER_SIZE, in units
  SockCap,      \* units the socket buffers hold
  MaxPackets,   \* bound: packets sent in one behaviour, and packets parsed
                \* from it, garbage after a break included
  Split         \* recv may return less than has been sent

None == 0
Plain == 1
Ask == 2

ASSUME FramingAssumption ==
  /\ Packets \subseteq [type : {Plain, Ask}, value : Seq(Nat)]
  /\ BufferSize \in Nat /\ BufferSize >= 2
  /\ SockCap \in Nat \ {0}
  /\ MaxPackets \in Nat
  /\ Split \in BOOLEAN

VARIABLES
  sent,     \* packets given to _send_packet
  closed,   \* the sender has closed its socket
  stream,   \* units on their way
  rbuf,     \* the first _r_buf_pos units of _r_buffer
  pc,       \* the reader: "receive", "unpack", "refill", "parse"; after an
            \* overrun also "parse last" and "stuck"
  packet,   \* the Packet being unpacked: type, value and remaining_len
  got,      \* packets given to _parse_data
  cut,      \* history: a write was short
  torn,     \* history: more was consumed than had arrived
  partly,   \* history: a recv left units behind that it had room for
  full,     \* history: the last recv filled the buffer
  brim      \* history: a packet was answered although full was set

sendVars == <<sent, closed>>
readVars == <<rbuf, pc, packet, got>>
history  == <<cut, torn, partly, full, brim>>
vars == <<sendVars, stream, readVars, history>>

Least(m, n) == IF m <= n THEN m ELSE n

(* Packet::pack *)
Pack(p) == <<p.type, Len(p.value)>> \o p.value
PackAll(ps) == FlattenSeq([i \in DOMAIN ps |-> Pack(ps[i])])

Blank == [type |-> None, value |-> <<>>, left |-> 0]

Init ==
  /\ sent = <<>> /\ closed = FALSE
  /\ stream = <<>>
  /\ rbuf = <<>> /\ pc = "receive" /\ packet = Blank /\ got = <<>>
  /\ cut = FALSE /\ torn = FALSE /\ partly = FALSE
  /\ full = FALSE /\ brim = FALSE

----------------------------------------------------------------------------
(* The sender. *)

(* A write that takes any of the packet counts as success; what does not   *)
(* fit is never sent.  The loop ends as soon as there is any room.         *)
SendPacket(p) ==
  LET room == SockCap - Len(stream)
      w == Pack(p)
  IN  /\ ~closed /\ Len(sent) < MaxPackets
      /\ Len(stream) < SockCap
      /\ sent' = Append(sent, p)
      /\ stream' = stream \o SubSeq(w, 1, Least(room, Len(w)))
      /\ cut' = (cut \/ room < Len(w))
      /\ UNCHANGED <<closed, readVars, torn, partly, full, brim>>

Close ==
  /\ ~closed
  /\ closed' = TRUE
  /\ UNCHANGED <<sent, stream, readVars, history>>

----------------------------------------------------------------------------
(* The reader. *)

\* Mutant: recv is given the whole buffer, whatever it holds already.
RecvUnbounded(buf, least) ==
  LET most == Least(Len(stream), BufferSize)
  IN  {n \in (IF Split THEN least..most ELSE {most}) : n >= least}

(* recv into the free part of a buffer that holds buf; it may return less  *)
(* than there is when the rest arrives later.                              *)
Recv(buf, least) ==
  LET most == Least(Len(stream), BufferSize - Len(buf))
  IN  {n \in (IF Split THEN least..most ELSE {most}) : n >= least}

ReceiveInto(buf, n) ==
  /\ stream' = SubSeq(stream, n + 1, Len(stream))
  /\ partly' = (partly \/ n < Least(Len(stream), BufferSize - Len(buf)))
  /\ full' = (Len(buf) + n = BufferSize)

\* Mutant: a recv that returns 0 ends the turn.
ReceiveDataOrQuit ==
  /\ pc = "receive"
  /\ stream # <<>>
  /\ \E n \in Recv(rbuf, IF Len(rbuf) = BufferSize THEN 0 ELSE 1) :
       /\ rbuf' = rbuf \o SubSeq(stream, 1, n)
       /\ ReceiveInto(rbuf, n)
  /\ pc' = IF rbuf' = <<>> THEN "receive" ELSE "unpack"
  /\ UNCHANGED <<sendVars, packet, got, cut, torn, brim>>

(* receive_data in receive_and_parse: with nothing to read the turn ends,  *)
(* unless the buffer is full or the peer has closed, when recv returns 0.  *)
ReceiveData ==
  /\ pc = "receive"
  /\ stream # <<>> \/ closed \/ Len(rbuf) = BufferSize
  /\ \E n \in Recv(rbuf, IF stream = <<>> \/ Len(rbuf) = BufferSize THEN 0 ELSE 1) :
       /\ rbuf' = rbuf \o SubSeq(stream, 1, n)
       /\ ReceiveInto(rbuf, n)
  /\ pc' = IF rbuf' = <<>> THEN "receive" ELSE "unpack"
  /\ UNCHANGED <<sendVars, packet, got, cut, torn, brim>>

(* The unit at position i of _r_buffer: zero behind the data. *)
At(buf, i) == IF i <= Len(buf) THEN buf[i] ELSE 0

\* Mutant: the value starts afresh in every buffer.
TakeValueAfresh(p, buf, pos) ==
  LET n == Least(p.left, BufferSize - pos)
  IN  [p EXCEPT !.value = [i \in 1..n |-> At(buf, pos + i)], !.left = @ - n]

(* partial_unpack: as much of the value as the buffer has from pos on. *)
TakeValue(p, buf, pos) ==
  LET n == Least(p.left, BufferSize - pos)
  IN  [p EXCEPT !.value = @ \o [i \in 1..n |-> At(buf, pos + i)],
                !.left = @ - n]

\* Mutant: what is dropped is the end of the buffer.
ConsumeBack(buf, k) ==
  /\ rbuf' = SubSeq(buf, 1, Len(buf) - k)
  /\ torn' = (torn \/ k > Len(buf))

(* What unpack does with k consumed units of buf: shift the rest to the    *)
(* front, of which nothing is left when k is more than there was.          *)
Consume(buf, k) ==
  /\ rbuf' = SubSeq(buf, k + 1, Len(buf))
  /\ torn' = (torn \/ k > Len(buf))

(* The position wraps around, to one in the cleared buffer that has a      *)
(* header before it.                                                       *)
WrapAround ==
  /\ \E n \in 2..(BufferSize - 1) : rbuf' = [i \in 1..n |-> 0]
  /\ torn' = TRUE

(* partial_unpack has left the packet p, k units consumed.                 *)
AfterUnpack(p, buf, k) ==
  /\ packet' = p
  /\ \/ /\ Consume(buf, k)
        /\ \/ p.left > 0 /\ pc' = "refill"
           \/ p.left = 0 /\ pc' = "parse"
           \/ p.left = 0 /\ Len(buf) < k /\ k < BufferSize /\ pc' = "parse last"
     \/ p.left = 0 /\ Len(buf) < k /\ k < BufferSize /\ WrapAround /\ pc' = "parse"
  /\ UNCHANGED <<sendVars, got, cut, brim>>

(* partial_unpack(true, ...): the header, then the value. *)
UnpackFront ==
  LET p == TakeValue([type |-> At(rbuf, 1), value |-> <<>>, left |-> At(rbuf, 2)],
                     rbuf, 2)
  IN  /\ pc = "unpack"
      /\ AfterUnpack(p, rbuf, 2 + Len(p.value))
      /\ UNCHANGED <<stream, partly, full>>

(* A turn of unpack's loop: the whole buffer was consumed and cleared; it  *)
(* reads on, maybe nothing, and takes more of the value.                   *)
Refill ==
  /\ pc = "refill"
  /\ \E n \in Recv(<<>>, 0) :
       LET buf == SubSeq(stream, 1, n)
           p == TakeValue(packet, buf, 0)
       IN  /\ ReceiveInto(<<>>, n)
           /\ AfterUnpack(p, buf, packet.left - p.left)

\* Mutant: the turn goes on after any packet.
ParseOn ==
  /\ pc \in {"parse", "parse last"} /\ Len(got) < MaxPackets
  /\ got' = Append(got, [type |-> packet.type, value |-> packet.value])
  /\ pc' = IF pc = "parse last" THEN "stuck"
           ELSE IF rbuf # <<>> THEN "unpack" ELSE "receive"
  /\ brim' = (brim \/ (packet.type = Ask /\ full))
  /\ packet' = Blank
  /\ UNCHANGED <<sendVars, stream, rbuf, cut, torn, partly, full>>

(* _parse_data and what receive_and_parse makes of its result: Success and *)
(* ParseError end the turn, after a Response it parses on.                 *)
Parse ==
  /\ pc \in {"parse", "parse last"} /\ Len(got) < MaxPackets
  /\ got' = Append(got, [type |-> packet.type, value |-> packet.value])
  /\ pc' = IF pc = "parse last" THEN "stuck"
           ELSE IF packet.type = Ask /\ rbuf # <<>> THEN "unpack" ELSE "receive"
  /\ brim' = (brim \/ (packet.type = Ask /\ full))
  /\ packet' = Blank
  /\ UNCHANGED <<sendVars, stream, rbuf, cut, torn, partly, full>>

Read == ReceiveData \/ UnpackFront \/ Refill \/ Parse

Next == (\E p \in Packets : SendPacket(p)) \/ Close \/ Read

Spec == Init /\ [][Next]_vars
FairSpec == Spec /\ WF_vars(Read)

----------------------------------------------------------------------------
(* Properties. *)

TypeOK ==
  /\ sent \in Seq(Packets) /\ Len(sent) <= MaxPackets
  /\ closed \in BOOLEAN
  /\ stream \in Seq(Nat) /\ Len(stream) <= SockCap
  /\ rbuf \in Seq(Nat) /\ Len(rbuf) <= BufferSize
  /\ pc \in {"receive", "unpack", "refill", "parse", "parse last", "stuck"}
  /\ packet \in [type : Nat, value : Seq(Nat), left : Nat]
  /\ got \in Seq([type : Nat, value : Seq(Nat)])
  /\ \A h \in {cut, torn, partly, full, brim} : h \in BOOLEAN

(* The part of the stream that the reader has taken but not yet delivered. *)
InHand ==
  CASE pc = "refill" -> <<packet.type, Len(packet.value) + packet.left>> \o packet.value
    [] pc \in {"parse", "parse last"} -> Pack(packet)
    [] OTHER -> <<>>

(* Unless a write was short or a read ran over, the packets parsed, the    *)
(* one in hand, the receive buffer and the socket together are exactly     *)
(* what was sent: nothing is lost, repeated or shifted by a unit at any    *)
(* split of a packet over buffers (connection.cpp:145-172).                *)
StreamIntact ==
  ~cut /\ ~torn => PackAll(got) \o InHand \o rbuf \o stream = PackAll(sent)

(* The only ways to overrun: part of a packet comes later than the recv    *)
(* that began it, a write was short, or receive_and_parse goes on after an *)
(* answer with what is left in a buffer that cut off a packet at its end   *)
(* (connection.cpp:241-243 does not receive again).                        *)
OverrunExplained == torn => cut \/ partly \/ brim

(* One direction of a connection is a FIFO until it breaks. *)
Fifo == INSTANCE PacketFifo WITH broken <- cut \/ torn
ImplementsFifo == Fifo!Spec

(* Everything sent is parsed once the sender has closed, although every    *)
(* receive then returns 0.  (With the sender alive but silent, packets     *)
(* may stay in the buffer: connection.cpp:225 gives up first.)             *)
ParsedAfterClose == closed ~> got = sent \/ cut \/ torn

=============================================================================
