---------------------------- MODULE PacketStream ----------------------------
(***************************************************************************)
(* What a client's byte stream means: it is cut into packets from the start *)
(* by its own headers alone, however its bytes arrive, until one of them    *)
(* makes no sense; and more is received only when all that is there has     *)
(* been cut, as far as the loop looks (PacketFormat).                       *)
(***************************************************************************)
EXTENDS PacketFormat

VARIABLES
  stream,     \* every byte received
  cut,        \* how many of them were cut into packets
  packets,    \* the packets processed, as <<first byte, size>>
  rejected    \* a header or size that makes no sense was met

Init == stream = <<>> /\ cut = 0 /\ packets = <<>> /\ rejected = FALSE

Arrive ==
  /\ ~rejected
  /\ ~Whole(stream, cut) /\ ~Bad(stream, cut)
  /\ stream' \in Seq(Byte)
  /\ SubSeq(stream', 1, Len(stream)) = stream
  /\ UNCHANGED <<cut, packets, rejected>>

Cut ==
  /\ ~rejected
  /\ Whole(stream, cut)
  /\ packets' = Append(packets, <<cut + 1, PacketSize(stream, cut)>>)
  /\ cut' = cut + PacketSize(stream, cut)
  /\ UNCHANGED <<stream, rejected>>

Reject ==
  /\ ~rejected
  /\ Bad(stream, cut)
  /\ rejected' = TRUE
  /\ UNCHANGED <<stream, cut, packets>>

Next == Arrive \/ Cut \/ Reject

Spec == Init /\ [][Next]_<<stream, cut, packets, rejected>>

=============================================================================
