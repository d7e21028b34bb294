--------------------------- MODULE PacketChannel ---------------------------
(***************************************************************************)
(* What a session's sending side promises: the packets handed to it reach   *)
(* the wire whole, once each and in the order they were taken in.  A packet *)
(* may stay in the backlog for ever: its connection may end first.          *)
(***************************************************************************)
EXTENDS Sequences

CONSTANT Packet

VARIABLES backlog, wire

Init == backlog = <<>> /\ wire = <<>>

Put(p) ==
  /\ backlog' = Append(backlog, p)
  /\ UNCHANGED wire

Deliver ==
  /\ backlog # <<>>
  /\ wire' = Append(wire, Head(backlog))
  /\ backlog' = Tail(backlog)

Next == Deliver \/ \E p \in Packet : Put(p)

Spec == Init /\ [][Next]_<<backlog, wire>>

=============================================================================
