--------------------------- MODULE ReceiveBuffer ---------------------------
(***************************************************************************)
(* The receiving side of one ClientSession: reads into the free end of      *)
(* recv_buffer_, the loop of parse_packets over it, and the move of what is *)
(* left to its front (src/src/ClientSession.cpp:52-162).  All of it runs on *)
(* the session's strand, one handler at a time.                            *)
(*                                                                         *)
(* The buffer is the sequence of its recv_buffer_size_ valid bytes.         *)
(***************************************************************************)
EXTENDS PacketFormat

CONSTANT StreamCap   \* bound: the bytes a client sends

ASSUME StreamAssumption == StreamCap \in Nat

VARIABLES
  state,       \* reading, parsing, or closed
  buffer,      \* recv_buffer_
  processed,   \* parse_packets's local variable
  stream,      \* history: every byte received
  dropped,     \* history: how many of them the moves have dropped
  packets,     \* history: what process_packet was given
  rejected     \* history: parse_packets returned false

vars == <<state, buffer, processed, stream, dropped, packets, rejected>>
historyVars == <<stream, dropped, packets, rejected>>

TypeOK ==
  /\ state \in {"reading", "parsing", "closed"}
  /\ buffer \in Seq(Byte)
  /\ processed \in Nat
  /\ stream \in Seq(Byte)
  /\ dropped \in Nat
  /\ packets \in Seq(Nat \X Nat)
  /\ rejected \in BOOLEAN

Init ==
  /\ state = "reading"
  /\ buffer = <<>> /\ processed = 0
  /\ stream = <<>> /\ dropped = 0 /\ packets = <<>> /\ rejected = FALSE

\* How many bytes the read that start_read arms may bring.
Free == MaxPacket - Len(buffer)

\* A read completes with the next bytes of the stream.
HandleRead(bytes) ==
  /\ state = "reading"
  /\ Len(bytes) \in 1 .. Free
  /\ Len(stream) + Len(bytes) <= StreamCap
  /\ buffer' = buffer \o bytes /\ stream' = stream \o bytes
  /\ processed' = 0
  /\ state' = "parsing"
  /\ UNCHANGED <<dropped, packets, rejected>>

\* An error, or a read of no bytes: close.
HandleReadFails ==
  /\ state = "reading"
  /\ state' = "closed"
  /\ UNCHANGED <<buffer, processed, historyVars>>

\* A whole packet: process_packet, and on to the next.
ProcessPacket ==
  /\ state = "parsing"
  /\ Whole(buffer, processed)
  /\ packets' = Append(packets, <<dropped + processed + 1, PacketSize(buffer, processed)>>)
  /\ processed' = processed + PacketSize(buffer, processed)
  /\ UNCHANGED <<state, buffer, stream, dropped, rejected>>

\* parse_packets returns false and handle_read closes the session.
BadPacket ==
  /\ state = "parsing"
  /\ Bad(buffer, processed)
  /\ rejected' = TRUE
  /\ state' = "closed"
  /\ UNCHANGED <<buffer, processed, stream, dropped, packets>>

\* Mutant: the bytes are not moved to the front.
NeedMoreUnmoved ==
  /\ state = "parsing"
  /\ ~Whole(buffer, processed) /\ ~Bad(buffer, processed)
  /\ buffer' = SubSeq(buffer, 1, Len(buffer) - processed)
  /\ dropped' = dropped + processed
  /\ processed' = 0
  /\ state' = "reading"
  /\ UNCHANGED <<stream, packets, rejected>>

\* Nothing complete is left: what remains moves to the front of the buffer and
\* handle_read reads on.
NeedMore ==
  /\ state = "parsing"
  /\ ~Whole(buffer, processed) /\ ~Bad(buffer, processed)
  /\ buffer' = SubSeq(buffer, processed + 1, Len(buffer))
  /\ dropped' = dropped + processed
  /\ processed' = 0
  /\ state' = "reading"
  /\ UNCHANGED <<stream, packets, rejected>>

Segments == UNION {[1 .. n -> Byte] : n \in 1 .. MaxPacket}

Finished == state = "closed" /\ UNCHANGED vars

Next ==
  \/ \E bytes \in Segments : HandleRead(bytes)
  \/ HandleReadFails \/ ProcessPacket \/ BadPacket \/ NeedMore
  \/ Finished

Spec == Init /\ [][Next]_vars

----------------------------------------------------------------------------
(* Properties.                                                             *)

\* There is always room for the next read: a read into a full buffer completes
\* at once with no bytes, which would close a session that did nothing wrong
\* (start_read, parse_packets, MAX_PACKET_SIZE).
RoomForRead == state = "reading" => Len(buffer) < MaxPacket

\* Segmentation does not matter: the packets processed are those the whole
\* stream is cut into by its own headers, each before the read that follows its
\* last byte (for a packet of two bytes, the byte behind it), and what makes no
\* sense ends the session before that read (parse_packets, handle_read).
Stream == INSTANCE PacketStream WITH cut <- dropped + processed

CutsTheStream == Stream!Spec

=============================================================================
