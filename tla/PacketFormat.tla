---------------------------- MODULE PacketFormat ----------------------------
(***************************************************************************)
(* Where the packets lie in a sequence of bytes: the header byte says how   *)
(* wide the size field is, and the size counts the whole packet             *)
(* (ClientSession::parse_packets, src/src/ClientSession.cpp:99-149).        *)
(* p is the number of bytes before the packet.                             *)
(***************************************************************************)
EXTENDS Integers, Sequences

CONSTANTS
  Base,          \* the values of a byte: 256 in the code
  SmallHeader,   \* 0xC1, 0xC3: the size is one byte
  LargeHeader,   \* 0xC2, 0xC4: the size is two bytes, high byte first
  MaxPacket      \* MAX_PACKET_SIZE, the size of the receive buffer too

Byte == 0 .. Base - 1

ASSUME FormatAssumption ==
  /\ Base \in Nat
  /\ SmallHeader \subseteq Byte
  /\ LargeHeader \subseteq Byte
  /\ SmallHeader \cap LargeHeader = {}
  /\ MaxPacket \in Nat
  /\ MaxPacket >= 3

Remaining(s, p) == Len(s) - p

HeaderKnown(s, p) == s[p + 1] \in SmallHeader \cup LargeHeader

HeaderSize(s, p) == IF s[p + 1] \in SmallHeader THEN 2 ELSE 3

PacketSize(s, p) ==
  IF s[p + 1] \in SmallHeader THEN s[p + 2] ELSE s[p + 2] * Base + s[p + 3]

\* Mutant: the largest size is one too large.
SizeValidOffByOne(s, p) ==
  PacketSize(s, p) >= HeaderSize(s, p) /\ PacketSize(s, p) <= MaxPacket + 1

\* A packet may be as short as its header.  The documents have it disconnect the
\* client if its size is below 3 (docs/PROTOCOL.md:16, 325, 370); the code takes a
\* small one of size 2 for a packet, whose head it reads from the byte behind it.
SizeValid(s, p) ==
  PacketSize(s, p) >= HeaderSize(s, p) /\ PacketSize(s, p) <= MaxPacket

\* The three outcomes of a turn of the loop: fewer than three bytes, or part of
\* a packet; a whole packet; a header or size that disconnects.  Less than three
\* bytes are not looked at: a packet of two waits for the byte behind it, and a
\* header that makes no sense for two more.
Whole(s, p) ==
  /\ Remaining(s, p) >= 3
  /\ HeaderKnown(s, p) /\ SizeValid(s, p)
  /\ Remaining(s, p) >= PacketSize(s, p)

Bad(s, p) ==
  /\ Remaining(s, p) >= 3
  /\ ~(HeaderKnown(s, p) /\ SizeValid(s, p))

=============================================================================
