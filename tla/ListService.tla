----------------------------- MODULE ListService -----------------------------
(***************************************************************************)
(* The server list as clients see it: CServerList::Load reads it            *)
(* (ServerFile), game servers report their load, and the packets of clients *)
(* are dispatched and answered (src/src/ConnectServerProtocol.cpp).         *)
(*                                                                         *)
(* A request is what the dispatch reads at the places of head, subhead and  *)
(* server code.  Its size says how many of the bytes are its own: what lies *)
(* beyond them in the receive buffer is the next packet, or an older one.   *)
(***************************************************************************)
EXTENDS ServerFile

CONSTANTS
  SendBuffer,    \* bytes in uint8_t send[2048], and MAX_PACKET_SIZE
  RequestCode    \* bound: the server codes clients ask for, a byte each

ASSUME ListAssumption == SendBuffer \in Nat /\ RequestCode \subseteq 0 .. 255

VARIABLES
  serving,      \* Load has returned and the workers run
  userTotal,    \* UserTotal of each server
  at,           \* the handler's place; "undefined" after a write past send[]
  request,      \* the packet that is handled, or was handled last
  replies       \* history: what was handed to async_send for it

serviceVars == <<serving, userTotal, at, request, replies>>
vars == <<fileVars, serviceVars>>

----------------------------------------------------------------------------
(* Packets.                                                                *)

\* large: a C2 or C4 packet, whose head is its fourth byte.  The server code of a
\* request is a byte, that of a server has 16 bits.
Request ==
  [large : BOOLEAN, size : 2 .. 5, head : {"F4", "other"}, subh : {0, 2, 3}, code : RequestCode]

NoRequest == [large |-> FALSE, size |-> 0, head |-> "other", subh |-> 0, code |-> 0]

\* ConnectServerProtocolCore takes the fourth byte for the subhead in either case.
IsListRequest(r) == r.head = "F4" /\ ~r.large /\ r.subh = 2
IsInfoRequest(r) == r.head = "F4" /\ ~r.large /\ r.subh = 3

\* sizeof of the headers and entries.  An entry of the plain list is padded to 4
\* bytes, where docs/PROTOCOL.md:130-143 shows 3.
CustomHeaderSize == 7
CustomEntrySize == 34
PlainHeaderSize == 6
PlainEntrySize == 4
InfoSize == 22

\* Headers, as PSWMSG_HEAD and PSBMSG_HEAD set them: sizes of 16 and of 8 bits.
LargeHeader(subh, size) == [type |-> "C2", size |-> size % 65536, head |-> "F4", subh |-> subh]
SmallHeader(subh, size) == [type |-> "C1", size |-> size % 256, head |-> "F4", subh |-> subh]

Packet(header, count, entries) == [header |-> header, count |-> count, entries |-> entries]

\* A TODO in the code: the JoinServer's state and queue and the servers' own state are
\* not looked at, where docs/PROTOCOL.md:216, 242 and ARCHITECTURE.md:325 have the
\* lists refused by them.
CheckJoinServerState == TRUE

InOrder(codes) == \A i \in DOMAIN codes, j \in DOMAIN codes : i < j => codes[i] < codes[j]

\* m_ServerListInfo in the order of its iterator, without the hidden servers.
Shown == {c \in DOMAIN servers : servers[c][5]}
Listed == IF CheckJoinServerState THEN Shown ELSE {}
Sorted(codes) == CHOOSE s \in [1 .. Cardinality(codes) -> codes] : InOrder(s)

\* Mutant: hidden servers are generated too.
CustomEntriesOfAll ==
  [i \in 1 .. Cardinality(DOMAIN servers) |->
     LET c == Sorted(DOMAIN servers)[i] IN <<c, servers[c][2]>>]

\* A code with the server's name, or with its load.
CustomEntries ==
  [i \in 1 .. Cardinality(Listed) |-> LET c == Sorted(Listed)[i] IN <<c, servers[c][2]>>]
PlainEntries ==
  [i \in 1 .. Cardinality(Listed) |-> LET c == Sorted(Listed)[i] IN <<c, userTotal[c]>>]

\* The sizes the generators count up to.
CustomSize == CustomHeaderSize + CustomEntrySize * Len(CustomEntries)
PlainSize == PlainHeaderSize + PlainEntrySize * Len(PlainEntries)

CustomList == Packet(LargeHeader(4, CustomSize), Len(CustomEntries) % 65536, CustomEntries)
PlainList == Packet(LargeHeader(2, PlainSize), Len(PlainEntries) % 256, PlainEntries)
Info(c) == Packet(SmallHeader(3, InfoSize), 1, <<<<servers[c][3], servers[c][4]>>>>)

----------------------------------------------------------------------------
(* Actions.                                                                *)

Init ==
  /\ LoadInit
  /\ serving = FALSE
  /\ userTotal = [c \in {} |-> 0]
  /\ at = "idle"
  /\ request = NoRequest
  /\ replies = <<>>

\* main goes on after Load, whose locals are gone; what the file said is
\* forgotten with them.
Serve ==
  /\ ~loading /\ ~serving
  /\ serving' = TRUE
  /\ userTotal' = [c \in DOMAIN servers |-> 0]
  /\ lines' = <<>> /\ text' = <<>> /\ pos' = 1 /\ field' = "code" /\ info' = <<>>
  /\ UNCHANGED <<servers, loading, at, request, replies>>

\* A game server's heartbeat, on another worker; unknown codes are ignored.
GameServerLive(c, total) ==
  /\ serving /\ c \in DOMAIN servers
  /\ userTotal' = [userTotal EXCEPT ![c] = total]
  /\ UNCHANGED <<fileVars, serving, at, request, replies>>

\* Mutant: a server is found by the low byte of its code, which is all a request has.
CCServerInfoRecvTruncated(r) ==
  replies' = IF \E c \in Shown : c % 256 = r.code
             THEN <<Info(CHOOSE c \in Shown : c % 256 = r.code)>> ELSE <<>>

\* Unknown and hidden servers get no answer, offline ones do.
CCServerInfoRecv(r) == replies' = IF r.code \in Shown THEN <<Info(r.code)>> ELSE <<>>

\* ConnectServerProtocolCore; anything else is logged and ignored.
Dispatch(r) ==
  /\ at' = IF IsListRequest(r) THEN "custom" ELSE "idle"
  /\ IF IsInfoRequest(r) THEN CCServerInfoRecv(r) ELSE replies' = <<>>

Receive(r) ==
  /\ serving /\ at = "idle"
  /\ request' = r
  /\ Dispatch(r)
  /\ UNCHANGED <<fileVars, serving, userTotal>>

\* A list is built in send[], without a check, and dropped by async_send if it
\* is too long, which is too late.
SendList(place, size, packet, next) ==
  /\ at = place
  /\ IF size <= SendBuffer
     THEN at' = next /\ replies' = Append(replies, packet)
     ELSE at' = "undefined" /\ UNCHANGED replies
  /\ UNCHANGED <<fileVars, serving, userTotal, request>>

CCCustomServerListSend == SendList("custom", CustomSize, CustomList, "plain")
CCServerListRecv == SendList("plain", PlainSize, PlainList, "idle")

Next ==
  \/ Load /\ UNCHANGED serviceVars
  \/ Serve
  \/ \E c \in Code, total \in {0, 1} : GameServerLive(c, total)
  \/ \E r \in Request : Receive(r)
  \/ CCCustomServerListSend
  \/ CCServerListRecv

Spec == Init /\ [][Next]_vars

----------------------------------------------------------------------------
(* Properties.                                                             *)

\* No comment, blank line, newline or quote makes a line of the file run into
\* the next, and a line the tokenizer cannot read loses nothing before it:
\* what is served is what the file says up to there (Load, GetToken).
ServesTheFile == ~serving => LoadsTheList

\* The packet has all the bytes that decide its answer.
Complete(r) ==
  r.size >= CASE IsInfoRequest(r)            -> 5
              [] r.large \/ r.head = "F4"     -> 4
              [] OTHER                        -> 3

Codes(packet) == [i \in DOMAIN packet.entries |-> packet.entries[i][1]]

\* A complete request is answered from its own bytes, whatever lies beyond
\* them in the buffer: a list request by two lists of the same servers, all the
\* shown ones once and in order, though heartbeats come in between; an info
\* request by the address and port of the server with that very code, if that is
\* shown, and never of one whose code only ends in that byte; and nothing else by
\* anything (ConnectServerProtocolCore, its three handlers and the generators).
\* It is what the code does: the state and the queue of the JoinServer, by which the
\* documents have requests refused, keep nobody from an answer.
AnswersTheRequest ==
  at = "idle" /\ Complete(request) =>
    IF IsListRequest(request)
    THEN /\ Len(replies) = 2
         /\ Codes(replies[1]) = Codes(replies[2])
         /\ InOrder(Codes(replies[1]))
         /\ {Codes(replies[1])[i] : i \in DOMAIN replies[1].entries} = Shown
    ELSE replies = IF IsInfoRequest(request) /\ request.code \in Shown
                   THEN <<Packet(SmallHeader(3, InfoSize), 1,
                                 <<SubSeq(servers[request.code], 3, 4)>>)>>
                   ELSE <<>>

\* How many shown servers the longer list has room for: 60.
Capacity == (SendBuffer - CustomHeaderSize) \div CustomEntrySize

\* Up to that number of them nothing is written past send[], however
\* many are hidden (GenerateCustomServerList, GenerateServerList).
ListsFit == at = "undefined" => Cardinality(Shown) > Capacity

=============================================================================
