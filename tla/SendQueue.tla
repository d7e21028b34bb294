----------------------------- MODULE SendQueue -----------------------------
(***************************************************************************)
(* The sending side of one connected ClientSession: async_send, start_write *)
(* and handle_write over send_queue_ (src/src/ClientSession.cpp:169-231).   *)
(*                                                                         *)
(* Any worker may call async_send: a handler of this session's strand, the  *)
(* accept handler (the init packet), or another session's handler that      *)
(* holds this session's slot index.  What async_send posts, and the         *)
(* completions of reads and writes, run on the strand, one at a time.       *)
(* close() runs on the strand, or on the main thread in stop().             *)
(*                                                                         *)
(* Every section under send_mutex_ is one step; connected_, the one value   *)
(* they read that the mutex does not guard, is read in the same step.       *)
(***************************************************************************)
EXTENDS Integers, Sequences

CONSTANTS
  Worker, Main,   \* the threads
  NoWorker,       \* the strand is free
  Packet,         \* the packets sent
  NoPacket,       \* no buffer is being written
  MaxSends        \* bound: calls of async_send that find the session connected

ASSUME SendAssumption ==
  /\ Main \notin Worker
  /\ NoWorker \notin Worker \cup {Main}
  /\ NoPacket \notin Packet
  /\ MaxSends \in Nat

Thread == Worker \cup {Main}

VARIABLES
  connected,   \* connected_
  queue,       \* send_queue_
  writing,     \* write_in_progress_
  posted,      \* functions posted to the strand and not yet run
  writeOp,     \* the async_write operation
  inFlight,    \* the packet in the buffer that operation was given
  wire,        \* history: the packets the peer was sent
  sends,       \* history: how often async_send was called
  strand,      \* the worker that runs a handler of the strand
  at,          \* where each thread is
  msg          \* the packet a thread's async_send was given

vars == <<connected, queue, writing, posted, writeOp, inFlight, wire, sends,
          strand, at, msg>>
opVars == <<writeOp, inFlight, wire>>
sendVars == <<sends, msg>>

TypeOK ==
  /\ connected \in BOOLEAN
  /\ queue \in Seq(Packet)
  /\ writing \in BOOLEAN
  /\ posted \in Nat
  /\ writeOp \in {"none", "pending", "ok", "err"}
  /\ inFlight \in Packet \cup {NoPacket}
  /\ wire \in Seq(Packet)
  /\ sends \in 0 .. MaxSends
  /\ strand \in Worker \cup {NoWorker}
  /\ at \in [Thread -> {"idle", "read", "push", "post", "startWrite", "pop",
                        "close", "closeSocket", "done"}]
  /\ msg \in [Worker -> Packet \cup {NoPacket}]

Init ==
  /\ connected = TRUE
  /\ queue = <<>> /\ writing = FALSE /\ posted = 0
  /\ writeOp = "none" /\ inFlight = NoPacket /\ wire = <<>>
  /\ sends = 0 /\ msg = [w \in Worker |-> NoPacket]
  /\ strand = NoWorker
  /\ at = [t \in Thread |-> "idle"]

Goto(t, label) == at' = [at EXCEPT ![t] = label]

\* A worker that the strand can give a handler to.
Ready(w) == at[w] = "idle" /\ strand = NoWorker

Enter(w, label) == strand' = w /\ Goto(w, label)

Leave(w) == strand' = NoWorker /\ Goto(w, "idle")

----------------------------------------------------------------------------
(* async_send.  (On a closed session it does nothing.)                     *)

BeginSend(w, p) ==
  /\ at[w] \in {"idle", "read"}
  /\ connected
  /\ sends < MaxSends
  /\ sends' = sends + 1
  /\ msg' = [msg EXCEPT ![w] = p]
  /\ Goto(w, "push")
  /\ UNCHANGED <<connected, queue, writing, posted, opVars, strand>>

Push(w) ==
  /\ at[w] = "push"
  /\ queue' = Append(queue, msg[w])
  /\ Goto(w, "post")
  /\ UNCHANGED <<connected, writing, posted, opVars, sendVars, strand>>

\* async_send returns, into the read handler or to a handler elsewhere.
SendReturns(w) ==
  /\ Goto(w, IF strand = w THEN "read" ELSE "idle")
  /\ UNCHANGED <<connected, queue, writing, opVars, sendVars, strand>>

Post(w) ==
  /\ at[w] = "post"
  /\ posted' = posted + 1
  /\ SendReturns(w)

----------------------------------------------------------------------------
(* The handlers of the strand.                                             *)

\* A read completes: its handler may send, and ends or closes the session.
HandleRead(w) ==
  /\ Ready(w)
  /\ Enter(w, "read")
  /\ UNCHANGED <<connected, queue, writing, posted, opVars, sendVars>>

ReadDone(w) ==
  /\ at[w] = "read"
  /\ Leave(w)
  /\ UNCHANGED <<connected, queue, writing, posted, opVars, sendVars>>

ReadFails(w) ==
  /\ at[w] = "read"
  /\ Goto(w, "close")
  /\ UNCHANGED <<connected, queue, writing, posted, opVars, sendVars, strand>>

\* The posted function finds a write in progress, or calls start_write.
RunPostedBusy(w) ==
  /\ Ready(w)
  /\ posted > 0
  /\ writing
  /\ posted' = posted - 1
  /\ UNCHANGED <<connected, queue, writing, opVars, sendVars, strand, at>>

\* Mutant: write_in_progress_ is not looked at.
RunPostedAlways(w) ==
  /\ Ready(w)
  /\ posted > 0
  /\ posted' = posted - 1
  /\ Enter(w, "startWrite")
  /\ UNCHANGED <<connected, queue, writing, opVars, sendVars>>

RunPosted(w) ==
  /\ Ready(w)
  /\ posted > 0
  /\ ~writing
  /\ posted' = posted - 1
  /\ Enter(w, "startWrite")
  /\ UNCHANGED <<connected, queue, writing, opVars, sendVars>>

\* Mutant: write_in_progress_ is not reset.
StartWriteNothingKeeps(w) ==
  /\ at[w] = "startWrite"
  /\ queue = <<>> \/ ~connected
  /\ Leave(w)
  /\ UNCHANGED <<connected, queue, writing, posted, opVars, sendVars>>

StartWriteNothing(w) ==
  /\ at[w] = "startWrite"
  /\ queue = <<>> \/ ~connected
  /\ writing' = FALSE
  /\ Leave(w)
  /\ UNCHANGED <<connected, queue, posted, opVars, sendVars>>

StartWrite(w) ==
  /\ at[w] = "startWrite"
  /\ queue # <<>> /\ connected
  /\ writing' = TRUE
  /\ writeOp' = "pending" /\ inFlight' = Head(queue)
  /\ Leave(w)
  /\ UNCHANGED <<connected, queue, posted, wire, sendVars>>

\* handle_write without an error pops the packet and goes on to start_write.
HandleWrite(w) ==
  /\ Ready(w)
  /\ writeOp = "ok"
  /\ writeOp' = "none" /\ inFlight' = NoPacket
  /\ Enter(w, "pop")
  /\ UNCHANGED <<connected, queue, writing, posted, wire, sendVars>>

\* Mutant: the packet stays in the queue.
PopNothing(w) ==
  /\ at[w] = "pop"
  /\ Goto(w, "startWrite")
  /\ UNCHANGED <<connected, queue, writing, posted, opVars, sendVars, strand>>

Pop(w) ==
  /\ at[w] = "pop"
  /\ queue' = Tail(queue)
  /\ Goto(w, "startWrite")
  /\ UNCHANGED <<connected, writing, posted, opVars, sendVars, strand>>

HandleWriteError(w) ==
  /\ Ready(w)
  /\ writeOp = "err"
  /\ writeOp' = "none" /\ inFlight' = NoPacket
  /\ Enter(w, "close")
  /\ UNCHANGED <<connected, queue, writing, posted, wire, sendVars>>

----------------------------------------------------------------------------
(* close, on the strand or on the main thread (once, in stop).             *)

CloseReturns(t) ==
  \/ t # Main /\ Leave(t)
  \/ t = Main /\ Goto(t, "done") /\ UNCHANGED strand

MainCloses ==
  /\ at[Main] = "idle"
  /\ Goto(Main, "close")
  /\ UNCHANGED <<connected, queue, writing, posted, opVars, sendVars, strand>>

CloseAgain(t) ==
  /\ at[t] = "close"
  /\ ~connected
  /\ CloseReturns(t)
  /\ UNCHANGED <<connected, queue, writing, posted, opVars, sendVars>>

CloseMark(t) ==
  /\ at[t] = "close"
  /\ connected
  /\ connected' = FALSE
  /\ Goto(t, "closeSocket")
  /\ UNCHANGED <<queue, writing, posted, opVars, sendVars, strand>>

\* socket_.close(): a write in flight is aborted.
CloseSocket(t) ==
  /\ at[t] = "closeSocket"
  /\ writeOp' = IF writeOp = "pending" THEN "err" ELSE writeOp
  /\ CloseReturns(t)
  /\ UNCHANGED <<connected, queue, writing, posted, inFlight, wire, sendVars>>

----------------------------------------------------------------------------
(* The network.                                                            *)

Written ==
  /\ writeOp = "pending"
  /\ writeOp' = "ok"
  /\ wire' = Append(wire, inFlight)
  /\ UNCHANGED <<connected, queue, writing, posted, inFlight, sendVars, strand, at>>

WriteFails ==
  /\ writeOp = "pending"
  /\ writeOp' = "err"
  /\ UNCHANGED <<connected, queue, writing, posted, inFlight, wire, sendVars,
                 strand, at>>

----------------------------------------------------------------------------
Sender(w) == Push(w) \/ Post(w) \/ \E p \in Packet : BeginSend(w, p)

Strand(w) ==
  \/ HandleRead(w) \/ ReadDone(w) \/ ReadFails(w)
  \/ RunPostedBusy(w) \/ RunPosted(w) \/ StartWriteNothing(w) \/ StartWrite(w)
  \/ HandleWrite(w) \/ Pop(w) \/ HandleWriteError(w)

Close(t) == CloseAgain(t) \/ CloseMark(t) \/ CloseSocket(t)

Next ==
  \/ \E w \in Worker : Sender(w) \/ Strand(w)
  \/ \E t \in Thread : Close(t)
  \/ MainCloses \/ Written \/ WriteFails

Spec == Init /\ [][Next]_vars

----------------------------------------------------------------------------
(* Properties.                                                             *)

\* Whoever is about to start a write finds none outstanding, and the packet
\* being written stays at the front of the queue until its write completes:
\* two overlapping async_writes would mix their bytes, and an early pop would
\* free the buffer (start_write, handle_write, the function async_send posts).
OneWriteAtATime ==
  /\ \A w \in Worker : at[w] \in {"startWrite", "pop"} => writeOp = "none"
  /\ writeOp # "none" => queue # <<>> /\ inFlight = Head(queue)

\* A packet in the queue of a connected session has a write outstanding, or a
\* posted function or a thread on its way to start one or to close the session;
\* none is left behind when a write completes just as it is queued (async_send,
\* start_write).
NoPacketLeftBehind ==
  connected /\ queue # <<>> =>
    \/ writeOp # "none" \/ posted > 0
    \/ \E w \in Worker : at[w] \in {"post", "startWrite", "pop", "close"}

\* The packets async_send has queued that are not on the wire.  (A packet that
\* is stays in the queue until handle_write pops it.)
Undelivered ==
  IF writeOp = "ok" \/ \E w \in Worker : at[w] = "pop" THEN Tail(queue) ELSE queue

\* The sending side is a first-in first-out channel: what the peer is sent is
\* what was queued, in that order, nothing twice (async_send, handle_write).
Channel == INSTANCE PacketChannel WITH backlog <- Undelivered

SendsInOrder == Channel!Spec

=============================================================================
