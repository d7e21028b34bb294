-------------------------- MODULE SendQueueProofs --------------------------
(***************************************************************************)
(* Theorems about SendQueue, for any workers, any packets and any number of *)
(* sends: its types, one write at a time, no packet left behind, and that   *)
(* it implements the first-in first-out PacketChannel.                      *)
(***************************************************************************)
EXTENDS SendQueue, SequenceTheorems, TLAPS

\* The labels a worker has only inside a handler of the strand.
StrandLabel == {"read", "startWrite", "pop", "close", "closeSocket"}

\* Who is where: the strand has one handler, main only ever closes, and a
\* worker about to push holds a packet.
Placed ==
  /\ \A w \in Worker : at[w] \in StrandLabel => strand = w
  /\ \A w \in Worker : at[w] = "idle" => strand # w
  /\ \A w \in Worker : at[w] # "done"
  /\ at[Main] \in {"idle", "close", "closeSocket", "done"}
  /\ \A w \in Worker : at[w] = "push" => msg[w] \in Packet

\* What write_in_progress_ means.  While it is set, a write is outstanding or
\* the strand is at work on the last one's end, unless the session is closed;
\* while it is not, whoever has queued a packet has something on its way.
Writing ==
  /\ writeOp # "none" => writing
  /\ \A w \in Worker : at[w] = "pop" => writing /\ queue # <<>>
  /\ connected /\ writing =>
       \/ writeOp # "none"
       \/ \E w \in Worker : at[w] \in {"pop", "startWrite", "close"}
  /\ connected /\ ~writing /\ queue # <<>> =>
       \/ posted > 0
       \/ \E w \in Worker : at[w] \in {"post", "startWrite"}

Inv == TypeOK /\ Placed /\ Writing /\ OneWriteAtATime

\* Nothing is queued initially.
LEMMA InvInit == Init => Inv
<1>. SUFFICES ASSUME Init PROVE Inv
  OBVIOUS
<1>. USE SendAssumption DEF Init, Thread
<1>1. TypeOK
  <2>1. <<>> \in Seq(Packet)
    OBVIOUS
  <2>2. /\ at \in [Thread -> {"idle", "read", "push", "post", "startWrite", "pop",
                             "close", "closeSocket", "done"}]
        /\ msg \in [Worker -> Packet \cup {NoPacket}]
    OBVIOUS
  <2>3. sends \in 0 .. MaxSends
    OBVIOUS
  <2>. QED
    BY <2>1, <2>2, <2>3 DEF TypeOK
<1>2. Placed
  BY DEF Placed, StrandLabel
<1>3. Writing /\ OneWriteAtATime
  BY DEF Writing, OneWriteAtATime
<1>. QED
  BY <1>1, <1>2, <1>3 DEF Inv

\* async_send preserves the invariant.
LEMMA InvSender ==
  ASSUME Inv, NEW w \in Worker, Sender(w) PROVE Inv'
<1>. USE SendAssumption DEF Inv, Thread, opVars, sendVars, Goto
<1>1. ASSUME NEW p \in Packet, BeginSend(w, p) PROVE Inv'
  <2>. USE <1>1 DEF BeginSend
  <2>1. TypeOK'
    BY DEF TypeOK
  <2>2. Placed'
    BY DEF Placed, StrandLabel, TypeOK
  <2>3. Writing' /\ OneWriteAtATime'
    BY DEF Writing, OneWriteAtATime, TypeOK
  <2>. QED
    BY <2>1, <2>2, <2>3
<1>2. CASE Push(w)
  <2>. USE <1>2 DEF Push
  <2>1. msg[w] \in Packet
    BY DEF Placed
  <2>2. /\ queue' \in Seq(Packet) /\ queue' # <<>>
        /\ queue # <<>> => Head(queue') = Head(queue)
    BY <2>1 DEF TypeOK
  <2>3. TypeOK'
    BY <2>2 DEF TypeOK
  <2>4. Placed'
    BY DEF Placed, StrandLabel, TypeOK
  <2>5. Writing' /\ OneWriteAtATime'
    BY <2>2 DEF Writing, OneWriteAtATime, TypeOK
  <2>. QED
    BY <2>3, <2>4, <2>5
<1>3. CASE Post(w)
  <2>. USE <1>3 DEF Post, SendReturns
  <2>1. TypeOK'
    BY DEF TypeOK
  <2>2. Placed'
    BY DEF Placed, StrandLabel, TypeOK
  <2>3. Writing' /\ OneWriteAtATime'
    BY DEF Writing, OneWriteAtATime, TypeOK
  <2>. QED
    BY <2>1, <2>2, <2>3
<1>. QED
  BY <1>1, <1>2, <1>3 DEF Sender

\* The read handlers and the functions async_send posts.
LEMMA InvRead ==
  ASSUME Inv, NEW w \in Worker,
         \/ HandleRead(w) \/ ReadDone(w) \/ ReadFails(w)
         \/ RunPostedBusy(w) \/ RunPosted(w)
  PROVE  Inv'
<1>. USE SendAssumption
     DEF Inv, Thread, opVars, sendVars, Goto, Ready, Enter, Leave,
         HandleRead, ReadDone, ReadFails, RunPostedBusy, RunPosted
<1>1. TypeOK'
  BY DEF TypeOK
<1>2. Placed'
  BY DEF Placed, StrandLabel, TypeOK
<1>3. OneWriteAtATime'
  BY DEF Placed, StrandLabel, Writing, OneWriteAtATime, TypeOK
<1>4. Writing'
  <2>1. CASE HandleRead(w) \/ ReadDone(w) \/ ReadFails(w)
    BY <2>1 DEF Writing, TypeOK
  <2>2. CASE RunPostedBusy(w)
    BY <2>2 DEF Writing, TypeOK
  <2>3. CASE RunPosted(w)
    BY <2>3 DEF Writing, TypeOK
  <2>. QED
    BY <2>1, <2>2, <2>3
<1>. QED
  BY <1>1, <1>2, <1>3, <1>4

\* start_write and handle_write.
LEMMA InvWrite ==
  ASSUME Inv, NEW w \in Worker,
         \/ StartWriteNothing(w) \/ StartWrite(w)
         \/ HandleWrite(w) \/ Pop(w) \/ HandleWriteError(w)
  PROVE  Inv'
<1>. USE SendAssumption
     DEF Inv, Thread, opVars, sendVars, Goto, Ready, Enter, Leave
<1>1. \A v \in Worker \ {w} : at[w] \in StrandLabel => at[v] \notin StrandLabel
  BY DEF Placed
<1>2. CASE StartWriteNothing(w)
  <2>. USE <1>2 DEF StartWriteNothing
  <2>1. TypeOK' /\ Placed'
    BY DEF TypeOK, Placed, StrandLabel
  <2>2. OneWriteAtATime'
    BY DEF OneWriteAtATime, TypeOK
  <2>3. Writing'
    BY <1>1 DEF Writing, OneWriteAtATime, TypeOK, StrandLabel
  <2>. QED
    BY <2>1, <2>2, <2>3
<1>3. CASE StartWrite(w)
  <2>. USE <1>3 DEF StartWrite
  <2>1. TypeOK' /\ Placed'
    BY DEF TypeOK, Placed, StrandLabel
  <2>2. OneWriteAtATime'
    BY <1>1 DEF OneWriteAtATime, TypeOK, StrandLabel
  <2>3. Writing'
    BY DEF Writing, TypeOK
  <2>. QED
    BY <2>1, <2>2, <2>3
<1>4. CASE HandleWrite(w)
  <2>. USE <1>4 DEF HandleWrite
  <2>1. TypeOK' /\ Placed'
    BY DEF TypeOK, Placed, StrandLabel
  <2>2. OneWriteAtATime'
    BY DEF OneWriteAtATime, TypeOK
  <2>3. Writing'
    BY DEF Writing, OneWriteAtATime, TypeOK
  <2>. QED
    BY <2>1, <2>2, <2>3
<1>5. CASE Pop(w)
  <2>. USE <1>5 DEF Pop
  <2>1. TypeOK' /\ Placed'
    BY DEF TypeOK, Placed, StrandLabel, Writing
  <2>2. OneWriteAtATime'
    BY DEF OneWriteAtATime, TypeOK
  <2>3. Writing'
    BY <1>1 DEF Writing, OneWriteAtATime, TypeOK, StrandLabel
  <2>. QED
    BY <2>1, <2>2, <2>3
<1>6. CASE HandleWriteError(w)
  <2>. USE <1>6 DEF HandleWriteError
  <2>1. TypeOK' /\ Placed'
    BY DEF TypeOK, Placed, StrandLabel
  <2>2. OneWriteAtATime'
    BY DEF OneWriteAtATime, TypeOK
  <2>3. Writing'
    BY DEF Writing, TypeOK
  <2>. QED
    BY <2>1, <2>2, <2>3
<1>. QED
  BY <1>2, <1>3, <1>4, <1>5, <1>6

\* close, and the network.
LEMMA InvClose ==
  ASSUME Inv,
         \/ \E t \in Thread : Close(t)
         \/ MainCloses \/ Written \/ WriteFails
  PROVE  Inv'
<1>. USE SendAssumption DEF Inv, Thread, opVars, sendVars, Goto, Leave
<1>1. ASSUME NEW t \in Thread, Close(t) PROVE Inv'
  <2>. USE DEF Close, CloseAgain, CloseMark, CloseSocket, CloseReturns
  <2>1. TypeOK'
    BY <1>1 DEF TypeOK
  <2>2. Placed'
    BY <1>1 DEF Placed, StrandLabel, TypeOK
  <2>3. OneWriteAtATime'
    BY <1>1 DEF OneWriteAtATime, TypeOK
  <2>4. Writing'
    <3>1. CASE CloseAgain(t) \/ CloseMark(t)
      BY <3>1 DEF Writing, TypeOK
    <3>2. CASE CloseSocket(t)
      BY <3>2 DEF Writing, TypeOK
    <3>. QED
      BY <1>1, <3>1, <3>2
  <2>. QED
    BY <2>1, <2>2, <2>3, <2>4
<1>2. CASE MainCloses
  <2>. USE <1>2 DEF MainCloses
  <2>1. TypeOK' /\ Placed'
    BY DEF TypeOK, Placed, StrandLabel
  <2>2. OneWriteAtATime' /\ Writing'
    BY DEF OneWriteAtATime, Writing, TypeOK
  <2>. QED
    BY <2>1, <2>2
<1>3. CASE Written \/ WriteFails
  <2>. USE <1>3 DEF Written, WriteFails
  <2>1. inFlight \in Packet
    BY DEF TypeOK, OneWriteAtATime
  <2>2. Append(wire, inFlight) \in Seq(Packet)
    BY <2>1 DEF TypeOK
  <2>3. TypeOK'
    BY <2>2 DEF TypeOK
  <2>4. Placed'
    BY DEF Placed, StrandLabel
  <2>5. OneWriteAtATime' /\ Writing'
    BY DEF OneWriteAtATime, Writing, TypeOK
  <2>. QED
    BY <2>3, <2>4, <2>5
<1>. QED
  BY <1>1, <1>2, <1>3

\* Every step preserves the invariant.
LEMMA InvNext == Inv /\ [Next]_vars => Inv'
<1>. SUFFICES ASSUME Inv, [Next]_vars PROVE Inv'
  OBVIOUS
<1>1. CASE UNCHANGED vars
  BY <1>1 DEF Inv, TypeOK, Placed, Writing, OneWriteAtATime,
              vars, opVars, sendVars
<1>2. CASE Next
  BY <1>2, InvSender, InvRead, InvWrite, InvClose DEF Next, Strand
<1>. QED
  BY <1>1, <1>2

\* The inductive invariant.
LEMMA Invariance == Spec => []Inv
  BY InvInit, InvNext, PTL DEF Spec

\* The sending side stays well typed: labels, operation and queues in range,
\* the count of posted functions never below zero.
THEOREM SendTypeCorrect == Spec => []TypeOK
<1>1. Inv => TypeOK
  BY DEF Inv
<1>. QED
  BY Invariance, <1>1, PTL

\* However many threads send and whenever close() comes, at most one async_write
\* is outstanding and its buffer stays at the front of the queue.
THEOREM WritesDoNotOverlap == Spec => []OneWriteAtATime
<1>1. Inv => OneWriteAtATime
  BY DEF Inv
<1>. QED
  BY Invariance, <1>1, PTL

\* No packet queued on a connected session is forgotten: something that will
\* write it, or close the session, is always on its way.
THEOREM PacketsAreNotForgotten == Spec => []NoPacketLeftBehind
<1>1. Inv => NoPacketLeftBehind
  BY DEF Inv, Writing, NoPacketLeftBehind
<1>. QED
  BY Invariance, <1>1, PTL

----------------------------------------------------------------------------
(* The refinement of PacketChannel.  A packet changes from the backlog to   *)
(* the wire when its write completes; popping it later changes nothing.     *)

\* The front of the queue is on the wire already.
Delivered == writeOp = "ok" \/ \E w \in Worker : at[w] = "pop"

\* The abstract backlog is the queue, less a front that is on the wire already.
LEMMA Backlog == Undelivered = IF Delivered THEN Tail(queue) ELSE queue
  BY DEF Undelivered, Delivered

\* A packet that is on the wire and not popped is still in the queue.
LEMMA DeliveredInQueue == ASSUME Inv, Delivered PROVE queue # <<>>
  BY DEF Inv, Delivered, OneWriteAtATime, Writing

\* Appending to a sequence that is not empty and taking its head away commute.
LEMMA TailAppend ==
  ASSUME NEW S, NEW q \in Seq(S), q # <<>>, NEW e \in S
  PROVE  Tail(Append(q, e)) = Append(Tail(q), e)
<1>1. /\ Tail(q) \in Seq(S) /\ Len(Tail(q)) = Len(q) - 1
      /\ \A i \in 1 .. Len(q) - 1 : Tail(q)[i] = q[i + 1]
  BY HeadTailProperties
<1>2. /\ Append(q, e) \in Seq(S) /\ Append(q, e) # <<>>
      /\ Len(Append(q, e)) = Len(q) + 1
      /\ \A i \in 1 .. Len(q) : Append(q, e)[i] = q[i]
      /\ Append(q, e)[Len(q) + 1] = e
  OBVIOUS
<1>3. /\ Tail(Append(q, e)) \in Seq(S)
      /\ Len(Tail(Append(q, e))) = Len(q)
      /\ \A i \in 1 .. Len(q) : Tail(Append(q, e))[i] = Append(q, e)[i + 1]
  BY <1>2, HeadTailProperties, LenProperties
<1>4. /\ Append(Tail(q), e) \in Seq(S)
      /\ Len(Append(Tail(q), e)) = Len(q)
      /\ \A i \in 1 .. Len(q) - 1 : Append(Tail(q), e)[i] = Tail(q)[i]
      /\ Append(Tail(q), e)[Len(q)] = e
  BY <1>1, LenProperties
<1>5. \A i \in 1 .. Len(q) : Tail(Append(q, e))[i] = Append(Tail(q), e)[i]
  <2>1. Len(q) \in Nat \ {0}
    BY EmptySeq
  <2>. TAKE i \in 1 .. Len(q)
  <2>2. Tail(Append(q, e))[i] = Append(q, e)[i + 1]
    BY <1>3
  <2>3. CASE i = Len(q)
    BY <1>2, <1>4, <2>2, <2>3
  <2>4. CASE i # Len(q)
    <3>1. i \in 1 .. Len(q) - 1 /\ i + 1 \in 1 .. Len(q)
      BY <2>1, <2>4
    <3>2. Append(q, e)[i + 1] = q[i + 1]
      BY <1>2, <3>1
    <3>3. Append(Tail(q), e)[i] = q[i + 1]
      BY <1>1, <1>4, <3>1
    <3>. QED
      BY <2>2, <3>2, <3>3
  <2>. QED
    BY <2>3, <2>4
<1>. QED
  BY <1>3, <1>4, <1>5, SeqEqual

\* Initial states map to initial states.
LEMMA ChannelInit == Init => Channel!Init
  BY SendAssumption DEF Init, Thread, Undelivered, Channel!Init

\* A step that leaves queue, wire and Delivered alone is a stutter.
LEMMA Stutter ==
  ASSUME queue' = queue, wire' = wire, Delivered' <=> Delivered
  PROVE  Undelivered' = Undelivered /\ wire' = wire
  BY Backlog DEF Undelivered, Delivered

\* Every step is a step of the channel, or changes nothing it sees.
LEMMA ChannelStep ==
  ASSUME Inv, Inv', Next
  PROVE  Channel!Next \/ (Undelivered' = Undelivered /\ wire' = wire)
<1>. USE SendAssumption DEF opVars, sendVars, Goto, Enter, Leave, Ready, Thread
<1>1. ASSUME NEW w \in Worker, Push(w) PROVE Channel!Put(msg[w]) /\ msg[w] \in Packet
  <2>. USE <1>1 DEF Push
  <2>1. msg[w] \in Packet /\ queue \in Seq(Packet)
    BY DEF Inv, Placed, TypeOK
  <2>2. Delivered' <=> Delivered
    BY DEF Delivered, Inv, TypeOK
  <2>3. CASE Delivered
    BY <2>1, <2>2, <2>3, DeliveredInQueue, TailAppend DEF Channel!Put, Undelivered, Delivered
  <2>4. CASE ~Delivered
    BY <2>1, <2>2, <2>4 DEF Channel!Put, Undelivered, Delivered
  <2>. QED
    BY <2>1, <2>3, <2>4
<1>2. CASE Written
  <2>. USE <1>2 DEF Written
  <2>1. queue # <<>> /\ inFlight = Head(queue) /\ ~Delivered
    BY DEF Inv, OneWriteAtATime, Delivered
  <2>2. Undelivered = queue /\ Undelivered' = Tail(queue)
    BY <2>1 DEF Undelivered, Delivered
  <2>. QED
    BY <2>1, <2>2 DEF Channel!Next, Channel!Deliver
<1>3. ASSUME NEW w \in Worker, Pop(w) PROVE Undelivered' = Undelivered /\ wire' = wire
  <2>. USE <1>3 DEF Pop
  <2>1. Delivered
    BY DEF Delivered
  <2>2. ~Delivered'
    BY DEF Delivered, Inv, OneWriteAtATime, Placed, StrandLabel, TypeOK
  <2>. QED
    BY <2>1, <2>2 DEF Undelivered, Delivered
<1>4. ASSUME NEW w \in Worker, HandleWrite(w)
      PROVE Undelivered' = Undelivered /\ wire' = wire
  <2>. USE <1>4 DEF HandleWrite
  <2>1. Delivered /\ Delivered'
    BY DEF Delivered, Inv, TypeOK
  <2>. QED
    BY <2>1, Stutter
<1>5. ASSUME NEW w \in Worker,
             \/ HandleWriteError(w) \/ HandleRead(w) \/ ReadDone(w) \/ ReadFails(w)
             \/ RunPostedBusy(w) \/ RunPosted(w)
             \/ StartWriteNothing(w) \/ StartWrite(w) \/ Post(w)
             \/ \E p \in Packet : BeginSend(w, p)
      PROVE Undelivered' = Undelivered /\ wire' = wire
  <2>1. queue' = queue /\ wire' = wire
    BY <1>5 DEF HandleWriteError, HandleRead, ReadDone, ReadFails, RunPostedBusy,
         RunPosted, StartWriteNothing, StartWrite, Post, SendReturns, BeginSend
  <2>2. \A v \in Worker : at'[v] = "pop" <=> at[v] = "pop"
    BY <1>5 DEF HandleWriteError, HandleRead, ReadDone, ReadFails, RunPostedBusy,
         RunPosted, StartWriteNothing, StartWrite, Post, SendReturns, BeginSend,
         Inv, TypeOK
  <2>3. writeOp' = "ok" <=> writeOp = "ok"
    BY <1>5 DEF HandleWriteError, HandleRead, ReadDone, ReadFails, RunPostedBusy,
         RunPosted, StartWriteNothing, StartWrite, Post, SendReturns, BeginSend,
         Inv, OneWriteAtATime
  <2>. QED
    BY <2>1, <2>2, <2>3, Stutter DEF Delivered
<1>6. ASSUME \/ \E t \in Thread : Close(t)
             \/ MainCloses \/ WriteFails
      PROVE Undelivered' = Undelivered /\ wire' = wire
  <2>. USE DEF Close, CloseAgain, CloseMark, CloseSocket, CloseReturns,
               MainCloses, WriteFails
  <2>1. queue' = queue /\ wire' = wire
    BY <1>6
  <2>2. \A v \in Worker : at'[v] = "pop" <=> at[v] = "pop"
    BY <1>6 DEF Inv, TypeOK
  <2>3. writeOp' = "ok" <=> writeOp = "ok"
    BY <1>6
  <2>. QED
    BY <2>1, <2>2, <2>3, Stutter DEF Delivered
<1>. QED
  BY <1>1, <1>2, <1>3, <1>4, <1>5, <1>6 DEF Next, Sender, Strand, Channel!Next

\* The sending side implements the first-in first-out channel: for any number
\* of senders and packets the peer is sent what was queued, in order and once.
THEOREM SendQueueRefinesChannel == Spec => SendsInOrder
<1>1. Inv /\ Inv' /\ [Next]_vars => [Channel!Next]_<<Undelivered, wire>>
  <2>. SUFFICES ASSUME Inv, Inv', [Next]_vars
                PROVE  Channel!Next \/ (Undelivered' = Undelivered /\ wire' = wire)
    OBVIOUS
  <2>1. CASE UNCHANGED vars
    BY <2>1, Stutter DEF vars, opVars, Delivered
  <2>2. CASE Next
    BY <2>2, ChannelStep
  <2>. QED
    BY <2>1, <2>2
<1>. QED
  BY Invariance, ChannelInit, <1>1, PTL DEF Spec, SendsInOrder, Channel!Spec

=============================================================================
