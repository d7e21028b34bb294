--------------------------- MODULE SocketManager ---------------------------
(***************************************************************************)
(* The TCP side of the server: SocketManager (accept loop, slot table,      *)
(* stop), the life of the ClientSession objects it hands its slots to, and  *)
(* the address table both of them update (src/src/SocketManager.cpp,        *)
(* ClientSession.cpp, IpManager.cpp, main.cpp).                             *)
(*                                                                         *)
(* Worker threads run io_context.run(): an idle worker picks a completed    *)
(* operation and executes its handler.  The accept handler belongs to no    *)
(* strand; a session's read and write handlers belong to the strand of that *)
(* session, so at most one worker is inside them.  The main thread waits    *)
(* and then runs stop().  A handler is cut into steps wherever it reads or  *)
(* writes state another thread can touch.                                  *)
(***************************************************************************)
EXTENDS IpManager, FiniteSets

CONSTANTS
  Worker, Main,      \* the threads
  Session,           \* the ClientSession objects, reused once unreferenced
  NoSession,         \* a null shared_ptr
  NoThread,          \* the owner of a mutex nobody holds
  MaxClient,         \* MAX_CLIENT
  PeerMayVanish,     \* whether remote_endpoint() may fail after an accept
  MaxReplies,        \* bound: replies one read gives rise to
  CountCap           \* bound: no more clients once a counter drifts this far

ASSUME SocketAssumption ==
  /\ Main \notin Worker
  /\ NoThread \notin Worker \cup {Main}
  /\ NoSession \notin Session
  /\ MaxClient \in Nat \ {0}
  /\ PeerMayVanish \in BOOLEAN
  /\ MaxReplies \in Nat
  /\ CountCap \in Nat

Thread == Worker \cup {Main}
Slot == 0 .. MaxClient - 1

\* Where a thread is.  The labels of the accept handler, of close(), of the
\* strand handlers and of the main thread are disjoint but for close(), which
\* both a strand handler and stop() call.
AcceptLabel == {"store", "count", "insertFind", "insertWrite", "start",
                "sendInit", "startRead", "rearm", "findIndex", "scan"}
CloseLabel == {"closeCheck", "closeMark", "removeFind", "removeWrite",
               "uncountRead", "uncountWrite"}
StrandLabel == {"parse"} \cup CloseLabel
MainLabel == {"up", "stop", "stopLock", "sweep", "joining", "joined"}

VARIABLES
  running,      \* SocketManager::running_
  ioStopped,    \* io_context::stop() was called: no handler starts any more
  acceptOp,     \* the accept operation, or the 100 ms retry timer
  incoming,     \* the session captured by the accept operation
  sessions,     \* SocketManager::sessions_
  mutex,        \* the owner of sessions_mutex_
  cursor,       \* the loop index of the thread that holds it
  index,        \* ClientSession::index_
  connected,    \* ClientSession::connected_
  peer,         \* the address at the other end of the socket
  readOp,       \* the session's read operation
  writeOp,      \* the session's queue of sends: idle, being written, failed
  ipTable,      \* gIpManager
  clientCount,  \* gClientCount
  at,           \* where each thread is
  cur,          \* the session the thread's handler works for
  tmp           \* the value the thread has read and not yet written back

sessionVars == <<index, connected, peer, readOp, writeOp>>
countVars == <<ipTable, clientCount>>
threadVars == <<at, cur, tmp>>
tableVars == <<sessions, mutex, cursor>>
acceptVars == <<running, ioStopped, acceptOp, incoming>>
vars == <<acceptVars, tableVars, sessionVars, countVars, threadVars>>

TypeOK ==
  /\ running \in BOOLEAN
  /\ ioStopped \in BOOLEAN
  /\ acceptOp \in {"none", "pending", "ok", "err", "retry"}
  /\ incoming \in Session \cup {NoSession}
  /\ sessions \in [Slot -> Session \cup {NoSession}]
  /\ mutex \in Thread \cup {NoThread}
  /\ cursor \in 0 .. MaxClient
  /\ index \in [Session -> Slot]
  /\ connected \in [Session -> BOOLEAN]
  /\ peer \in [Session -> Addr]
  /\ readOp \in [Session -> {"none", "pending", "data", "err"}]
  /\ writeOp \in [Session -> {"none", "pending", "err"}]
  /\ ipTable \in [Addr -> Count]
  /\ clientCount \in Int
  /\ at \in [Thread -> {"idle"} \cup AcceptLabel \cup StrandLabel \cup MainLabel]
  /\ cur \in [Thread -> Session \cup {NoSession}]
  /\ tmp \in [Thread -> Int]

----------------------------------------------------------------------------
(* Helpers.                                                                *)

Unlocked == mutex = NoThread

\* No handler runs for s and none of its operations is outstanding.
Idle(s) ==
  /\ \A t \in Thread : cur[t] # s
  /\ readOp[s] = "none" /\ writeOp[s] = "none"

\* A session no shared_ptr refers to: its object is gone, its name is free.
Unreferenced(s) ==
  /\ incoming # s
  /\ \A i \in Slot : sessions[i] # s
  /\ Idle(s)

\* Bound: a name is, or will be, free for the session that start_accept makes
\* once the incoming one is in its slot.
NameToSpare ==
  \E s \in Session \ {incoming} :
    Idle(s) /\ \A i \in Slot : sessions[i] = s => i = index[incoming]

\* The strand of s runs one handler at a time.
StrandFree(s) == \A w \in Worker : at[w] \in StrandLabel => cur[w] # s

\* A worker that io_context::run can give a handler to.
Ready(w) == at[w] = "idle" /\ ~ioStopped

\* Mutant: a slot counts as free when no read is armed for its session.
SlotFreeUnread(i) == sessions[i] # NoSession => readOp[sessions[i]] # "pending"

\* find_free_index takes a slot that is empty or whose session is closed.
SlotFree(i) == sessions[i] # NoSession => ~connected[sessions[i]]

\* async_send to the session in slot i: dropped unless it is connected.
Send(i) ==
  LET s == sessions[i] IN
    writeOp' = IF s # NoSession /\ connected[s] /\ writeOp[s] = "none"
               THEN [writeOp EXCEPT ![s] = "pending"] ELSE writeOp

\* start_read: arms a read only while the session is connected.
ArmRead(s) ==
  readOp' = [readOp EXCEPT ![s] = IF connected[s] THEN "pending" ELSE "none"]

\* socket_.close(): what is still in flight completes with an error.
Aborted(op) == IF op = "pending" THEN "err" ELSE op

Goto(t, label) == at' = [at EXCEPT ![t] = label]

\* The thread's handler returns; it drops its shared_ptr.
Finish(t) ==
  /\ Goto(t, "idle")
  /\ cur' = [cur EXCEPT ![t] = NoSession]
  /\ tmp' = [tmp EXCEPT ![t] = 0]

Init ==
  /\ running = TRUE /\ ioStopped = FALSE
  /\ acceptOp = "pending"
  /\ incoming \in Session
  /\ sessions = [i \in Slot |-> NoSession]
  /\ mutex = NoThread /\ cursor = 0
  /\ index = [s \in Session |-> 0]
  /\ connected = [s \in Session |-> FALSE]
  /\ peer \in {[s \in Session |-> a] : a \in Addr}
  /\ readOp = [s \in Session |-> "none"]
  /\ writeOp = [s \in Session |-> "none"]
  /\ ipTable = EmptyTable /\ clientCount = 0
  /\ at = [t \in Thread |-> IF t = Main THEN "up" ELSE "idle"]
  /\ cur = [t \in Thread |-> NoSession]
  /\ tmp = [t \in Thread |-> 0]

----------------------------------------------------------------------------
(* The environment: clients, the network, the reactor.                     *)

\* A client's connection completes the accept.  The last conjuncts are the
\* model's bounds: a name is left for the next session, and the counters
\* have not drifted past CountCap.
ClientConnects ==
  /\ acceptOp = "pending"
  /\ acceptOp' = "ok"
  /\ \E a \in Addr : peer' = [peer EXCEPT ![incoming] = a]
  /\ NameToSpare
  /\ clientCount \in -CountCap .. CountCap
  /\ \A a \in Addr : ipTable[a] < CountCap
  /\ UNCHANGED <<running, ioStopped, incoming, tableVars, index, connected,
                 readOp, writeOp, countVars, threadVars>>

\* accept() fails, for instance because the process is out of descriptors.
AcceptFails ==
  /\ acceptOp = "pending"
  /\ acceptOp' = "err"
  /\ UNCHANGED <<running, ioStopped, incoming, tableVars, sessionVars,
                 countVars, threadVars>>

\* Bytes arrive, or the peer closes or resets the connection.
ReadCompletes(s) ==
  /\ readOp[s] = "pending"
  /\ \E r \in {"data", "err"} : readOp' = [readOp EXCEPT ![s] = r]
  /\ UNCHANGED <<acceptVars, tableVars, index, connected, peer, writeOp,
                 countVars, threadVars>>

\* The queued packets are all written (handle_write pops each and finds no
\* more), or a write fails.
WriteCompletes(s) ==
  /\ writeOp[s] = "pending"
  /\ \E r \in {"none", "err"} : writeOp' = [writeOp EXCEPT ![s] = r]
  /\ UNCHANGED <<acceptVars, tableVars, index, connected, peer, readOp,
                 countVars, threadVars>>

----------------------------------------------------------------------------
(* handle_accept and start_accept.                                         *)

\* An error, a remote_endpoint() that throws and an address over its limit
\* all drop the new session and go on to start_accept.  (close() on it does
\* nothing: it was never connected.)
HandleAcceptDropped(w) ==
  /\ Ready(w)
  /\ \/ acceptOp = "err"
     \/ acceptOp = "ok" /\ PeerMayVanish
     \/ acceptOp = "ok" /\ ~CheckIpAddress(ipTable, peer[incoming])
  /\ acceptOp' = "none" /\ incoming' = NoSession
  /\ Goto(w, "rearm")
  /\ UNCHANGED <<running, ioStopped, tableVars, sessionVars, countVars, cur, tmp>>

HandleAccept(w) ==
  /\ Ready(w)
  /\ acceptOp = "ok"
  /\ CheckIpAddress(ipTable, peer[incoming])
  /\ acceptOp' = "none" /\ incoming' = NoSession
  /\ cur' = [cur EXCEPT ![w] = incoming]
  /\ Goto(w, "store")
  /\ UNCHANGED <<running, ioStopped, tableVars, sessionVars, countVars, tmp>>

\* sessions_[index] = session, and the read of gClientCount++.
Store(w) ==
  /\ at[w] = "store"
  /\ Unlocked
  /\ mutex' = w
  /\ sessions' = [sessions EXCEPT ![index[cur[w]]] = cur[w]]
  /\ tmp' = [tmp EXCEPT ![w] = clientCount]
  /\ Goto(w, "count")
  /\ UNCHANGED <<acceptVars, cursor, sessionVars, countVars, cur>>

\* The write of gClientCount++, and the unlock.
CountUp(w) ==
  /\ at[w] = "count"
  /\ clientCount' = tmp[w] + 1
  /\ mutex' = NoThread
  /\ Goto(w, "insertFind")
  /\ UNCHANGED <<acceptVars, sessions, cursor, sessionVars, ipTable, cur, tmp>>

InsertFind(w) ==
  /\ at[w] = "insertFind"
  /\ tmp' = [tmp EXCEPT ![w] = ipTable[peer[cur[w]]]]
  /\ Goto(w, "insertWrite")
  /\ UNCHANGED <<acceptVars, tableVars, sessionVars, countVars, cur>>

InsertWrite(w) ==
  LET a == peer[cur[w]] IN
  /\ at[w] = "insertWrite"
  /\ ipTable' = [ipTable EXCEPT ![a] = AfterInsert(ipTable, a, tmp[w])]
  /\ Goto(w, "start")
  /\ UNCHANGED <<acceptVars, tableVars, sessionVars, clientCount, cur, tmp>>

\* ClientSession::start.
Start(w) ==
  /\ at[w] = "start"
  /\ connected' = [connected EXCEPT ![cur[w]] = TRUE]
  /\ Goto(w, "sendInit")
  /\ UNCHANGED <<acceptVars, tableVars, index, peer, readOp, writeOp,
                 countVars, cur, tmp>>

\* Mutant: the exception leaves handle_accept before start_accept.
StartThrowsOut(w) ==
  /\ at[w] = "start"
  /\ PeerMayVanish
  /\ Finish(w)
  /\ UNCHANGED <<acceptVars, tableVars, sessionVars, countVars>>

\* remote_endpoint() throws in start(): its catch block calls close(), which
\* returns at once because connected_ is still false.
StartThrows(w) ==
  /\ at[w] = "start"
  /\ PeerMayVanish
  /\ Goto(w, "rearm")
  /\ cur' = [cur EXCEPT ![w] = NoSession]
  /\ UNCHANGED <<acceptVars, tableVars, sessionVars, countVars, tmp>>

\* CCServerInitSend: by way of get_session(index_).
SendInit(w) ==
  /\ at[w] = "sendInit"
  /\ Unlocked
  /\ Send(index[cur[w]])
  /\ Goto(w, "startRead")
  /\ UNCHANGED <<acceptVars, tableVars, index, connected, peer, readOp,
                 countVars, cur, tmp>>

StartRead(w) ==
  /\ at[w] = "startRead"
  /\ ArmRead(cur[w])
  /\ Goto(w, "rearm")
  /\ cur' = [cur EXCEPT ![w] = NoSession]
  /\ UNCHANGED <<acceptVars, tableVars, index, connected, peer, writeOp,
                 countVars, tmp>>

\* start_accept after stop(): the accept loop ends.
RearmStopped(w) ==
  /\ at[w] = "rearm"
  /\ ~running
  /\ Finish(w)
  /\ UNCHANGED <<acceptVars, tableVars, sessionVars, countVars>>

\* start_accept before stop(), or just before it: stop() may clear running_ and
\* sweep the table from here on.
Rearm(w) ==
  /\ at[w] = "rearm"
  /\ running
  /\ Goto(w, "findIndex")
  /\ UNCHANGED <<acceptVars, tableVars, sessionVars, countVars, cur, tmp>>

\* find_free_index locks the table.
FindFreeIndex(w) ==
  /\ at[w] = "findIndex"
  /\ Unlocked
  /\ mutex' = w /\ cursor' = 0
  /\ Goto(w, "scan")
  /\ UNCHANGED <<acceptVars, sessions, sessionVars, countVars, cur, tmp>>

ScanNext(w) ==
  /\ at[w] = "scan"
  /\ cursor < MaxClient
  /\ ~SlotFree(cursor)
  /\ cursor' = cursor + 1
  /\ UNCHANGED <<acceptVars, sessions, mutex, sessionVars, countVars, threadVars>>

\* A free slot: a new session is made for it and the next accept is armed; an
\* acceptor that stop() has closed meanwhile fails it at once.
ScanFound(w) ==
  /\ at[w] = "scan"
  /\ cursor < MaxClient
  /\ SlotFree(cursor)
  /\ \E s \in Session :
       /\ Unreferenced(s)
       /\ incoming' = s
       /\ index' = [index EXCEPT ![s] = cursor]
       /\ connected' = [connected EXCEPT ![s] = FALSE]
  /\ acceptOp' = IF running THEN "pending" ELSE "err"
  /\ mutex' = NoThread /\ cursor' = 0
  /\ Finish(w)
  /\ UNCHANGED <<running, ioStopped, sessions, peer, readOp, writeOp, countVars>>

\* Mutant: the retry timer is forgotten.
ScanNoneForgets(w) ==
  /\ at[w] = "scan"
  /\ cursor = MaxClient
  /\ mutex' = NoThread /\ cursor' = 0
  /\ Finish(w)
  /\ UNCHANGED <<acceptVars, sessions, sessionVars, countVars>>

\* No free slot: start_accept runs again when a 100 ms timer expires.
ScanNone(w) ==
  /\ at[w] = "scan"
  /\ cursor = MaxClient
  /\ acceptOp' = "retry"
  /\ mutex' = NoThread /\ cursor' = 0
  /\ Finish(w)
  /\ UNCHANGED <<running, ioStopped, incoming, sessions, sessionVars, countVars>>

HandleRetry(w) ==
  /\ Ready(w)
  /\ acceptOp = "retry"
  /\ acceptOp' = "none"
  /\ Goto(w, "rearm")
  /\ UNCHANGED <<running, ioStopped, incoming, tableVars, sessionVars,
                 countVars, cur, tmp>>

----------------------------------------------------------------------------
(* The handlers of a session's strand.                                     *)

HandleRead(w, s) ==
  /\ Ready(w) /\ StrandFree(s)
  /\ readOp[s] \in {"data", "err"}
  /\ readOp' = [readOp EXCEPT ![s] = "none"]
  /\ cur' = [cur EXCEPT ![w] = s]
  /\ \/ /\ readOp[s] = "err"
        /\ Goto(w, "closeCheck")
        /\ UNCHANGED tmp
     \/ /\ readOp[s] = "data"
        /\ \E n \in 0 .. MaxReplies : tmp' = [tmp EXCEPT ![w] = n]
        /\ Goto(w, "parse")
  /\ UNCHANGED <<acceptVars, tableVars, index, connected, peer, writeOp, countVars>>

\* A packet is answered: get_session(index_), then async_send to whatever
\* session that slot holds.
ParseReply(w) ==
  /\ at[w] = "parse"
  /\ tmp[w] > 0
  /\ Unlocked
  /\ Send(index[cur[w]])
  /\ tmp' = [tmp EXCEPT ![w] = @ - 1]
  /\ UNCHANGED <<acceptVars, tableVars, index, connected, peer, readOp,
                 countVars, at, cur>>

\* Mutant: handle_read returns without start_read.
ParseDoneUnread(w) ==
  /\ at[w] = "parse"
  /\ tmp[w] = 0
  /\ Finish(w)
  /\ UNCHANGED <<acceptVars, tableVars, sessionVars, countVars>>

\* Every complete packet is processed: read more.
ParseDone(w) ==
  /\ at[w] = "parse"
  /\ tmp[w] = 0
  /\ ArmRead(cur[w])
  /\ Finish(w)
  /\ UNCHANGED <<acceptVars, tableVars, index, connected, peer, writeOp, countVars>>

\* A packet with a bad header or size: disconnect.
ParseFails(w) ==
  /\ at[w] = "parse"
  /\ tmp[w] = 0
  /\ Goto(w, "closeCheck")
  /\ UNCHANGED <<acceptVars, tableVars, sessionVars, countVars, cur, tmp>>

\* Mutant: a failed write does not close the session.
HandleWriteIgnores(w, s) ==
  /\ Ready(w) /\ StrandFree(s)
  /\ writeOp[s] = "err"
  /\ writeOp' = [writeOp EXCEPT ![s] = "none"]
  /\ UNCHANGED <<acceptVars, tableVars, index, connected, peer, readOp,
                 countVars, threadVars>>

\* handle_write with an error.  (The successful ones are in WriteCompletes.)
HandleWrite(w, s) ==
  /\ Ready(w) /\ StrandFree(s)
  /\ writeOp[s] = "err"
  /\ writeOp' = [writeOp EXCEPT ![s] = "none"]
  /\ cur' = [cur EXCEPT ![w] = s]
  /\ Goto(w, "closeCheck")
  /\ UNCHANGED <<acceptVars, tableVars, index, connected, peer, readOp,
                 countVars, tmp>>

----------------------------------------------------------------------------
(* ClientSession::close, run by a strand handler or, in stop(), by Main.   *)

\* close() returns: a handler ends, stop() goes on to the next slot.
CloseReturns(t) ==
  \/ /\ t # Main
     /\ Finish(t)
     /\ UNCHANGED cursor
  \/ /\ t = Main
     /\ Goto(t, "sweep")
     /\ cur' = [cur EXCEPT ![t] = NoSession]
     /\ tmp' = [tmp EXCEPT ![t] = 0]
     /\ cursor' = cursor + 1

CloseCheckClosed(t) ==
  /\ at[t] = "closeCheck"
  /\ ~connected[cur[t]]
  /\ CloseReturns(t)
  /\ UNCHANGED <<acceptVars, sessions, mutex, sessionVars, countVars>>

\* Mutant: close() runs again on a session that is closed already.
CloseUnchecked(t) ==
  /\ at[t] = "closeCheck"
  /\ Goto(t, "closeMark")
  /\ UNCHANGED <<acceptVars, tableVars, sessionVars, countVars, cur, tmp>>

CloseCheckOpen(t) ==
  /\ at[t] = "closeCheck"
  /\ connected[cur[t]]
  /\ Goto(t, "closeMark")
  /\ UNCHANGED <<acceptVars, tableVars, sessionVars, countVars, cur, tmp>>

CloseMark(t) ==
  /\ at[t] = "closeMark"
  /\ connected' = [connected EXCEPT ![cur[t]] = FALSE]
  /\ Goto(t, "removeFind")
  /\ UNCHANGED <<acceptVars, tableVars, index, peer, readOp, writeOp,
                 countVars, cur, tmp>>

RemoveFind(t) ==
  /\ at[t] = "removeFind"
  /\ tmp' = [tmp EXCEPT ![t] = ipTable[peer[cur[t]]]]
  /\ Goto(t, "removeWrite")
  /\ UNCHANGED <<acceptVars, tableVars, sessionVars, countVars, cur>>

RemoveWrite(t) ==
  LET a == peer[cur[t]] IN
  /\ at[t] = "removeWrite"
  /\ ipTable' = [ipTable EXCEPT ![a] = AfterRemove(ipTable, a, tmp[t])]
  /\ Goto(t, "uncountRead")
  /\ UNCHANGED <<acceptVars, tableVars, sessionVars, clientCount, cur, tmp>>

\* The read of gClientCount--.
CountDownRead(t) ==
  /\ at[t] = "uncountRead"
  /\ tmp' = [tmp EXCEPT ![t] = clientCount]
  /\ Goto(t, "uncountWrite")
  /\ UNCHANGED <<acceptVars, tableVars, sessionVars, countVars, cur>>

\* The write of gClientCount--, then socket_.close().
CountDown(t) ==
  /\ at[t] = "uncountWrite"
  /\ clientCount' = tmp[t] - 1
  /\ readOp' = [readOp EXCEPT ![cur[t]] = Aborted(@)]
  /\ writeOp' = [writeOp EXCEPT ![cur[t]] = Aborted(@)]
  /\ CloseReturns(t)
  /\ UNCHANGED <<acceptVars, sessions, mutex, index, connected, peer, ipTable>>

Close(t) ==
  \/ CloseCheckClosed(t) \/ CloseCheckOpen(t) \/ CloseMark(t)
  \/ RemoveFind(t) \/ RemoveWrite(t) \/ CountDownRead(t) \/ CountDown(t)

----------------------------------------------------------------------------
(* The main thread.                                                        *)

\* SIGINT or SIGTERM: the signal handler stops the io_context.
Signal ==
  /\ at[Main] = "up"
  /\ ioStopped' = TRUE
  /\ Goto(Main, "stop")
  /\ UNCHANGED <<running, acceptOp, incoming, tableVars, sessionVars,
                 countVars, cur, tmp>>

\* The console's quit command: only g_running changes.
Quit ==
  /\ at[Main] = "up"
  /\ Goto(Main, "stop")
  /\ UNCHANGED <<acceptVars, tableVars, sessionVars, countVars, cur, tmp>>

\* stop(): running_ = false and acceptor_.close().
StopAccepting ==
  /\ at[Main] = "stop"
  /\ running' = FALSE
  /\ acceptOp' = Aborted(acceptOp)
  /\ Goto(Main, "stopLock")
  /\ UNCHANGED <<ioStopped, incoming, tableVars, sessionVars, countVars, cur, tmp>>

\* Mutant: the sweep begins at the second slot.
StopLockLate ==
  /\ at[Main] = "stopLock"
  /\ Unlocked
  /\ mutex' = Main /\ cursor' = 1
  /\ Goto(Main, "sweep")
  /\ UNCHANGED <<acceptVars, sessions, sessionVars, countVars, cur, tmp>>

StopLock ==
  /\ at[Main] = "stopLock"
  /\ Unlocked
  /\ mutex' = Main /\ cursor' = 0
  /\ Goto(Main, "sweep")
  /\ UNCHANGED <<acceptVars, sessions, sessionVars, countVars, cur, tmp>>

SweepEmpty ==
  /\ at[Main] = "sweep"
  /\ cursor < MaxClient
  /\ sessions[cursor] = NoSession
  /\ cursor' = cursor + 1
  /\ UNCHANGED <<acceptVars, sessions, mutex, sessionVars, countVars, threadVars>>

SweepSession ==
  /\ at[Main] = "sweep"
  /\ cursor < MaxClient
  /\ sessions[cursor] # NoSession
  /\ cur' = [cur EXCEPT ![Main] = sessions[cursor]]
  /\ Goto(Main, "closeCheck")
  /\ UNCHANGED <<acceptVars, tableVars, sessionVars, countVars, tmp>>

\* Mutant: main goes on to join without io_context.stop().
SweepDoneRunning ==
  /\ at[Main] = "sweep"
  /\ cursor = MaxClient
  /\ mutex' = NoThread /\ cursor' = 0
  /\ Goto(Main, "joining")
  /\ UNCHANGED <<acceptVars, sessions, sessionVars, countVars, cur, tmp>>

\* stop() unlocks and returns; main then calls io_context.stop().
SweepDone ==
  /\ at[Main] = "sweep"
  /\ cursor = MaxClient
  /\ mutex' = NoThread /\ cursor' = 0
  /\ ioStopped' = TRUE
  /\ Goto(Main, "joining")
  /\ UNCHANGED <<running, acceptOp, incoming, sessions, sessionVars,
                 countVars, cur, tmp>>

\* The worker threads have returned from io_context::run and are joined.
Join ==
  /\ at[Main] = "joining"
  /\ ioStopped
  /\ \A w \in Worker : at[w] = "idle"
  /\ Goto(Main, "joined")
  /\ UNCHANGED <<acceptVars, tableVars, sessionVars, countVars, cur, tmp>>

Finished == at[Main] = "joined" /\ UNCHANGED vars

----------------------------------------------------------------------------
Environment ==
  \/ ClientConnects \/ AcceptFails
  \/ \E s \in Session : ReadCompletes(s) \/ WriteCompletes(s)

AcceptHandler(w) == HandleAcceptDropped(w) \/ HandleAccept(w) \/ HandleRetry(w)

AcceptStep(w) ==
  \/ Store(w) \/ CountUp(w) \/ InsertFind(w) \/ InsertWrite(w)
  \/ Start(w) \/ StartThrows(w) \/ SendInit(w) \/ StartRead(w)
  \/ RearmStopped(w) \/ Rearm(w) \/ FindFreeIndex(w)
  \/ ScanNext(w) \/ ScanFound(w) \/ ScanNone(w)

SessionHandler(w, s) == HandleRead(w, s) \/ HandleWrite(w, s)

ParseStep(w) == ParseReply(w) \/ ParseDone(w) \/ ParseFails(w)

MainStep ==
  \/ StopAccepting \/ StopLock \/ SweepEmpty \/ SweepSession \/ SweepDone \/ Join

Next ==
  \/ Environment
  \/ \E w \in Worker :
       \/ AcceptHandler(w) \/ AcceptStep(w) \/ ParseStep(w)
       \/ \E s \in Session : SessionHandler(w, s)
  \/ \E t \in Thread : Close(t)
  \/ Signal \/ Quit \/ MainStep
  \/ Finished

Spec == Init /\ [][Next]_vars

\* The scheduler runs every thread: weak fairness of main and of the steps of
\* a handler that has begun.  A worker that answers a packet may find
\* sessions_mutex_ taken by the accept loop time and again, but gets it in the
\* end (strong fairness).  And io_context::run, whose queue of completed
\* operations is first-in first-out, leaves none of them unhandled for ever
\* (strong fairness, for the idle worker an operation waits for may be taken
\* by other operations first).
Fairness ==
  /\ \A w \in Worker : WF_vars(AcceptStep(w)) /\ SF_vars(ParseStep(w))
  /\ \A t \in Thread : WF_vars(Close(t))
  /\ WF_vars(MainStep)
  /\ SF_vars(\E w \in Worker : AcceptHandler(w))
  /\ \A s \in Session : /\ SF_vars(\E w \in Worker : HandleRead(w, s))
                         /\ SF_vars(\E w \in Worker : HandleWrite(w, s))

FairSpec == Spec /\ Fairness

----------------------------------------------------------------------------
(* Properties.                                                             *)

\* w is between the completion of an accept and the arming of the next.
Accepting(w) == at[w] \in AcceptLabel

\* The accept loop is one chain: while the server runs there is an accept
\* operation or a retry timer outstanding, or exactly one worker on its way to
\* arm the next one; never two, which would hand the same slot out twice, and
\* never none, which would leave the server deaf (start_accept, handle_accept).
OneAcceptLoop ==
  /\ \A v, w \in Worker : Accepting(v) /\ Accepting(w) => v = w
  /\ \A w \in Worker : Accepting(w) => acceptOp = "none"
  /\ running /\ acceptOp = "none" => \E w \in Worker : Accepting(w)

\* A connected session is the occupant of the slot it was given: no accept has
\* taken the slot of a live session, so a reply sent by slot index reaches it
\* and stop() finds it (find_free_index, handle_accept, get_session).
SlotOwnership == \A s \in Session : connected[s] => sessions[index[s]] = s

\* A connected session has a read outstanding or a thread at work on it; it
\* would otherwise keep its slot and its address count for ever, since nothing
\* else ever closes it (start_read, handle_read, close).
ConnectedIsServed ==
  \A s \in Session :
    connected[s] => readOp[s] # "none" \/ \E t \in Thread : cur[t] = s

\* The connected sessions of an address.
ConnectedFrom(a) == {s \in Session : connected[s] /\ peer[s] = a}

\* No thread is between an update of the counters and that of connected_.
Settled ==
  \A t \in Thread :
    at[t] \notin {"count", "insertFind", "insertWrite", "start", "removeFind",
                  "removeWrite", "uncountRead", "uncountWrite"}

\* Before stop(), gClientCount and every address's entry count exactly the
\* connected sessions whenever no update is under way (InsertIpAddress,
\* RemoveIpAddress, gClientCount++ and -- pair up over every path of a
\* session's life).
CountsExact ==
  Settled /\ at[Main] \in {"up", "stop"} =>
    /\ clientCount = Cardinality({s \in Session : connected[s]})
    /\ \A a \in Addr : Connections(ipTable[a]) = Cardinality(ConnectedFrom(a))

\* No address has more connected sessions than MaxIpConnection allows, though
\* the check is made in the accept handler and the count taken later
\* (check_ip_limit, InsertIpAddress, start).
IpLimitHolds ==
  MaxIpConnection > 0 =>
    \A a \in Addr : Cardinality(ConnectedFrom(a)) <= MaxIpConnection

\* An address that no connected session comes from has no entry left: a
\* disconnect cleans up after itself (RemoveIpAddress, called by close).
CleanedUpOnDisconnect ==
  Settled /\ at[Main] = "up" =>
    \A a \in Addr : ConnectedFrom(a) = {} => ipTable[a] = NoEntry

\* A reply goes to the session whose packet is being answered, or to nobody
\* (ConnectServerProtocolCore is given the slot index, not the session).
ReplyReachesRequester ==
  \A w \in Worker :
    at[w] = "parse" /\ tmp[w] > 0 =>
      LET target == sessions[index[cur[w]]] IN
        target = NoSession \/ target = cur[w] \/ ~connected[target]

\* stop() closes the sessions its sweep finds, and an accept that had completed
\* before acceptor_.close() may add one behind its back, but its handler arms no
\* other: when stop() has returned, at most one session is still connected
\* (stop, handle_accept, start_accept).
OneSurvivesStop ==
  at[Main] \in {"joining", "joined"} => Cardinality({s \in Session : connected[s]}) <= 1

\* stop() returns and the workers are joined, whatever the handlers that hold
\* or wait for sessions_mutex_ were doing (stop, close, main).
StopCompletes == (at[Main] = "stop") ~> (at[Main] = "joined")

\* While the server runs it is again and again listening, or full: no error,
\* refusal, failed start or full table ends the accept loop (start_accept).
KeepsAccepting ==
  []<>(\/ acceptOp \in {"pending", "ok"}
       \/ \A i \in Slot : ~SlotFree(i)
       \/ ~running \/ ioStopped)

\* A session whose read or write has failed is closed, and its slot freed, or
\* the io_context is stopped (handle_read, handle_write, close).
FailedSessionCloses ==
  \A s \in Session :
    (connected[s] /\ (readOp[s] = "err" \/ writeOp[s] = "err"))
      ~> (~connected[s] \/ ioStopped)

=============================================================================
