------------------------- MODULE SocketCountProofs -------------------------
(***************************************************************************)
(* Theorems about the numbers of connected sessions in SocketManager.  For  *)
(* every number of workers, at most one session survives stop().  For one   *)
(* worker and peers that do not vanish, gClientCount and the address table  *)
(* count the connected sessions exactly, and no address exceeds its limit.  *)
(*                                                                         *)
(* The invariants stand on those of SocketManagerProofs: Typing, ChainInv   *)
(* and ServedInv.                                                           *)
(***************************************************************************)
EXTENDS SocketManagerProofs, FiniteSetTheorems

\* What SocketManagerProofs has shown of every reachable state.
Base == Typing /\ ChainInv /\ ServedInv

\* Base is an invariant.
LEMMA BaseInit == Init => Base
  BY TypingInit, ChainInit, ServedInit DEF Base

LEMMA BaseNext == Base /\ [Next]_vars => Base'
  BY TypingNext, ChainNext, ServedNext DEF Base

----------------------------------------------------------------------------
(* stop().                                                                 *)

\* The main thread has not yet closed the acceptor.
BeforeStop == at[Main] \in {"up", "stop"}

\* A worker is on its way to connect the session it has accepted.
StartLabel == {"store", "count", "insertFind", "insertWrite", "start"}

\* Somebody may still be connected though no other accept is armed.
MayStart == acceptOp = "ok" \/ \E w \in Worker : at[w] \in StartLabel

\* The sweep has passed the slot of a session that is connected.
Passed(s) ==
  /\ connected[s]
  /\ \/ at[Main] \in {"joining", "joined"}
     \/ at[Main] \in {"sweep"} \cup CloseLabel /\ index[s] < cursor

\* Once the acceptor is closed,
AcceptorClosed == ~BeforeStop => ~running /\ acceptOp # "pending"

\* the sweep closes the occupants of the slots one by one,
SweepsSlots == at[Main] \in CloseLabel => cur[Main] = sessions[cursor]

\* and only the last accept can put a session where it has been already.
OneBehindSweep ==
  /\ \A r, s \in Session : Passed(r) /\ Passed(s) => r = s
  /\ (\E s \in Session : Passed(s)) => ~MayStart

StopInv == AcceptorClosed /\ SweepsSlots /\ OneBehindSweep

\* Before stop() there is nothing to say.
LEMMA StopInit == Init => StopInv
  BY DEF Init, StopInv, AcceptorClosed, SweepsSlots, OneBehindSweep, BeforeStop, Passed,
         CloseLabel, Thread

\* A step of a worker that connects nobody.
BesideStop ==
  /\ at'[Main] = at[Main] /\ cur'[Main] = cur[Main]
  /\ at[Main] \in {"sweep"} \cup CloseLabel => sessions' = sessions /\ cursor' = cursor
  /\ ~running => ~running'
  /\ acceptOp' = "pending" => running \/ acceptOp = "pending"
  /\ MayStart' => MayStart \/ acceptOp = "pending"
  /\ \A s \in Session : connected'[s] => connected[s] /\ index'[s] = index[s]

\* Such a step does not disturb stop().
LEMMA BesideStopKeeps == ASSUME StopInv, BesideStop PROVE StopInv'
<1>. USE DEF StopInv, BesideStop
<1>1. AcceptorClosed' /\ SweepsSlots'
  BY DEF AcceptorClosed, SweepsSlots, BeforeStop
<1>2. \A s \in Session : Passed(s)' => Passed(s)
  BY DEF Passed
<1>3. OneBehindSweep'
  <2>1. (\E s \in Session : Passed(s)) => acceptOp # "pending"
    BY DEF Passed, AcceptorClosed, BeforeStop, CloseLabel
  <2>. QED
    BY <1>2, <2>1 DEF OneBehindSweep
<1>. QED
  BY <1>1, <1>3

\* Clients and the network.
LEMMA StopEnvironment ==
  ASSUME Base, StopInv, Environment PROVE StopInv'
<1>. USE SocketAssumption
     DEF Base, Typing, TypeOK, threadVars, acceptVars, tableVars, sessionVars, countVars
<1>1. BesideStop
  BY DEF Environment, ClientConnects, AcceptFails, ReadCompletes, WriteCompletes,
         BesideStop, MayStart
<1>. QED
  BY <1>1, BesideStopKeeps

\* The accept handler.  The one that connects a session is the last.
LEMMA StopAccept ==
  ASSUME Base, StopInv, NEW w \in Worker, AcceptHandler(w) \/ AcceptStep(w)
  PROVE  StopInv'
<1>. USE SocketAssumption
     DEF Base, Typing, TypeOK, LabelsOK, LocksOK, Thread,
         threadVars, acceptVars, tableVars, sessionVars, countVars,
         Goto, Finish, Unlocked
<1>1. CASE HandleAcceptDropped(w) \/ HandleAccept(w) \/ HandleRetry(w)
  <2>1. BesideStop
    BY <1>1 DEF HandleAcceptDropped, HandleAccept, HandleRetry,
                BesideStop, MayStart, StartLabel
  <2>. QED
    BY <2>1, BesideStopKeeps
<1>2. CASE Store(w) \/ CountUp(w) \/ InsertFind(w) \/ InsertWrite(w) \/ StartThrows(w)
           \/ SendInit(w) \/ StartRead(w)
  <2>1. BesideStop
    BY <1>2 DEF Store, CountUp, InsertFind, InsertWrite, StartThrows, SendInit, StartRead,
                BesideStop, MayStart, StartLabel
  <2>. QED
    BY <2>1, BesideStopKeeps
<1>3. CASE RearmStopped(w) \/ Rearm(w) \/ FindFreeIndex(w) \/ ScanNext(w) \/ ScanFound(w) \/ ScanNone(w)
  <2>1. BesideStop
    BY <1>3 DEF RearmStopped, Rearm, FindFreeIndex, ScanNext, ScanFound, ScanNone,
                BesideStop, MayStart, StartLabel
  <2>. QED
    BY <2>1, BesideStopKeeps
<1>4. CASE Start(w)
  <2>. USE <1>4 DEF Start
  <2>1. AcceptorClosed' /\ SweepsSlots'
    BY DEF StopInv, AcceptorClosed, SweepsSlots, BeforeStop
  <2>2. \A s \in Session : ~Passed(s)
    BY DEF StopInv, OneBehindSweep, MayStart, StartLabel
  <2>3. \A s \in Session : Passed(s)' => s = cur[w]
    BY <2>2 DEF Passed
  <2>4. ~MayStart'
    <3>1. \A v \in Worker : at[v] \in AcceptLabel => v = w
      BY DEF ChainInv, OneAcceptLoop, Accepting, AcceptLabel
    <3>2. acceptOp = "none"
      BY DEF ChainInv, OneAcceptLoop, Accepting, AcceptLabel
    <3>. QED
      BY <3>1, <3>2 DEF MayStart, StartLabel, AcceptLabel
  <2>5. OneBehindSweep'
    BY <2>3, <2>4 DEF OneBehindSweep
  <2>. QED
    BY <2>1, <2>5 DEF StopInv
<1>. QED
  BY <1>1, <1>2, <1>3, <1>4 DEF AcceptHandler, AcceptStep

\* The strand handlers.
LEMMA StopStrand ==
  ASSUME Base, StopInv, NEW w \in Worker,
         ParseStep(w) \/ \E s \in Session : SessionHandler(w, s)
  PROVE  StopInv'
<1>. USE SocketAssumption
     DEF Base, Typing, TypeOK, LabelsOK, Thread,
         threadVars, acceptVars, tableVars, sessionVars, countVars, Goto, Finish
<1>1. BesideStop
  BY DEF ParseStep, ParseReply, ParseDone, ParseFails, SessionHandler, HandleRead,
         HandleWrite, BesideStop, MayStart, StartLabel
<1>. QED
  BY <1>1, BesideStopKeeps

\* close(): a worker's closes a session, stop()'s leaves a slot whose occupant
\* is no longer connected.
LEMMA StopClose ==
  ASSUME Base, StopInv, NEW t \in Thread, Close(t)
  PROVE  StopInv'
<1>. USE SocketAssumption
     DEF Base, Typing, TypeOK, LabelsOK, LocalsOK, LocksOK, Thread, SessionLabel,
         StrandLabel, CloseLabel, MainLabel, AcceptLabel,
         threadVars, acceptVars, tableVars, sessionVars, countVars, Goto, Finish
<1>1. CASE t # Main
  <2>1. BesideStop
    BY <1>1 DEF Close, CloseCheckClosed, CloseCheckOpen, CloseMark, RemoveFind,
                RemoveWrite, CountDownRead, CountDown, CloseReturns,
                BesideStop, MayStart, StartLabel
  <2>. QED
    BY <2>1, BesideStopKeeps
<1>2. CASE t = Main /\ (CloseCheckOpen(t) \/ CloseMark(t) \/ RemoveFind(t)
                          \/ RemoveWrite(t) \/ CountDownRead(t))
  <2>1. /\ at[Main] \in CloseLabel /\ at'[Main] \in CloseLabel
        /\ cur' = cur /\ UNCHANGED <<acceptVars, tableVars, index>>
        /\ \A s \in Session : connected'[s] => connected[s]
        /\ \A w \in Worker : at'[w] = at[w]
    BY <1>2 DEF CloseCheckOpen, CloseMark, RemoveFind, RemoveWrite, CountDownRead
  <2>2. AcceptorClosed' /\ SweepsSlots'
    BY <2>1 DEF StopInv, AcceptorClosed, SweepsSlots, BeforeStop
  <2>3. (\A s \in Session : Passed(s)' => Passed(s)) /\ MayStart' = MayStart
    BY <2>1 DEF Passed, MayStart
  <2>4. OneBehindSweep'
    BY <2>3 DEF StopInv, OneBehindSweep
  <2>. QED
    BY <2>2, <2>4 DEF StopInv
<1>3. CASE t = Main /\ (CloseCheckClosed(t) \/ CountDown(t))
  <2>1. /\ at[Main] \in CloseLabel /\ at'[Main] = "sweep"
        /\ cursor' = cursor + 1 /\ UNCHANGED <<acceptVars, sessions, index, connected>>
        /\ \A w \in Worker : at'[w] = at[w]
    BY <1>3 DEF CloseCheckClosed, CountDown, CloseReturns
  <2>2. AcceptorClosed' /\ SweepsSlots'
    BY <2>1 DEF StopInv, AcceptorClosed, SweepsSlots, BeforeStop
  <2>3. ~connected[cur[Main]] /\ cur[Main] = sessions[cursor]
    BY <1>3, <2>1 DEF CloseCheckClosed, CountDown, ServedInv, Marked, StopInv, SweepsSlots
  <2>4. \A s \in Session : connected[s] => index[s] # cursor
    BY <2>3 DEF ChainInv, Ownership, SlotOwnership
  <2>5. \A s \in Session : Passed(s)' => Passed(s)
    <3>1. \A s \in Session : index[s] \in Int /\ cursor \in Int
      BY DEF Slot
    <3>. QED
      BY <2>1, <2>4, <3>1 DEF Passed
  <2>6. OneBehindSweep'
    BY <2>1, <2>5 DEF StopInv, OneBehindSweep, MayStart
  <2>. QED
    BY <2>2, <2>6 DEF StopInv
<1>. QED
  BY <1>1, <1>2, <1>3 DEF Close

\* The rest of stop(): the sweep passes an empty slot, or ends.
LEMMA StopMain ==
  ASSUME Base, StopInv, Signal \/ Quit \/ MainStep
  PROVE  StopInv'
<1>. USE SocketAssumption
     DEF Base, Typing, TypeOK, LabelsOK, LocksOK, Thread, CloseLabel,
         threadVars, acceptVars, tableVars, sessionVars, countVars, Goto, StopInv, Slot
<1>0. UNCHANGED <<connected, index, sessions>> /\ \A w \in Worker : at'[w] = at[w]
  BY DEF Signal, Quit, MainStep, StopAccepting, StopLock, SweepEmpty, SweepSession,
         SweepDone, Join
<1>1. AcceptorClosed'
  BY DEF Signal, Quit, MainStep, StopAccepting, StopLock, SweepEmpty, SweepSession,
         SweepDone, Join, AcceptorClosed, BeforeStop, Aborted
<1>2. SweepsSlots'
  BY DEF Signal, Quit, MainStep, StopAccepting, StopLock, SweepEmpty, SweepSession,
         SweepDone, Join, SweepsSlots
<1>3. CASE Signal \/ Quit \/ StopAccepting \/ StopLock
  <2>1. \A s \in Session : ~Passed(s)'
    BY <1>0, <1>3 DEF Signal, Quit, StopAccepting, StopLock, Passed
  <2>. QED
    BY <1>1, <1>2, <2>1 DEF OneBehindSweep
<1>4. CASE SweepEmpty \/ SweepSession \/ SweepDone \/ Join
  <2>1. acceptOp' = acceptOp
    BY <1>4 DEF SweepEmpty, SweepSession, SweepDone, Join
  <2>2. ASSUME NEW s \in Session, Passed(s)' PROVE Passed(s)
    <3>1. connected[s] /\ index[s] \in Slot /\ sessions[index[s]] = s /\ s # NoSession
      BY <1>0, <2>2 DEF Passed, ChainInv, Ownership, SlotOwnership
    <3>. QED
      BY <1>0, <1>4, <2>2, <3>1 DEF SweepEmpty, SweepSession, SweepDone, Join, Passed
  <2>3. MayStart' = MayStart
    BY <1>0, <2>1 DEF MayStart
  <2>. QED
    BY <1>1, <1>2, <2>2, <2>3 DEF OneBehindSweep
<1>. QED
  BY <1>3, <1>4 DEF MainStep

\* Every step keeps the invariant.
LEMMA StopNext == Base /\ StopInv /\ [Next]_vars => StopInv'
<1>. SUFFICES ASSUME Base, StopInv, [Next]_vars PROVE StopInv'
  OBVIOUS
<1>1. CASE UNCHANGED vars
  BY <1>1 DEF StopInv, AcceptorClosed, SweepsSlots, OneBehindSweep, BeforeStop, Passed,
              MayStart, vars, acceptVars, tableVars, sessionVars, threadVars
<1>2. CASE Finished
  BY <1>1, <1>2 DEF Finished
<1>3. CASE Next /\ ~Finished
  BY <1>3, StopEnvironment, StopAccept, StopStrand, StopClose, StopMain DEF Next
<1>. QED
  BY <1>1, <1>2, <1>3

\* With any number of workers, when stop() has returned at most one session is
\* still connected: the one whose accept had completed before the acceptor was
\* closed, and whose slot the sweep had passed (stop, handle_accept,
\* start_accept).
THEOREM AtMostOneSurvivesStop == Spec => []OneSurvivesStop
<1>1. StopInv => OneSurvivesStop
  <2>. SUFFICES ASSUME StopInv, at[Main] \in {"joining", "joined"}
                PROVE  Cardinality({s \in Session : connected[s]}) <= 1
    BY DEF OneSurvivesStop
  <2>1. \A r, s \in Session : connected[r] /\ connected[s] => r = s
    BY DEF StopInv, OneBehindSweep, Passed
  <2>2. CASE {s \in Session : connected[s]} = {}
    BY <2>2, FS_EmptySet
  <2>3. CASE {s \in Session : connected[s]} # {}
    <3>1. PICK r \in Session : connected[r]
      BY <2>3
    <3>2. {s \in Session : connected[s]} = {r}
      BY <2>1, <3>1
    <3>. QED
      BY <3>2, FS_Singleton
  <2>. QED
    BY <2>2, <2>3
<1>. QED
  BY BaseInit, BaseNext, StopInit, StopNext, <1>1, PTL DEF Spec

----------------------------------------------------------------------------
(* The numbers of connected sessions.                                      *)

NumConnected == Cardinality({s \in Session : connected[s]})
NumFrom(a) == Cardinality(ConnectedFrom(a))

\* There are no more connected sessions than slots: each owns one.
LEMMA NumbersBounded ==
  ASSUME Base
  PROVE  /\ IsFiniteSet({s \in Session : connected[s]})
         /\ NumConnected \in Nat /\ NumConnected <= MaxClient
         /\ \A a \in Addr : /\ IsFiniteSet(ConnectedFrom(a))
                            /\ NumFrom(a) \in Nat /\ NumFrom(a) <= MaxClient
<1>. DEFINE S == {s \in Session : connected[s]}
            f == [s \in S |-> index[s]]
<1>1. IsFiniteSet(Slot) /\ Cardinality(Slot) = MaxClient
  BY FS_Interval, SocketAssumption DEF Slot
<1>2. f \in Injection(S, Slot)
  <2>1. f \in [S -> Slot]
    BY DEF Base, Typing, TypeOK
  <2>2. \A r, s \in S : f[r] = f[s] => r = s
    BY DEF Base, ChainInv, Ownership, SlotOwnership
  <2>. QED
    BY <2>1, <2>2 DEF Injection, IsInjective
<1>3. IsFiniteSet(S) /\ Cardinality(S) <= MaxClient
  BY <1>1, <1>2, FS_Injection
<1>4. ASSUME NEW a \in Addr
      PROVE  IsFiniteSet(ConnectedFrom(a)) /\ Cardinality(ConnectedFrom(a)) <= MaxClient
  <2>1. ConnectedFrom(a) \in SUBSET S
    BY DEF ConnectedFrom
  <2>2. /\ IsFiniteSet(ConnectedFrom(a))
        /\ Cardinality(ConnectedFrom(a)) <= Cardinality(S)
    BY <1>3, <2>1, FS_Subset
  <2>3. Cardinality(ConnectedFrom(a)) \in Nat /\ Cardinality(S) \in Nat /\ MaxClient \in Nat
    BY <1>3, <2>2, FS_CardinalityType, SocketAssumption
  <2>. QED
    BY <1>3, <2>2, <2>3
<1>. QED
  BY <1>3, <1>4, FS_CardinalityType DEF NumConnected, NumFrom

\* Nobody connects, is closed or changes its address.
SameSessions ==
  /\ \A s \in Session : connected'[s] <=> connected[s]
  /\ \A s \in Session : connected[s] => peer'[s] = peer[s]

\* Then no number changes.
LEMMA SameNumbers ==
  ASSUME SameSessions
  PROVE  NumConnected' = NumConnected /\ \A a \in Addr : NumFrom(a)' = NumFrom(a)
<1>1. {s \in Session : connected'[s]} = {s \in Session : connected[s]}
  BY DEF SameSessions
<1>2. \A a \in Addr : ConnectedFrom(a)' = ConnectedFrom(a)
  BY DEF SameSessions, ConnectedFrom
<1>. QED
  BY <1>1, <1>2 DEF NumConnected, NumFrom

\* ClientSession::start makes one more, of its address.
LEMMA StartNumbers ==
  ASSUME Base, NEW w \in Worker, Start(w)
  PROVE  /\ NumConnected' = NumConnected + 1
         /\ \A a \in Addr :
              NumFrom(a)' = IF a = peer[cur[w]] THEN NumFrom(a) + 1 ELSE NumFrom(a)
<1>1. cur[w] \in Session /\ ~connected[cur[w]]
  BY DEF Start, Base, Typing, LocalsOK, SessionLabel, AcceptLabel, Thread, ServedInv,
         StartingNew, New
<1>2. connected' = [connected EXCEPT ![cur[w]] = TRUE] /\ peer' = peer
  BY DEF Start
<1>3. connected \in [Session -> BOOLEAN]
  BY DEF Base, Typing, TypeOK
<1>4. NumConnected' = NumConnected + 1
  <2>. DEFINE S == {s \in Session : connected[s]}
  <2>1. {s \in Session : connected'[s]} = S \cup {cur[w]}
    BY <1>1, <1>2, <1>3
  <2>2. IsFiniteSet(S) /\ cur[w] \notin S
    BY <1>1, NumbersBounded
  <2>3. Cardinality(S \cup {cur[w]}) = Cardinality(S) + 1
    BY <2>2, FS_AddElement
  <2>. QED
    BY <2>1, <2>3 DEF NumConnected
<1>5. ASSUME NEW a \in Addr
      PROVE  NumFrom(a)' = IF a = peer[cur[w]] THEN NumFrom(a) + 1 ELSE NumFrom(a)
  <2>1. CASE a = peer[cur[w]]
    <3>1. ConnectedFrom(a)' = ConnectedFrom(a) \cup {cur[w]}
      BY <1>1, <1>2, <1>3, <2>1 DEF ConnectedFrom
    <3>2. IsFiniteSet(ConnectedFrom(a)) /\ cur[w] \notin ConnectedFrom(a)
      BY <1>1, NumbersBounded DEF ConnectedFrom
    <3>3. Cardinality(ConnectedFrom(a) \cup {cur[w]}) = Cardinality(ConnectedFrom(a)) + 1
      BY <3>2, FS_AddElement
    <3>. QED
      BY <2>1, <3>1, <3>3 DEF NumFrom
  <2>2. CASE a # peer[cur[w]]
    <3>1. ConnectedFrom(a)' = ConnectedFrom(a)
      BY <1>1, <1>2, <1>3, <2>2 DEF ConnectedFrom
    <3>. QED
      BY <2>2, <3>1 DEF NumFrom
  <2>. QED
    BY <2>1, <2>2
<1>. QED
  BY <1>4, <1>5

\* close() makes one fewer, of its address, unless another thread's close() has
\* marked the session already.
LEMMA MarkNumbers ==
  ASSUME Base, NEW t \in Thread, CloseMark(t)
  PROVE  /\ NumConnected' = IF connected[cur[t]] THEN NumConnected - 1 ELSE NumConnected
         /\ \A a \in Addr :
              NumFrom(a)' = IF connected[cur[t]] /\ a = peer[cur[t]] THEN NumFrom(a) - 1
                            ELSE NumFrom(a)
<1>1. cur[t] \in Session
  BY DEF CloseMark, Base, Typing, LocalsOK, SessionLabel, StrandLabel, CloseLabel
<1>2. connected' = [connected EXCEPT ![cur[t]] = FALSE] /\ peer' = peer
  BY DEF CloseMark
<1>3. connected \in [Session -> BOOLEAN]
  BY DEF Base, Typing, TypeOK
<1>4. CASE connected[cur[t]]
  <2>. DEFINE S == {s \in Session : connected[s]}
  <2>1. NumConnected' = NumConnected - 1
    <3>1. {s \in Session : connected'[s]} = S \ {cur[t]}
      BY <1>1, <1>2, <1>3
    <3>2. IsFiniteSet(S) /\ cur[t] \in S
      BY <1>1, <1>4, NumbersBounded
    <3>3. Cardinality(S \ {cur[t]}) = Cardinality(S) - 1
      BY <3>2, FS_RemoveElement
    <3>. QED
      BY <3>1, <3>3 DEF NumConnected
  <2>2. ASSUME NEW a \in Addr
        PROVE  NumFrom(a)' = IF a = peer[cur[t]] THEN NumFrom(a) - 1 ELSE NumFrom(a)
    <3>1. CASE a = peer[cur[t]]
      <4>1. ConnectedFrom(a)' = ConnectedFrom(a) \ {cur[t]}
        BY <1>1, <1>2, <1>3, <3>1 DEF ConnectedFrom
      <4>2. IsFiniteSet(ConnectedFrom(a)) /\ cur[t] \in ConnectedFrom(a)
        BY <1>1, <1>4, <3>1, NumbersBounded DEF ConnectedFrom
      <4>3. Cardinality(ConnectedFrom(a) \ {cur[t]}) = Cardinality(ConnectedFrom(a)) - 1
        BY <4>2, FS_RemoveElement
      <4>. QED
        BY <3>1, <4>1, <4>3 DEF NumFrom
    <3>2. CASE a # peer[cur[t]]
      <4>1. ConnectedFrom(a)' = ConnectedFrom(a)
        BY <1>1, <1>2, <1>3, <3>2 DEF ConnectedFrom
      <4>. QED
        BY <3>2, <4>1 DEF NumFrom
    <3>. QED
      BY <3>1, <3>2
  <2>. QED
    BY <1>4, <2>1, <2>2
<1>5. CASE ~connected[cur[t]]
  <2>1. SameSessions
    BY <1>1, <1>2, <1>3, <1>5 DEF SameSessions
  <2>. QED
    BY <1>5, <2>1, SameNumbers
<1>. QED
  BY <1>4, <1>5

\* An insert that nobody interrupts adds one (InsertIpAddress).
LEMMA InsertCounts ==
  ASSUME NEW table \in [Addr -> Count], NEW a \in Addr,
         table[a] # 0, table[a] # CountMod - 1
  PROVE  LET n == AfterInsert(table, a, table[a])
         IN  n # 0 /\ Connections(n) = Connections(table[a]) + 1
<1>1. table[a] \in Count
  OBVIOUS
<1>. QED
  BY <1>1, IpAssumption DEF AfterInsert, Connections, Incremented, Count, NoEntry

\* A remove that nobody interrupts takes one away, the entry with the last
\* (RemoveIpAddress).
LEMMA RemoveCounts ==
  ASSUME NEW table \in [Addr -> Count], NEW a \in Addr,
         table[a] # 0, table[a] # NoEntry
  PROVE  LET n == AfterRemove(table, a, table[a])
         IN  n # 0 /\ Connections(n) = Connections(table[a]) - 1
<1>1. table[a] \in Count
  OBVIOUS
<1>. QED
  BY <1>1, IpAssumption DEF AfterRemove, Connections, Decremented, Count, NoEntry

----------------------------------------------------------------------------
(* With one worker the counts are exact until stop().                      *)

\* The worker has counted a session that is not connected: not yet, or no longer.
OneMore == {"insertFind", "insertWrite", "start",
            "removeFind", "removeWrite", "uncountRead", "uncountWrite"}

\* The places at which it is about to change a count.
BusyLabel == {"count", "closeMark"} \cup OneMore

ClientsCounted(w) ==
  /\ clientCount = NumConnected + (IF at[w] \in OneMore THEN 1 ELSE 0)
  /\ at[w] \in {"count", "uncountWrite"} => tmp[w] = clientCount

\* No entry says zero: an address nobody is connected from has none.
AddressesCounted(w) ==
  /\ \A a \in Addr :
       /\ ipTable[a] # 0
       /\ Connections(ipTable[a]) =
            NumFrom(a) + (IF at[w] \in {"start", "removeFind", "removeWrite"}
                             /\ peer[cur[w]] = a THEN 1 ELSE 0)
  /\ at[w] \in {"insertWrite", "removeWrite"} => tmp[w] = ipTable[peer[cur[w]]]

\* Only the worker itself closes sessions.
MarksConnected(w) == at[w] = "closeMark" => connected[cur[w]]

CountInv(w) ==
  BeforeStop => ClientsCounted(w) /\ AddressesCounted(w) /\ MarksConnected(w)

\* At first nobody is connected, and nobody counted.
LEMMA CountInit == ASSUME NEW w \in Worker, Init PROVE CountInv(w)
<1>1. {s \in Session : connected[s]} = {} /\ \A a \in Addr : ConnectedFrom(a) = {}
  BY DEF Init, ConnectedFrom
<1>2. NumConnected = 0 /\ \A a \in Addr : NumFrom(a) = 0
  BY <1>1, FS_EmptySet DEF NumConnected, NumFrom
<1>3. at[w] = "idle"
  BY SocketAssumption DEF Init, Thread
<1>. QED
  BY <1>2, <1>3 DEF Init, CountInv, ClientsCounted, AddressesCounted, MarksConnected,
     EmptyTable, Connections, NoEntry, OneMore

\* A step that changes neither the sessions nor the counts, nor who is at them.
BesideCounts(w) ==
  /\ SameSessions /\ UNCHANGED <<ipTable, clientCount>>
  /\ BeforeStop' => BeforeStop
  /\ at[w] \in BusyLabel <=> at'[w] \in BusyLabel
  /\ at[w] \in BusyLabel =>
       /\ at'[w] = at[w] /\ cur'[w] = cur[w] /\ tmp'[w] = tmp[w]
       /\ peer'[cur[w]] = peer[cur[w]]

\* Such a step does not disturb the counts.
LEMMA BesideCountsKeeps ==
  ASSUME Base, NEW w \in Worker, CountInv(w), BesideCounts(w)
  PROVE  CountInv(w)'
<1>. SUFFICES ASSUME BeforeStop'
              PROVE  ClientsCounted(w)' /\ AddressesCounted(w)' /\ MarksConnected(w)'
  BY DEF CountInv
<1>1. ClientsCounted(w) /\ AddressesCounted(w) /\ MarksConnected(w)
  BY DEF CountInv, BesideCounts
<1>2. NumConnected' = NumConnected /\ \A a \in Addr : NumFrom(a)' = NumFrom(a)
  BY SameNumbers DEF BesideCounts
<1>. USE DEF BesideCounts, BusyLabel, OneMore
<1>3. ClientsCounted(w)'
  BY <1>1, <1>2 DEF ClientsCounted
<1>4. AddressesCounted(w)'
  BY <1>1, <1>2 DEF AddressesCounted
<1>5. MarksConnected(w)'
  <2>1. at[w] = "closeMark" => cur[w] \in Session
    BY DEF Base, Typing, LocalsOK, SessionLabel, StrandLabel, CloseLabel, Thread
  <2>. QED
    BY <1>1, <2>1 DEF MarksConnected, SameSessions
<1>. QED
  BY <1>3, <1>4, <1>5

\* Nobody but the accept handler touches the session of an accept, and the new
\* name start_accept takes belonged to no connected session.
LEMMA CountEnvironment ==
  ASSUME Base, NEW w \in Worker, Environment PROVE BesideCounts(w)
<1>. USE SocketAssumption
     DEF Base, Typing, TypeOK, Thread, BesideCounts, SameSessions, BeforeStop,
         threadVars, acceptVars, tableVars, sessionVars, countVars
<1>1. CASE ClientConnects
  <2>1. ~connected[incoming] /\ cur[w] # incoming
    BY <1>1 DEF ClientConnects, ServedInv, IncomingNew, New
  <2>2. PICK a \in Addr : peer' = [peer EXCEPT ![incoming] = a]
    BY <1>1 DEF ClientConnects
  <2>3. \A s \in Session : connected[s] => peer'[s] = peer[s]
    BY <2>1, <2>2
  <2>4. at[w] \in BusyLabel => peer'[cur[w]] = peer[cur[w]]
    BY <2>1, <2>2 DEF LocalsOK, BusyLabel, OneMore, SessionLabel, AcceptLabel,
                      StrandLabel, CloseLabel
  <2>. QED
    BY <1>1, <2>3, <2>4 DEF ClientConnects
<1>2. CASE AcceptFails
  BY <1>2 DEF AcceptFails
<1>3. CASE \E s \in Session : ReadCompletes(s) \/ WriteCompletes(s)
  BY <1>3 DEF ReadCompletes, WriteCompletes
<1>. QED
  BY <1>1, <1>2, <1>3 DEF Environment

\* The rest of stop().
LEMMA CountMain ==
  ASSUME Base, NEW w \in Worker, Signal \/ Quit \/ MainStep PROVE BesideCounts(w)
<1>. USE SocketAssumption
     DEF Base, Typing, TypeOK, Thread,
         threadVars, acceptVars, tableVars, sessionVars, countVars, Goto
<1>. QED
  BY DEF Signal, Quit, MainStep, StopAccepting, StopLock, SweepEmpty, SweepSession,
         SweepDone, Join, BesideCounts, SameSessions, BeforeStop

\* The strand handlers up to close().
LEMMA CountStrand ==
  ASSUME Base, NEW w \in Worker,
         ParseStep(w) \/ \E s \in Session : SessionHandler(w, s)
  PROVE  BesideCounts(w)
<1>. USE SocketAssumption
     DEF Base, Typing, TypeOK, Thread, Ready, BusyLabel, OneMore,
         threadVars, acceptVars, tableVars, sessionVars, countVars, Goto, Finish
<1>. QED
  BY DEF ParseStep, ParseReply, ParseDone, ParseFails, SessionHandler, HandleRead,
         HandleWrite, BesideCounts, SameSessions, BeforeStop

\* The accept handler before the session is stored and after it is started.
LEMMA CountAcceptBeside ==
  ASSUME Base, NEW w \in Worker,
         \/ AcceptHandler(w) \/ SendInit(w) \/ StartRead(w)
         \/ RearmStopped(w) \/ Rearm(w) \/ FindFreeIndex(w) \/ ScanNext(w) \/ ScanFound(w) \/ ScanNone(w)
  PROVE  BesideCounts(w)
<1>. USE SocketAssumption
     DEF Base, Typing, TypeOK, LabelsOK, Thread, Ready, BusyLabel, OneMore,
         threadVars, acceptVars, tableVars, sessionVars, countVars, Goto, Finish,
         BesideCounts, SameSessions, BeforeStop
<1>1. CASE AcceptHandler(w)
  BY <1>1 DEF AcceptHandler, HandleAcceptDropped, HandleAccept, HandleRetry
<1>2. CASE SendInit(w) \/ StartRead(w)
  BY <1>2 DEF SendInit, StartRead
<1>3. CASE RearmStopped(w) \/ Rearm(w) \/ FindFreeIndex(w) \/ ScanNext(w) \/ ScanNone(w)
  BY <1>3 DEF RearmStopped, Rearm, FindFreeIndex, ScanNext, ScanNone
<1>4. CASE ScanFound(w)
  <2>1. PICK s \in Session :
          /\ Unreferenced(s)
          /\ connected' = [connected EXCEPT ![s] = FALSE]
    BY <1>4 DEF ScanFound
  <2>2. ~connected[s]
    BY <2>1 DEF Unreferenced, ChainInv, Ownership, SlotOwnership
  <2>. QED
    BY <1>4, <2>1, <2>2 DEF ScanFound
<1>. QED
  BY <1>1, <1>2, <1>3, <1>4

\* The worker counts the session it connects.
LEMMA CountAccept ==
  ASSUME Base, ~PeerMayVanish, MaxClient + 1 < CountMod,
         NEW w \in Worker, CountInv(w), AcceptStep(w)
  PROVE  CountInv(w)'
<1>. SUFFICES ASSUME BeforeStop' PROVE CountInv(w)'
  BY DEF CountInv
<1>. USE SocketAssumption
     DEF Base, Typing, TypeOK, LabelsOK, Thread, OneMore,
         threadVars, acceptVars, tableVars, sessionVars, countVars, Goto
<1>0. \/ Store(w) \/ CountUp(w) \/ InsertFind(w) \/ InsertWrite(w) \/ Start(w)
      \/ BesideCounts(w)
  BY CountAcceptBeside DEF AcceptStep, StartThrows
<1>1. /\ NumConnected \in Nat
      /\ \A a \in Addr : NumFrom(a) \in Nat /\ NumFrom(a) <= MaxClient
  BY NumbersBounded
<1>2. CASE Store(w) \/ CountUp(w) \/ InsertFind(w) \/ InsertWrite(w) \/ Start(w)
  <2>0. at'[Main] = at[Main] /\ at[w] # "closeMark" /\ at'[w] # "closeMark"
    BY <1>2 DEF Store, CountUp, InsertFind, InsertWrite, Start
  <2>1. ClientsCounted(w) /\ AddressesCounted(w)
    BY <2>0 DEF CountInv, BeforeStop
  <2>2. MarksConnected(w)'
    BY <2>0 DEF MarksConnected
  <2>3. cur[w] \in Session /\ peer[cur[w]] \in Addr /\ cur'[w] = cur[w] /\ peer' = peer
    BY <1>2 DEF Store, CountUp, InsertFind, InsertWrite, Start, LocalsOK, SessionLabel,
                AcceptLabel
  <2>4. CASE ~Start(w)
    <3>1. SameSessions
      BY <1>2, <2>4 DEF Store, CountUp, InsertFind, InsertWrite, SameSessions
    <3>2. NumConnected' = NumConnected /\ \A a \in Addr : NumFrom(a)' = NumFrom(a)
      BY <3>1, SameNumbers
    <3>3. ClientsCounted(w)'
      BY <1>1, <1>2, <2>1, <2>4, <3>2
      DEF Store, CountUp, InsertFind, InsertWrite, ClientsCounted
    <3>4. CASE ~InsertWrite(w)
      <4>1. AddressesCounted(w)'
        BY <1>2, <2>1, <2>3, <2>4, <3>2, <3>4
        DEF Store, CountUp, InsertFind, AddressesCounted
      <4>. QED
        BY <2>2, <3>3, <4>1 DEF CountInv
    <3>5. CASE InsertWrite(w)
      <4>. DEFINE a == peer[cur[w]]
      <4>1. /\ at[w] = "insertWrite" /\ at'[w] = "start"
            /\ tmp[w] = ipTable[a] /\ ipTable[a] # 0
            /\ Connections(ipTable[a]) = NumFrom(a)
            /\ ipTable' = [ipTable EXCEPT ![a] = AfterInsert(ipTable, a, ipTable[a])]
        BY <1>1, <2>1, <2>3, <3>5 DEF InsertWrite, AddressesCounted
      <4>2. ipTable[a] # CountMod - 1
        BY <1>1, <2>3, <4>1, IpAssumption DEF Connections, NoEntry
      <4>3. /\ ipTable'[a] # 0
            /\ Connections(ipTable'[a]) = Connections(ipTable[a]) + 1
        BY <2>3, <4>1, <4>2, InsertCounts
      <4>4. \A b \in Addr \ {a} : ipTable'[b] = ipTable[b]
        BY <4>1
      <4>5. AddressesCounted(w)'
        <5>. SUFFICES ASSUME NEW b \in Addr
                      PROVE  /\ ipTable'[b] # 0
                             /\ Connections(ipTable'[b]) =
                                  NumFrom(b) + (IF b = a THEN 1 ELSE 0)
          BY <2>3, <3>2, <4>1 DEF AddressesCounted
        <5>1. CASE b = a
          BY <1>1, <4>1, <4>3, <5>1
        <5>2. CASE b # a
          <6>1. ipTable[b] # 0 /\ Connections(ipTable[b]) = NumFrom(b)
            BY <1>1, <2>1, <4>1 DEF AddressesCounted
          <6>. QED
            BY <1>1, <4>4, <5>2, <6>1
        <5>. QED
          BY <5>1, <5>2
      <4>. QED
        BY <2>2, <3>3, <4>5 DEF CountInv
    <3>. QED
      BY <3>4, <3>5
  <2>5. CASE Start(w)
    <3>1. /\ NumConnected' = NumConnected + 1
          /\ \A a \in Addr :
               NumFrom(a)' = IF a = peer[cur[w]] THEN NumFrom(a) + 1 ELSE NumFrom(a)
      BY <2>5, StartNumbers
    <3>2. /\ at[w] = "start" /\ at'[w] = "sendInit"
          /\ UNCHANGED <<clientCount, ipTable>>
      BY <2>5 DEF Start
    <3>3. ClientsCounted(w)'
      BY <1>1, <2>1, <3>1, <3>2 DEF ClientsCounted
    <3>4. AddressesCounted(w)'
      BY <1>1, <2>1, <2>3, <3>1, <3>2 DEF AddressesCounted
    <3>. QED
      BY <2>2, <3>3, <3>4 DEF CountInv
  <2>. QED
    BY <2>4, <2>5
<1>. QED
  BY <1>0, <1>2, BesideCountsKeeps

\* close() takes its session out of the counts.
LEMMA CountClose ==
  ASSUME Base, MaxClient + 1 < CountMod, NEW w \in Worker, CountInv(w), Close(w)
  PROVE  CountInv(w)'
<1>. SUFFICES ASSUME BeforeStop' PROVE CountInv(w)'
  BY DEF CountInv
<1>. USE SocketAssumption
     DEF Base, Typing, TypeOK, LabelsOK, Thread, OneMore,
         threadVars, acceptVars, tableVars, sessionVars, countVars, Goto, Finish,
         CloseReturns
<1>0. w # Main /\ w \in Thread /\ cur[w] \in Session /\ peer[cur[w]] \in Addr
  BY DEF Close, CloseCheckClosed, CloseCheckOpen, CloseMark, RemoveFind, RemoveWrite,
         CountDownRead, CountDown, LocalsOK, SessionLabel, StrandLabel, CloseLabel
<1>1. /\ NumConnected \in Nat
      /\ \A a \in Addr : NumFrom(a) \in Nat /\ NumFrom(a) <= MaxClient
  BY NumbersBounded
<1>2. at'[Main] = at[Main] /\ peer' = peer
  BY <1>0 DEF Close, CloseCheckClosed, CloseCheckOpen, CloseMark, RemoveFind, RemoveWrite,
              CountDownRead, CountDown
<1>3. ClientsCounted(w) /\ AddressesCounted(w) /\ MarksConnected(w)
  BY <1>2 DEF CountInv, BeforeStop
<1>4. CASE ~CloseMark(w)
  <2>1. SameSessions
    BY <1>4 DEF Close, CloseCheckClosed, CloseCheckOpen, RemoveFind, RemoveWrite,
                CountDownRead, CountDown, SameSessions
  <2>2. NumConnected' = NumConnected /\ \A a \in Addr : NumFrom(a)' = NumFrom(a)
    BY <2>1, SameNumbers
  <2>3. MarksConnected(w)'
    BY <1>0, <1>4 DEF Close, CloseCheckClosed, CloseCheckOpen, RemoveFind, RemoveWrite,
                      CountDownRead, CountDown, MarksConnected
  <2>4. ClientsCounted(w)'
    BY <1>0, <1>1, <1>3, <1>4, <2>2
    DEF Close, CloseCheckClosed, CloseCheckOpen, RemoveFind, RemoveWrite,
        CountDownRead, CountDown, ClientsCounted
  <2>5. CASE ~RemoveWrite(w)
    <3>1. AddressesCounted(w)'
      BY <1>0, <1>2, <1>3, <1>4, <2>2, <2>5
      DEF Close, CloseCheckClosed, CloseCheckOpen, RemoveFind,
          CountDownRead, CountDown, AddressesCounted
    <3>. QED
      BY <2>3, <2>4, <3>1 DEF CountInv
  <2>6. CASE RemoveWrite(w)
    <3>. DEFINE a == peer[cur[w]]
    <3>1. /\ at[w] = "removeWrite" /\ at'[w] = "uncountRead" /\ cur' = cur
          /\ tmp[w] = ipTable[a] /\ ipTable[a] # 0
          /\ Connections(ipTable[a]) = NumFrom(a) + 1
          /\ ipTable' = [ipTable EXCEPT ![a] = AfterRemove(ipTable, a, ipTable[a])]
      BY <1>0, <1>3, <2>6 DEF RemoveWrite, AddressesCounted
    <3>2. ipTable[a] # NoEntry
      BY <1>0, <1>1, <3>1 DEF Connections
    <3>3. /\ ipTable'[a] # 0
          /\ Connections(ipTable'[a]) = Connections(ipTable[a]) - 1
      BY <1>0, <3>1, <3>2, RemoveCounts
    <3>4. AddressesCounted(w)'
      <4>. SUFFICES ASSUME NEW b \in Addr
                    PROVE  ipTable'[b] # 0 /\ Connections(ipTable'[b]) = NumFrom(b)
        BY <1>1, <2>2, <3>1 DEF AddressesCounted
      <4>1. CASE b = a
        BY <1>1, <3>1, <3>3, <4>1
      <4>2. CASE b # a
        <5>1. ipTable[b] # 0 /\ Connections(ipTable[b]) = NumFrom(b)
          BY <1>1, <1>3, <4>2 DEF AddressesCounted
        <5>. QED
          BY <3>1, <4>2, <5>1
      <4>. QED
        BY <4>1, <4>2
    <3>. QED
      BY <2>3, <2>4, <3>4 DEF CountInv
  <2>. QED
    BY <2>5, <2>6
<1>5. CASE CloseMark(w)
  <2>1. /\ at[w] = "closeMark" /\ at'[w] = "removeFind" /\ connected[cur[w]]
        /\ UNCHANGED <<clientCount, ipTable, cur>>
    BY <1>0, <1>3, <1>5 DEF CloseMark, MarksConnected
  <2>2. /\ NumConnected' = NumConnected - 1
        /\ \A a \in Addr :
             NumFrom(a)' = IF a = peer[cur[w]] THEN NumFrom(a) - 1 ELSE NumFrom(a)
    BY <1>0, <1>5, <2>1, MarkNumbers
  <2>3. ClientsCounted(w)'
    BY <1>1, <1>3, <2>1, <2>2 DEF ClientsCounted
  <2>4. AddressesCounted(w)'
    BY <1>1, <1>2, <1>3, <2>1, <2>2 DEF AddressesCounted
  <2>5. MarksConnected(w)'
    BY <2>1 DEF MarksConnected
  <2>. QED
    BY <2>3, <2>4, <2>5 DEF CountInv
<1>. QED
  BY <1>4, <1>5

\* Every step of the one worker and of the main thread keeps the counts.
LEMMA CountNext ==
  ASSUME NEW w, Worker = {w}, ~PeerMayVanish, MaxClient + 1 < CountMod
  PROVE  Base /\ CountInv(w) /\ [Next]_vars => CountInv(w)'
<1>. SUFFICES ASSUME Base, CountInv(w), [Next]_vars PROVE CountInv(w)'
  OBVIOUS
<1>0. w \in Worker
  OBVIOUS
<1>1. CASE UNCHANGED vars
  <2>1. BesideCounts(w)
    BY <1>1 DEF BesideCounts, SameSessions, BeforeStop, vars, acceptVars, tableVars,
                sessionVars, countVars, threadVars
  <2>. QED
    BY <1>0, <2>1, BesideCountsKeeps
<1>2. CASE Environment
  BY <1>0, <1>2, CountEnvironment, BesideCountsKeeps
<1>3. CASE \E v \in Worker : AcceptHandler(v)
  BY <1>0, <1>3, CountAcceptBeside, BesideCountsKeeps
<1>4. CASE \E v \in Worker : AcceptStep(v)
  BY <1>0, <1>4, CountAccept
<1>5. CASE \E v \in Worker : ParseStep(v) \/ \E s \in Session : SessionHandler(v, s)
  BY <1>0, <1>5, CountStrand, BesideCountsKeeps
<1>6. CASE \E t \in Thread : Close(t)
  <2>1. CASE Close(w)
    BY <1>0, <2>1, CountClose
  <2>2. CASE Close(Main)
    <3>1. at[Main] \in CloseLabel /\ at'[Main] \in CloseLabel \cup {"sweep"}
      BY <2>2 DEF Close, CloseCheckClosed, CloseCheckOpen, CloseMark, RemoveFind,
                  RemoveWrite, CountDownRead, CountDown, CloseReturns, Goto,
                  CloseLabel, Base, Typing, TypeOK, Thread
    <3>. QED
      BY <3>1 DEF CountInv, BeforeStop, CloseLabel
  <2>. QED
    BY <1>6, <2>1, <2>2 DEF Thread
<1>7. CASE Signal \/ Quit \/ MainStep
  BY <1>0, <1>7, CountMain, BesideCountsKeeps
<1>8. CASE Finished
  BY <1>1, <1>8 DEF Finished
<1>. QED
  BY <1>1, <1>2, <1>3, <1>4, <1>5, <1>6, <1>7, <1>8 DEF Next

\* With one worker, and peers that are still there when the server asks for their
\* address, gClientCount and the address table count the connected sessions
\* exactly up to stop(), for any number of slots the 16-bit counter can count
\* (InsertIpAddress, RemoveIpAddress, gClientCount++ and --).
THEOREM OneWorkerCountsExactly ==
  ASSUME NEW w, Worker = {w}, ~PeerMayVanish, MaxClient + 1 < CountMod
  PROVE  Spec => []CountsExact
<1>0. w \in Worker
  OBVIOUS
<1>1. Init => CountInv(w)
  BY <1>0, CountInit
<1>2. Base /\ CountInv(w) => CountsExact
  <2>. SUFFICES ASSUME Base, CountInv(w), Settled, BeforeStop
                PROVE  /\ clientCount = NumConnected
                       /\ \A a \in Addr : Connections(ipTable[a]) = NumFrom(a)
    BY DEF CountsExact, BeforeStop, NumConnected, NumFrom
  <2>1. at[w] \notin OneMore
    BY DEF Settled, OneMore, Thread
  <2>2. ClientsCounted(w) /\ AddressesCounted(w)
    BY DEF CountInv
  <2>3. NumConnected \in Nat /\ \A a \in Addr : NumFrom(a) \in Nat
    BY NumbersBounded
  <2>. QED
    BY <2>1, <2>2, <2>3 DEF ClientsCounted, AddressesCounted, OneMore
<1>. QED
  BY <1>1, <1>2, BaseInit, BaseNext, CountNext, PTL DEF Spec

\* And an address nobody is connected from has no entry left: the leak that a
\* vanished peer causes is the only one (RemoveIpAddress, close, start).
THEOREM OneWorkerCleansUp ==
  ASSUME NEW w, Worker = {w}, ~PeerMayVanish, MaxClient + 1 < CountMod
  PROVE  Spec => []CleanedUpOnDisconnect
<1>0. w \in Worker
  OBVIOUS
<1>1. Init => CountInv(w)
  BY <1>0, CountInit
<1>2. Base /\ CountInv(w) => CleanedUpOnDisconnect
  <2>. SUFFICES ASSUME Base, CountInv(w), Settled, at[Main] = "up",
                       NEW a \in Addr, ConnectedFrom(a) = {}
                PROVE  ipTable[a] = NoEntry
    BY DEF CleanedUpOnDisconnect
  <2>1. at[w] \notin OneMore
    BY DEF Settled, OneMore, Thread
  <2>2. AddressesCounted(w)
    BY DEF CountInv, BeforeStop
  <2>3. NumFrom(a) = 0
    BY FS_EmptySet DEF NumFrom
  <2>4. Connections(ipTable[a]) = 0 /\ ipTable[a] # 0
    BY <2>1, <2>2, <2>3 DEF AddressesCounted, OneMore
  <2>. QED
    BY <2>4 DEF Connections
<1>. QED
  BY <1>1, <1>2, BaseInit, BaseNext, CountNext, PTL DEF Spec

----------------------------------------------------------------------------
(* With one worker no address exceeds its limit, not even while stop() and  *)
(* the worker close sessions side by side and spoil the counts.             *)

Below(a) == NumFrom(a) < MaxIpConnection

\* The session of t's close() is no longer connected, but still counted.
Leaving(t) ==
  \/ at[t] \in {"removeFind", "removeWrite"}
  \/ (at[t] = "closeMark" /\ ~connected[cur[t]])

LimitKept == \A a \in Addr : NumFrom(a) <= MaxIpConnection

\* The session that passed check_ip_limit still fits in,
StartsBelow == \A v \in Worker : at[v] \in StartLabel => Below(peer[cur[v]])

\* and after stop() the one that may still pass it finds a count that was right
\* when the acceptor was closed, or an address with room to spare,
LastCheckRefuses ==
  ~BeforeStop /\ acceptOp = "ok" =>
    \A a \in Addr : Below(a) \/ ipTable[a] >= MaxIpConnection

\* for a close() that would lower the count has made that room.
LeavingBelow ==
  BeforeStop \/ MayStart => \A t \in Thread : Leaving(t) => Below(peer[cur[t]])

LimitInv ==
  MaxIpConnection > 0 =>
    LimitKept /\ StartsBelow /\ LastCheckRefuses /\ LeavingBelow

\* At first nobody is connected.
LEMMA LimitInit == Init => LimitInv
<1>. SUFFICES ASSUME Init, MaxIpConnection > 0
              PROVE  LimitKept /\ StartsBelow /\ LastCheckRefuses /\ LeavingBelow
  BY DEF LimitInv
<1>1. \A a \in Addr : ConnectedFrom(a) = {}
  BY DEF Init, ConnectedFrom
<1>2. \A a \in Addr : NumFrom(a) = 0
  BY <1>1, FS_EmptySet DEF NumFrom
<1>3. LimitKept
  <2>1. 0 <= MaxIpConnection
    BY IpAssumption
  <2>. QED
    BY <1>2, <2>1 DEF LimitKept
<1>. QED
  BY <1>3, SocketAssumption
  DEF Init, StartsBelow, LastCheckRefuses, LeavingBelow, Leaving, BeforeStop, StartLabel,
      Thread

\* A step that connects, checks and removes nobody.
BesideLimit ==
  /\ SameSessions
  /\ \A v \in Worker : at'[v] \in StartLabel =>
       at[v] \in StartLabel /\ cur'[v] = cur[v] /\ peer'[cur[v]] = peer[cur[v]]
  /\ \A t \in Thread : Leaving(t)' =>
       Leaving(t) /\ cur'[t] = cur[t] /\ peer'[cur[t]] = peer[cur[t]]
  /\ (BeforeStop \/ MayStart)' => BeforeStop \/ MayStart
  /\ ~BeforeStop' /\ acceptOp' = "ok" =>
       /\ ~BeforeStop /\ acceptOp = "ok"
       /\ \A a \in Addr : ipTable'[a] = ipTable[a] \/ Below(a)

\* Who works for a session has one, with an address.
LEMMA WorksFor ==
  ASSUME Base
  PROVE  /\ \A v \in Worker : at[v] \in StartLabel =>
              cur[v] \in Session /\ peer[cur[v]] \in Addr
         /\ \A t \in Thread : Leaving(t) \/ at[t] \in CloseLabel =>
              cur[t] \in Session /\ peer[cur[t]] \in Addr
  BY DEF Base, Typing, TypeOK, LocalsOK, SessionLabel, AcceptLabel, StrandLabel, CloseLabel,
         Thread, StartLabel, Leaving

\* Such a step does not disturb the limit.
LEMMA BesideLimitKeeps ==
  ASSUME Base, LimitInv, BesideLimit
  PROVE  LimitInv'
<1>. SUFFICES ASSUME MaxIpConnection > 0
              PROVE  LimitKept' /\ StartsBelow' /\ LastCheckRefuses' /\ LeavingBelow'
  BY DEF LimitInv
<1>1. \A a \in Addr : NumFrom(a)' = NumFrom(a) /\ (Below(a)' <=> Below(a))
  BY SameNumbers DEF BesideLimit, Below
<1>2. LimitKept /\ StartsBelow /\ LastCheckRefuses /\ LeavingBelow
  BY DEF LimitInv
<1>3. LimitKept'
  BY <1>1, <1>2 DEF LimitKept
<1>4. StartsBelow'
  <2>. SUFFICES ASSUME NEW v \in Worker, at'[v] \in StartLabel
                PROVE  Below(peer[cur[v]])'
    BY DEF StartsBelow
  <2>1. /\ at[v] \in StartLabel /\ cur'[v] = cur[v] /\ peer'[cur[v]] = peer[cur[v]]
        /\ peer[cur[v]] \in Addr
    BY WorksFor DEF BesideLimit
  <2>2. NumFrom(peer[cur[v]]) < MaxIpConnection
    BY <1>2, <2>1 DEF StartsBelow, Below
  <2>. QED
    BY <1>1, <2>1, <2>2 DEF Below
<1>5. LastCheckRefuses'
  BY <1>1, <1>2 DEF LastCheckRefuses, BesideLimit
<1>6. LeavingBelow'
  <2>. SUFFICES ASSUME (BeforeStop \/ MayStart)', NEW t \in Thread, Leaving(t)'
                PROVE  Below(peer[cur[t]])'
    BY DEF LeavingBelow
  <2>1. /\ Leaving(t) /\ cur'[t] = cur[t] /\ peer'[cur[t]] = peer[cur[t]]
        /\ peer[cur[t]] \in Addr /\ (BeforeStop \/ MayStart)
    BY WorksFor DEF BesideLimit
  <2>2. NumFrom(peer[cur[t]]) < MaxIpConnection
    BY <1>2, <2>1 DEF LeavingBelow, Below
  <2>. QED
    BY <1>1, <2>1, <2>2 DEF Below
<1>. QED
  BY <1>3, <1>4, <1>5, <1>6

\* Clients and the network.
LEMMA LimitEnvironment ==
  ASSUME Base, StopInv, LimitInv, Environment PROVE LimitInv'
<1>. USE SocketAssumption
     DEF Base, Typing, TypeOK, Thread, BesideLimit, SameSessions, BeforeStop, MayStart,
         Leaving, threadVars, acceptVars, tableVars, sessionVars, countVars
<1>1. CASE ClientConnects
  <2>1. ~connected[incoming] /\ \A t \in Thread : cur[t] # incoming
    BY <1>1 DEF ClientConnects, ServedInv, IncomingNew, New
  <2>2. PICK a \in Addr : peer' = [peer EXCEPT ![incoming] = a]
    BY <1>1 DEF ClientConnects
  <2>3. \A s \in Session : s # incoming => peer'[s] = peer[s]
    BY <2>2
  <2>4. /\ \A v \in Worker : at[v] \in StartLabel => peer'[cur[v]] = peer[cur[v]]
        /\ \A t \in Thread : Leaving(t) => peer'[cur[t]] = peer[cur[t]]
    BY <2>1, <2>3, WorksFor
  <2>5. BeforeStop
    BY <1>1 DEF ClientConnects, StopInv, AcceptorClosed
  <2>6. BesideLimit
    BY <1>1, <2>1, <2>3, <2>4, <2>5 DEF ClientConnects
  <2>. QED
    BY <2>6, BesideLimitKeeps
<1>2. CASE AcceptFails
  <2>1. BesideLimit
    BY <1>2 DEF AcceptFails
  <2>. QED
    BY <2>1, BesideLimitKeeps
<1>3. CASE \E s \in Session : ReadCompletes(s) \/ WriteCompletes(s)
  <2>1. BesideLimit
    BY <1>3 DEF ReadCompletes, WriteCompletes
  <2>. QED
    BY <2>1, BesideLimitKeeps
<1>. QED
  BY <1>1, <1>2, <1>3 DEF Environment

\* The strand handlers up to close().
LEMMA LimitStrand ==
  ASSUME Base, LimitInv, NEW w \in Worker,
         ParseStep(w) \/ \E s \in Session : SessionHandler(w, s)
  PROVE  LimitInv'
<1>1. BesideLimit
  BY SocketAssumption
  DEF Base, Typing, TypeOK, Thread, Ready, StartLabel, BesideLimit, SameSessions,
      BeforeStop, MayStart, Leaving,
      threadVars, acceptVars, tableVars, sessionVars, countVars, Goto, Finish,
      ParseStep, ParseReply, ParseDone, ParseFails, SessionHandler, HandleRead, HandleWrite
<1>. QED
  BY <1>1, BesideLimitKeeps

\* The main thread.  When it closes the acceptor, the table is still exact, so an
\* address at its limit would be refused.
LEMMA LimitMain ==
  ASSUME Base, LimitInv, NEW w, Worker = {w}, CountInv(w), Signal \/ Quit \/ MainStep
  PROVE  LimitInv'
<1>. USE SocketAssumption
     DEF Base, Typing, TypeOK, Thread, BeforeStop,
         threadVars, acceptVars, tableVars, sessionVars, countVars, Goto
<1>1. CASE ~StopAccepting
  <2>1. BesideLimit
    BY <1>1 DEF Signal, Quit, MainStep, StopLock, SweepEmpty, SweepSession, SweepDone, Join,
                BesideLimit, SameSessions, MayStart, Leaving
  <2>. QED
    BY <2>1, BesideLimitKeeps
<1>2. CASE StopAccepting
  <2>. SUFFICES ASSUME MaxIpConnection > 0
                PROVE  LimitKept' /\ StartsBelow' /\ LastCheckRefuses' /\ LeavingBelow'
    BY DEF LimitInv
  <2>0. LimitKept /\ StartsBelow /\ LeavingBelow /\ AddressesCounted(w) /\ BeforeStop
    BY <1>2 DEF StopAccepting, LimitInv, CountInv
  <2>1. /\ UNCHANGED <<connected, peer, cur, ipTable>>
        /\ \A t \in Thread : t # Main => at'[t] = at[t]
        /\ at'[Main] = "stopLock"
    BY <1>2 DEF StopAccepting
  <2>2. \A a \in Addr : NumFrom(a)' = NumFrom(a)
    BY <2>1, SameNumbers DEF SameSessions
  <2>3. LimitKept'
    BY <2>0, <2>2 DEF LimitKept
  <2>4. StartsBelow'
    BY <2>0, <2>1, <2>2, WorksFor DEF StartsBelow, Below
  <2>5. LastCheckRefuses'
    <3>. SUFFICES ASSUME NEW a \in Addr, ~(NumFrom(a) < MaxIpConnection)
                  PROVE  ipTable[a] >= MaxIpConnection
      BY <2>1, <2>2 DEF LastCheckRefuses, Below
    <3>1. NumFrom(a) \in Nat /\ ipTable[a] \in Int
      BY NumbersBounded, IpAssumption DEF Count, NoEntry
    <3>2. Connections(ipTable[a]) >= NumFrom(a)
      BY <2>0, <3>1 DEF AddressesCounted
    <3>. QED
      BY <3>1, <3>2, IpAssumption DEF Connections
  <2>6. LeavingBelow'
    BY <2>0, <2>1, <2>2, WorksFor DEF LeavingBelow, Leaving, Below
  <2>. QED
    BY <2>3, <2>4, <2>5, <2>6
<1>. QED
  BY <1>1, <1>2

\* close().  Marking the session makes room at its address before anything is
\* taken from the table.
LEMMA LimitClose ==
  ASSUME Base, LimitInv, NEW t \in Thread, Close(t)
  PROVE  LimitInv'
<1>. SUFFICES ASSUME MaxIpConnection > 0 PROVE LimitInv'
  BY DEF LimitInv
<1>. USE SocketAssumption
     DEF Base, Typing, TypeOK, LabelsOK, Thread, StartLabel, CloseLabel, AcceptLabel,
         StrandLabel, MainLabel, BeforeStop, MayStart,
         threadVars, acceptVars, tableVars, sessionVars, countVars, Goto, Finish,
         CloseReturns
<1>0. LimitKept /\ StartsBelow /\ LastCheckRefuses /\ LeavingBelow
  BY DEF LimitInv
<1>1. CASE CloseCheckClosed(t) \/ CloseCheckOpen(t) \/ RemoveFind(t)
           \/ CountDownRead(t) \/ CountDown(t)
  <2>1. BesideLimit
    BY <1>1 DEF CloseCheckClosed, CloseCheckOpen, RemoveFind, CountDownRead, CountDown,
                BesideLimit, SameSessions, Leaving
  <2>. QED
    BY <2>1, BesideLimitKeeps
<1>2. CASE RemoveWrite(t)
  <2>1. cur[t] \in Session /\ peer[cur[t]] \in Addr /\ Leaving(t)
    BY <1>2, WorksFor DEF RemoveWrite, Leaving
  <2>2. BeforeStop \/ MayStart => Below(peer[cur[t]])
    BY <1>0, <2>1 DEF LeavingBelow
  <2>3. \A a \in Addr : a # peer[cur[t]] => ipTable'[a] = ipTable[a]
    BY <1>2 DEF RemoveWrite
  <2>4. BesideLimit
    BY <1>2, <2>2, <2>3 DEF RemoveWrite, BesideLimit, SameSessions, Leaving
  <2>. QED
    BY <2>4, BesideLimitKeeps
<1>3. CASE CloseMark(t)
  <2>. DEFINE r == cur[t]
  <2>1. /\ UNCHANGED <<peer, cur, ipTable, acceptOp>>
        /\ \A u \in Thread : u # t => at'[u] = at[u]
        /\ at[t] = "closeMark" /\ at'[t] = "removeFind"
        /\ connected' = [connected EXCEPT ![r] = FALSE]
        /\ r \in Session /\ peer[r] \in Addr
    BY <1>3, WorksFor DEF CloseMark
  <2>2. \A a \in Addr :
          /\ NumFrom(a) \in Nat
          /\ NumFrom(a)' = IF connected[r] /\ a = peer[r] THEN NumFrom(a) - 1 ELSE NumFrom(a)
    BY <1>3, MarkNumbers, NumbersBounded
  <2>3. \A a \in Addr : Below(a) => Below(a)'
    BY <2>2, IpAssumption DEF Below
  <2>4. BeforeStop \/ MayStart => NumFrom(peer[r])' < MaxIpConnection
    <3>1. CASE connected[r]
      BY <1>0, <2>1, <2>2, <3>1, IpAssumption DEF LimitKept
    <3>2. CASE ~connected[r]
      BY <1>0, <2>1, <2>2, <3>2 DEF LeavingBelow, Leaving, Below
    <3>. QED
      BY <3>1, <3>2
  <2>5. LimitKept'
    BY <1>0, <2>2, IpAssumption DEF LimitKept
  <2>6. StartsBelow'
    <3>. SUFFICES ASSUME NEW v \in Worker, at'[v] \in StartLabel
                  PROVE  Below(peer[cur[v]])'
      BY DEF StartsBelow
    <3>1. at[v] \in StartLabel /\ peer[cur[v]] \in Addr
      BY <2>1, WorksFor
    <3>2. NumFrom(peer[cur[v]])' < MaxIpConnection
      BY <1>0, <2>1, <2>3, <3>1 DEF StartsBelow, Below
    <3>. QED
      BY <2>1, <3>2 DEF Below
  <2>7. LastCheckRefuses'
    BY <1>0, <2>1, <2>3 DEF LastCheckRefuses
  <2>8. LeavingBelow'
    <3>. SUFFICES ASSUME (BeforeStop \/ MayStart)', NEW u \in Thread, Leaving(u)'
                  PROVE  Below(peer[cur[u]])'
      BY DEF LeavingBelow
    <3>1. BeforeStop \/ MayStart
      BY <2>1
    <3>2. CASE u = t \/ cur[u] = r
      BY <2>1, <2>4, <3>1, <3>2 DEF Below
    <3>3. CASE u # t /\ cur[u] # r
      <4>1. Leaving(u)
        BY <2>1, <3>3 DEF Leaving
      <4>2. peer[cur[u]] \in Addr
        BY <4>1, WorksFor
      <4>3. NumFrom(peer[cur[u]])' < MaxIpConnection
        BY <1>0, <2>1, <2>3, <3>1, <4>1, <4>2 DEF LeavingBelow, Below
      <4>. QED
        BY <2>1, <4>3 DEF Below
    <3>. QED
      BY <3>2, <3>3
  <2>. QED
    BY <2>5, <2>6, <2>7, <2>8 DEF LimitInv
<1>. QED
  BY <1>1, <1>2, <1>3 DEF Close

\* The accept handler.  What check_ip_limit has compared is the true number before
\* stop(), and after it no more than that number for an address at its limit; and
\* nobody else connects a session between the check and the start.
LEMMA LimitAccept ==
  ASSUME Base, StopInv, LimitInv, ~PeerMayVanish, NEW w, Worker = {w}, CountInv(w),
         AcceptHandler(w) \/ AcceptStep(w)
  PROVE  LimitInv'
<1>. SUFFICES ASSUME MaxIpConnection > 0 PROVE LimitInv'
  BY DEF LimitInv
<1>. USE SocketAssumption
     DEF Base, Typing, TypeOK, LabelsOK, Thread, StartLabel, CloseLabel, AcceptLabel,
         StrandLabel, MainLabel, BeforeStop, MayStart, Ready,
         threadVars, acceptVars, tableVars, sessionVars, countVars, Goto, Finish
<1>0. LimitKept /\ StartsBelow /\ LastCheckRefuses /\ LeavingBelow
  BY DEF LimitInv
<1>1. CASE HandleAcceptDropped(w) \/ HandleRetry(w)
  <2>1. BesideLimit
    BY <1>1 DEF HandleAcceptDropped, HandleRetry, BesideLimit, SameSessions, Leaving
  <2>. QED
    BY <2>1, BesideLimitKeeps
<1>2. CASE HandleAccept(w)
  <2>. DEFINE a == peer[incoming]
  <2>1. /\ UNCHANGED <<connected, peer, ipTable>>
        /\ at[w] = "idle" /\ at'[w] = "store" /\ cur'[w] = incoming
        /\ at'[Main] = at[Main] /\ cur'[Main] = cur[Main]
        /\ acceptOp = "ok" /\ acceptOp' = "none" /\ a \in Addr
        /\ ipTable[a] = NoEntry \/ ipTable[a] < MaxIpConnection
    BY <1>2 DEF HandleAccept, IncomingOK, CheckIpAddress
  <2>2. \A b \in Addr : NumFrom(b)' = NumFrom(b)
    BY <2>1, SameNumbers DEF SameSessions
  <2>3. NumFrom(a) < MaxIpConnection
    <3>1. ipTable[a] \in Int /\ NumFrom(a) \in Nat /\ ~(ipTable[a] >= MaxIpConnection)
      BY <2>1, NumbersBounded, IpAssumption DEF Count, NoEntry
    <3>2. CASE BeforeStop
      <4>1. Connections(ipTable[a]) = NumFrom(a)
        BY <2>1, <3>1, <3>2 DEF CountInv, AddressesCounted
      <4>. QED
        BY <3>1, <4>1, IpAssumption DEF Connections
    <3>3. CASE ~BeforeStop
      BY <1>0, <2>1, <3>1, <3>3 DEF LastCheckRefuses, Below
    <3>. QED
      BY <3>2, <3>3
  <2>4. LimitKept'
    BY <1>0, <2>2 DEF LimitKept
  <2>5. StartsBelow'
    BY <2>1, <2>2, <2>3 DEF StartsBelow, Below
  <2>6. LastCheckRefuses'
    BY <2>1 DEF LastCheckRefuses
  <2>7. LeavingBelow'
    <3>. SUFFICES ASSUME (BeforeStop \/ MayStart)', NEW u \in Thread, Leaving(u)'
                  PROVE  Below(peer[cur[u]])'
      BY DEF LeavingBelow
    <3>1. u = Main /\ Leaving(u)
      BY <2>1 DEF Leaving
    <3>2. peer[cur[u]] \in Addr /\ NumFrom(peer[cur[u]]) < MaxIpConnection
      BY <1>0, <2>1, <3>1, WorksFor DEF LeavingBelow, Below
    <3>. QED
      BY <2>1, <2>2, <3>1, <3>2 DEF Below
  <2>. QED
    BY <2>4, <2>5, <2>6, <2>7 DEF LimitInv
<1>3. CASE Store(w) \/ CountUp(w) \/ InsertFind(w) \/ InsertWrite(w)
           \/ SendInit(w) \/ StartRead(w)
  <2>1. acceptOp = "none"
    BY <1>3 DEF Store, CountUp, InsertFind, InsertWrite, SendInit, StartRead,
                ChainInv, OneAcceptLoop, Accepting
  <2>2. BesideLimit
    BY <1>3, <2>1 DEF Store, CountUp, InsertFind, InsertWrite, SendInit, StartRead,
                      BesideLimit, SameSessions, Leaving
  <2>. QED
    BY <2>2, BesideLimitKeeps
<1>4. CASE RearmStopped(w) \/ Rearm(w) \/ FindFreeIndex(w) \/ ScanNext(w) \/ ScanNone(w)
  <2>1. BesideLimit
    BY <1>4 DEF RearmStopped, Rearm, FindFreeIndex, ScanNext, ScanNone, BesideLimit, SameSessions, Leaving
  <2>. QED
    BY <2>1, BesideLimitKeeps
<1>5. CASE ScanFound(w)
  <2>1. PICK s \in Session :
          /\ Unreferenced(s)
          /\ connected' = [connected EXCEPT ![s] = FALSE]
    BY <1>5 DEF ScanFound
  <2>2. ~connected[s] /\ \A u \in Thread : cur[u] # s
    BY <2>1 DEF Unreferenced, Idle, ChainInv, Ownership, SlotOwnership
  <2>3. connected' = connected
    BY <2>1, <2>2
  <2>4. BesideLimit
    BY <1>5, <2>3 DEF ScanFound, BesideLimit, SameSessions, Leaving
  <2>. QED
    BY <2>4, BesideLimitKeeps
<1>6. CASE Start(w)
  <2>1. /\ at[w] = "start" /\ at'[w] = "sendInit" /\ at'[Main] = at[Main]
        /\ peer[cur[w]] \in Addr
    BY <1>6, WorksFor DEF Start
  <2>2. acceptOp = "none" /\ acceptOp' = "none"
    BY <1>6 DEF Start, ChainInv, OneAcceptLoop, Accepting
  <2>3. \A a \in Addr :
          /\ NumFrom(a) \in Nat
          /\ NumFrom(a)' = IF a = peer[cur[w]] THEN NumFrom(a) + 1 ELSE NumFrom(a)
    BY <1>6, StartNumbers, NumbersBounded
  <2>4. NumFrom(peer[cur[w]]) < MaxIpConnection
    BY <1>0, <2>1 DEF StartsBelow, Below
  <2>5. LimitKept'
    BY <1>0, <2>3, <2>4, IpAssumption DEF LimitKept
  <2>6. StartsBelow' /\ LastCheckRefuses'
    BY <2>1, <2>2 DEF StartsBelow, LastCheckRefuses
  <2>7. LeavingBelow'
    <3>1. ~MayStart'
      BY <2>1, <2>2
    <3>2. BeforeStop' => \A u \in Thread : ~Leaving(u)'
      BY <2>1 DEF Leaving
    <3>. QED
      BY <3>1, <3>2 DEF LeavingBelow
  <2>. QED
    BY <2>5, <2>6, <2>7 DEF LimitInv
<1>. QED
  BY <1>1, <1>2, <1>3, <1>4, <1>5, <1>6 DEF AcceptHandler, AcceptStep, StartThrows

\* Every step keeps the limit.
LEMMA LimitNext ==
  ASSUME NEW w, Worker = {w}, ~PeerMayVanish
  PROVE  Base /\ StopInv /\ CountInv(w) /\ LimitInv /\ [Next]_vars => LimitInv'
<1>. SUFFICES ASSUME Base, StopInv, CountInv(w), LimitInv, [Next]_vars PROVE LimitInv'
  OBVIOUS
<1>0. w \in Worker
  OBVIOUS
<1>1. CASE UNCHANGED vars
  <2>1. BesideLimit
    BY <1>1 DEF BesideLimit, SameSessions, BeforeStop, MayStart, Leaving, vars, acceptVars,
                tableVars, sessionVars, countVars, threadVars
  <2>. QED
    BY <2>1, BesideLimitKeeps
<1>2. CASE Finished
  BY <1>1, <1>2 DEF Finished
<1>3. CASE Next /\ ~Finished
  BY <1>0, <1>3, LimitEnvironment, LimitAccept, LimitStrand, LimitClose, LimitMain DEF Next
<1>. QED
  BY <1>1, <1>2, <1>3

\* With one worker, and peers that are still there when the server asks for their
\* address, no address ever has more connected sessions than MaxIpConnection
\* allows, not even while stop() runs beside the worker and the table is no
\* longer exact (check_ip_limit, InsertIpAddress, start, stop).
THEOREM OneWorkerKeepsIpLimit ==
  ASSUME NEW w, Worker = {w}, ~PeerMayVanish, MaxClient + 1 < CountMod
  PROVE  Spec => []IpLimitHolds
<1>0. w \in Worker
  OBVIOUS
<1>1. Init => CountInv(w)
  BY <1>0, CountInit
<1>2. LimitInv => IpLimitHolds
  BY DEF LimitInv, LimitKept, IpLimitHolds, NumFrom
<1>. QED
  BY <1>1, <1>2, BaseInit, BaseNext, StopInit, StopNext, CountNext, LimitInit, LimitNext,
     PTL DEF Spec

=============================================================================
