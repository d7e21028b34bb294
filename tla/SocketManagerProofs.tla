------------------------ MODULE SocketManagerProofs ------------------------
(***************************************************************************)
(* Theorems about SocketManager, for every number of workers, sessions,     *)
(* slots and addresses and every limit: its state is well typed, its accept *)
(* loop is one chain, a connected session owns its slot, and it is served:  *)
(* a read is outstanding or a thread is at work on it.                      *)
(*                                                                         *)
(* The invariant is built in layers, each inductive given the ones below    *)
(* it: where threads are and what they hold (Typing), the accept chain      *)
(* (Chain), and the ownership of slots (Ownership).  That sessions are      *)
(* served rests on Typing, and on nobody but the accept handler knowing a   *)
(* session before ClientSession::start has connected it.                    *)
(***************************************************************************)
EXTENDS SocketManager, TLAPS

\* Labels at which a thread's handler works for a session.
SessionLabel == (AcceptLabel \ {"rearm", "findIndex", "scan"}) \cup StrandLabel

\* Workers and main have labels of their own, and share those of close().
LabelsOK ==
  /\ \A w \in Worker : at[w] \in {"idle"} \cup AcceptLabel \cup StrandLabel
  /\ at[Main] \in MainLabel \cup CloseLabel

\* A handler that works for a session has it, and a value it has read from the
\* address table is one the table can hold.
LocalsOK ==
  \A t \in Thread :
    /\ at[t] \in SessionLabel => cur[t] \in Session
    /\ at[t] \in {"insertWrite", "removeWrite"} => tmp[t] \in Count

\* An accept operation has captured the session it accepts into.
IncomingOK == acceptOp \in {"pending", "ok", "err"} => incoming \in Session

\* Who is inside a critical section holds sessions_mutex_, and stop()'s loop
\* is still inside the table while it closes a session.
LocksOK ==
  /\ \A w \in Worker : at[w] \in {"count", "scan"} => mutex = w
  /\ at[Main] \in {"sweep"} \cup CloseLabel => mutex = Main
  /\ at[Main] \in CloseLabel => cursor < MaxClient

Typing == TypeOK /\ LabelsOK /\ LocalsOK /\ IncomingOK /\ LocksOK

----------------------------------------------------------------------------
(* The operators of IpManager stay within the counter's range.             *)

\* The empty table is a table.
LEMMA EmptyTableOK == EmptyTable \in [Addr -> Count]
  BY IpAssumption DEF EmptyTable, Count, NoEntry

\* No update of the address table, even from a stale read, leaves the range of
\* the 16-bit counter (InsertIpAddress, RemoveIpAddress).
LEMMA TableRange ==
  ASSUME NEW table \in [Addr -> Count], NEW a \in Addr, NEW seen \in Count
  PROVE  /\ AfterInsert(table, a, seen) \in Count
         /\ AfterRemove(table, a, seen) \in Count
<1>. USE IpAssumption
<1>1. table[a] \in Count
  OBVIOUS
<1>2. Incremented(seen) \in Count /\ 1 \in Count /\ NoEntry \in Count
  BY DEF Incremented, Count, NoEntry
<1>3. seen # NoEntry => Decremented(seen) \in Count
  BY DEF Decremented, Count, NoEntry
<1>4. AfterInsert(table, a, seen) \in Count
  BY <1>1, <1>2 DEF AfterInsert
<1>. QED
  BY <1>1, <1>2, <1>3, <1>4 DEF AfterRemove

\* Every type is the one Init gives.
LEMMA TypingInit == Init => Typing
<1>. SUFFICES ASSUME Init PROVE Typing
  OBVIOUS
<1>. USE IpAssumption, SocketAssumption DEF Init, Thread, Slot
<1>1. TypeOK
  <2>1. peer \in [Session -> Addr]
    OBVIOUS
  <2>2. at \in [Thread -> {"idle"} \cup AcceptLabel \cup StrandLabel \cup MainLabel]
    BY DEF MainLabel
  <2>3. index \in [Session -> Slot] /\ cursor \in 0 .. MaxClient
    OBVIOUS
  <2>4. /\ sessions \in [Slot -> Session \cup {NoSession}]
        /\ mutex \in Thread \cup {NoThread}
        /\ cur \in [Thread -> Session \cup {NoSession}]
        /\ tmp \in [Thread -> Int] /\ clientCount \in Int
    OBVIOUS
  <2>5. /\ connected \in [Session -> BOOLEAN]
        /\ readOp \in [Session -> {"none", "pending", "data", "err"}]
        /\ writeOp \in [Session -> {"none", "pending", "err"}]
    OBVIOUS
  <2>. QED
    BY <2>1, <2>2, <2>3, <2>4, <2>5, EmptyTableOK DEF TypeOK
<1>2. LabelsOK
  BY DEF LabelsOK, MainLabel
<1>3. LocalsOK
  BY DEF LocalsOK, SessionLabel, AcceptLabel, StrandLabel, CloseLabel
<1>4. IncomingOK /\ LocksOK
  BY DEF IncomingOK, LocksOK, CloseLabel
<1>. QED
  BY <1>1, <1>2, <1>3, <1>4 DEF Typing

----------------------------------------------------------------------------
(* Typing is inductive.  Each lemma has one step per action.               *)

\* The environment moves the operations only.
LEMMA TypingEnvironment ==
  ASSUME Typing, Environment PROVE Typing'
<1>. USE IpAssumption, SocketAssumption
     DEF Typing, TypeOK, LabelsOK, LocalsOK, IncomingOK, LocksOK,
         acceptVars, tableVars, sessionVars, countVars, threadVars
<1>1. CASE ClientConnects
  BY <1>1 DEF ClientConnects
<1>2. CASE AcceptFails
  BY <1>2 DEF AcceptFails
<1>3. ASSUME NEW s \in Session, ReadCompletes(s) PROVE Typing'
  BY <1>3 DEF ReadCompletes
<1>4. ASSUME NEW s \in Session, WriteCompletes(s) PROVE Typing'
  BY <1>4 DEF WriteCompletes
<1>. QED
  BY <1>1, <1>2, <1>3, <1>4 DEF Environment

\* The steps of the accept handler.
LEMMA TypingAccept ==
  ASSUME Typing, NEW w \in Worker, AcceptHandler(w) \/ AcceptStep(w) PROVE Typing'
<1>. USE IpAssumption, SocketAssumption
     DEF Typing, TypeOK, LabelsOK, LocalsOK, IncomingOK, LocksOK,
         Thread, Slot, SessionLabel, AcceptLabel, StrandLabel, CloseLabel, MainLabel,
         acceptVars, tableVars, sessionVars, countVars, threadVars,
         Goto, Finish, Send, ArmRead, Aborted, Unlocked, Ready
<1>1. CASE HandleAcceptDropped(w)
  BY <1>1 DEF HandleAcceptDropped
<1>2. CASE HandleAccept(w)
  BY <1>2 DEF HandleAccept
<1>3. CASE HandleRetry(w)
  BY <1>3 DEF HandleRetry
<1>4. CASE Store(w)
  <2>. USE <1>4 DEF Store
  <2>1. TypeOK'
    OBVIOUS
  <2>2. LabelsOK'
    OBVIOUS
  <2>3. LocalsOK'
    OBVIOUS
  <2>4. IncomingOK'
    OBVIOUS
  <2>5. LocksOK'
    OBVIOUS
  <2>. QED
    BY <2>1, <2>2, <2>3, <2>4, <2>5 DEF Typing
<1>5. CASE CountUp(w)
  <2>. USE <1>5 DEF CountUp
  <2>1. TypeOK'
    OBVIOUS
  <2>2. LabelsOK'
    OBVIOUS
  <2>3. LocalsOK'
    OBVIOUS
  <2>4. IncomingOK'
    OBVIOUS
  <2>5. LocksOK'
    OBVIOUS
  <2>. QED
    BY <2>1, <2>2, <2>3, <2>4, <2>5 DEF Typing
<1>6. CASE InsertFind(w)
  <2>. USE <1>6 DEF InsertFind
  <2>0. ipTable[peer[cur[w]]] \in Count /\ Count \subseteq Int
    <3>1. Count \subseteq Int
      BY DEF Count, NoEntry
    <3>. QED
      BY <3>1
  <2>1. TypeOK'
    <3>1. tmp' \in [Thread -> Int]
      BY <2>0
    <3>. QED
      BY <3>1
  <2>2. LabelsOK'
    OBVIOUS
  <2>3. LocalsOK'
    BY <2>0
  <2>4. IncomingOK'
    OBVIOUS
  <2>5. LocksOK'
    OBVIOUS
  <2>. QED
    BY <2>1, <2>2, <2>3, <2>4, <2>5 DEF Typing
<1>7. CASE InsertWrite(w)
  BY <1>7, TableRange DEF InsertWrite
<1>8. CASE Start(w)
  <2>. USE <1>8 DEF Start
  <2>1. TypeOK'
    OBVIOUS
  <2>2. LabelsOK'
    OBVIOUS
  <2>3. LocalsOK'
    OBVIOUS
  <2>4. IncomingOK'
    OBVIOUS
  <2>5. LocksOK'
    OBVIOUS
  <2>. QED
    BY <2>1, <2>2, <2>3, <2>4, <2>5 DEF Typing
<1>9. CASE StartThrows(w)
  BY <1>9 DEF StartThrows
<1>10. CASE SendInit(w)
  BY <1>10 DEF SendInit
<1>11. CASE StartRead(w)
  <2>. USE <1>11 DEF StartRead
  <2>1. TypeOK'
    OBVIOUS
  <2>2. LabelsOK'
    OBVIOUS
  <2>3. LocalsOK'
    OBVIOUS
  <2>4. IncomingOK'
    OBVIOUS
  <2>5. LocksOK'
    OBVIOUS
  <2>. QED
    BY <2>1, <2>2, <2>3, <2>4, <2>5 DEF Typing
<1>12. CASE RearmStopped(w)
  BY <1>12 DEF RearmStopped
<1>13. CASE Rearm(w)
  BY <1>13 DEF Rearm
<1>14. CASE ScanNext(w)
  BY <1>14 DEF ScanNext
<1>15. CASE ScanFound(w)
  BY <1>15 DEF ScanFound
<1>16. CASE ScanNone(w)
  BY <1>16 DEF ScanNone
<1>17. CASE FindFreeIndex(w)
  BY <1>17 DEF FindFreeIndex
<1>. QED
  BY <1>1, <1>2, <1>3, <1>4, <1>5, <1>6, <1>7, <1>8, <1>9, <1>10, <1>11, <1>12, <1>13, <1>14, <1>15, <1>16, <1>17 DEF AcceptHandler, AcceptStep

\* The steps of a session's strand, up to close().
LEMMA TypingStrand ==
  ASSUME Typing, NEW w \in Worker,
         ParseStep(w) \/ \E s \in Session : SessionHandler(w, s) PROVE Typing'
<1>. USE IpAssumption, SocketAssumption
     DEF Typing, TypeOK, LabelsOK, LocalsOK, IncomingOK, LocksOK,
         Thread, Slot, SessionLabel, AcceptLabel, StrandLabel, CloseLabel, MainLabel,
         acceptVars, tableVars, sessionVars, countVars, threadVars,
         Goto, Finish, Send, ArmRead, Aborted, Unlocked, Ready
<1>1. CASE ParseReply(w)
  BY <1>1 DEF ParseReply
<1>2. CASE ParseDone(w)
  BY <1>2 DEF ParseDone
<1>3. CASE ParseFails(w)
  BY <1>3 DEF ParseFails
<1>4. ASSUME NEW s \in Session, HandleRead(w, s) PROVE Typing'
  <2>. USE <1>4 DEF HandleRead
  <2>1. /\ at' \in [Thread -> {"idle"} \cup AcceptLabel \cup StrandLabel \cup MainLabel]
        /\ tmp' \in [Thread -> Int]
        /\ at'[w] \in {"parse", "closeCheck"}
        /\ \A t \in Thread \ {w} : at'[t] = at[t] /\ tmp'[t] = tmp[t]
    <3>1. CASE readOp[s] = "err" /\ at' = [at EXCEPT ![w] = "closeCheck"] /\ tmp' = tmp
      BY <3>1
    <3>2. CASE /\ readOp[s] = "data" /\ at' = [at EXCEPT ![w] = "parse"]
               /\ \E n \in 0 .. MaxReplies : tmp' = [tmp EXCEPT ![w] = n]
      BY <3>2
    <3>. QED
      BY <3>1, <3>2
  <2>2. TypeOK'
    BY <2>1
  <2>3. LabelsOK'
    BY <2>1
  <2>4. LocalsOK'
    BY <2>1
  <2>5. IncomingOK' /\ LocksOK'
    BY <2>1
  <2>. QED
    BY <2>2, <2>3, <2>4, <2>5
<1>5. ASSUME NEW s \in Session, HandleWrite(w, s) PROVE Typing'
  BY <1>5 DEF HandleWrite
<1>. QED
  BY <1>1, <1>2, <1>3, <1>4, <1>5 DEF ParseStep, SessionHandler

\* The steps of close(), in a strand handler and in stop().
LEMMA TypingClose ==
  ASSUME Typing, NEW t \in Thread, Close(t) PROVE Typing'
<1>. USE IpAssumption, SocketAssumption
     DEF Typing, TypeOK, LabelsOK, LocalsOK, IncomingOK, LocksOK,
         Thread, Slot, SessionLabel, AcceptLabel, StrandLabel, CloseLabel, MainLabel,
         acceptVars, tableVars, sessionVars, countVars, threadVars,
         Goto, Finish, Send, ArmRead, Aborted, Unlocked, Ready
<1>0. t # Main => t \in Worker
  OBVIOUS
<1>1. CASE CloseCheckClosed(t)
  <2>. USE <1>1 DEF CloseCheckClosed
  <2>1. CASE t # Main
    <3>1. Finish(t) /\ cursor' = cursor
      BY <2>1 DEF CloseReturns
    <3>2. TypeOK' /\ IncomingOK'
      BY <3>1
    <3>3. LabelsOK' /\ LocalsOK' /\ LocksOK'
      BY <2>1, <3>1
    <3>. QED
      BY <3>2, <3>3
  <2>2. CASE t = Main
    <3>1. /\ at' = [at EXCEPT ![Main] = "sweep"]
          /\ cur' = [cur EXCEPT ![Main] = NoSession]
          /\ tmp' = [tmp EXCEPT ![Main] = 0]
          /\ cursor' = cursor + 1
      BY <2>2 DEF CloseReturns
    <3>2. TypeOK' /\ IncomingOK'
      BY <2>2, <3>1
    <3>3. LabelsOK' /\ LocalsOK' /\ LocksOK'
      BY <2>2, <3>1
    <3>. QED
      BY <3>2, <3>3
  <2>. QED
    BY <2>1, <2>2
<1>2. CASE CloseCheckOpen(t)
  BY <1>2 DEF CloseCheckOpen
<1>3. CASE CloseMark(t)
  BY <1>3 DEF CloseMark
<1>4. CASE RemoveFind(t)
  <2>. USE <1>4 DEF RemoveFind
  <2>0. ipTable[peer[cur[t]]] \in Count /\ Count \subseteq Int
    BY DEF Count, NoEntry
  <2>1. TypeOK'
    <3>1. tmp' \in [Thread -> Int]
      BY <2>0
    <3>. QED
      BY <3>1
  <2>2. LabelsOK'
    OBVIOUS
  <2>3. LocalsOK'
    BY <2>0
  <2>4. IncomingOK' /\ LocksOK'
    OBVIOUS
  <2>. QED
    BY <2>1, <2>2, <2>3, <2>4
<1>5. CASE RemoveWrite(t)
  <2>. USE <1>5 DEF RemoveWrite
  <2>0. ipTable' \in [Addr -> Count]
    BY TableRange
  <2>1. TypeOK'
    BY <2>0
  <2>2. LabelsOK' /\ LocalsOK'
    OBVIOUS
  <2>3. IncomingOK' /\ LocksOK'
    OBVIOUS
  <2>. QED
    BY <2>1, <2>2, <2>3
<1>6. CASE CountDownRead(t)
  BY <1>6 DEF CountDownRead
<1>7. CASE CountDown(t)
  <2>. USE <1>7 DEF CountDown
  <2>1. /\ readOp' \in [Session -> {"none", "pending", "data", "err"}]
        /\ writeOp' \in [Session -> {"none", "pending", "err"}]
        /\ clientCount' \in Int
    OBVIOUS
  <2>2. CASE t # Main
    <3>1. Finish(t) /\ cursor' = cursor
      BY <2>2 DEF CloseReturns
    <3>2. TypeOK' /\ IncomingOK'
      BY <2>1, <3>1
    <3>3. LabelsOK' /\ LocalsOK' /\ LocksOK'
      BY <2>2, <3>1
    <3>. QED
      BY <3>2, <3>3
  <2>3. CASE t = Main
    <3>1. /\ at' = [at EXCEPT ![Main] = "sweep"]
          /\ cur' = [cur EXCEPT ![Main] = NoSession]
          /\ tmp' = [tmp EXCEPT ![Main] = 0]
          /\ cursor' = cursor + 1
      BY <2>3 DEF CloseReturns
    <3>2. TypeOK' /\ IncomingOK'
      BY <2>1, <2>3, <3>1
    <3>3. LabelsOK' /\ LocalsOK' /\ LocksOK'
      BY <2>3, <3>1
    <3>. QED
      BY <3>2, <3>3
  <2>. QED
    BY <2>2, <2>3
<1>. QED
  BY <1>1, <1>2, <1>3, <1>4, <1>5, <1>6, <1>7 DEF Close

\* The steps of the main thread outside close().
LEMMA TypingMain ==
  ASSUME Typing, Signal \/ Quit \/ MainStep PROVE Typing'
<1>. USE IpAssumption, SocketAssumption
     DEF Typing, TypeOK, LabelsOK, LocalsOK, IncomingOK, LocksOK,
         Thread, Slot, SessionLabel, AcceptLabel, StrandLabel, CloseLabel, MainLabel,
         acceptVars, tableVars, sessionVars, countVars, threadVars,
         Goto, Finish, Send, ArmRead, Aborted, Unlocked, Ready
<1>1. CASE Signal
  BY <1>1 DEF Signal
<1>2. CASE Quit
  BY <1>2 DEF Quit
<1>3. CASE StopLock
  BY <1>3 DEF StopLock
<1>4. CASE SweepEmpty
  BY <1>4 DEF SweepEmpty
<1>5. CASE SweepSession
  BY <1>5 DEF SweepSession
<1>6. CASE SweepDone
  BY <1>6 DEF SweepDone
<1>7. CASE Join
  BY <1>7 DEF Join
<1>8. CASE StopAccepting
  <2>. USE <1>8 DEF StopAccepting
  <2>1. /\ acceptOp' \in {"none", "pending", "ok", "err", "retry"}
        /\ acceptOp' \in {"pending", "ok", "err"} => acceptOp \in {"pending", "ok", "err"}
    OBVIOUS
  <2>2. TypeOK'
    BY <2>1
  <2>3. LabelsOK' /\ LocalsOK' /\ IncomingOK' /\ LocksOK'
    BY <2>1
  <2>. QED
    BY <2>2, <2>3
<1>. QED
  BY <1>1, <1>2, <1>3, <1>4, <1>5, <1>6, <1>7, <1>8 DEF MainStep

\* Every step preserves Typing.
LEMMA TypingNext == Typing /\ [Next]_vars => Typing'
<1>. SUFFICES ASSUME Typing, [Next]_vars PROVE Typing'
  OBVIOUS
<1>1. CASE UNCHANGED vars
  BY <1>1 DEF Typing, TypeOK, LabelsOK, LocalsOK, IncomingOK, LocksOK,
              vars, acceptVars, tableVars, sessionVars, countVars, threadVars
<1>2. CASE Finished
  BY <1>1, <1>2 DEF Finished
<1>3. CASE Next /\ ~Finished
  BY <1>3, TypingEnvironment, TypingAccept, TypingStrand, TypingClose, TypingMain
  DEF Next
<1>. QED
  BY <1>1, <1>2, <1>3

\* The state of the TCP side stays well typed: every slot, label, operation
\* and counter in range, the address counters within 16 bits whatever the
\* threads' unlocked updates do.
THEOREM TypeCorrect == Spec => []TypeOK
<1>1. Typing => TypeOK
  BY DEF Typing
<1>. QED
  BY TypingInit, TypingNext, <1>1, PTL DEF Spec

----------------------------------------------------------------------------
(* The accept loop, and the slot it is for.  The slot is free from the      *)
(* moment find_free_index finds it until the new session is stored in it;   *)
(* from then on the new session is its occupant.  Nobody else can make the  *)
(* old occupant connected again meanwhile, because the accept loop is one   *)
(* chain: OneAcceptLoop is what makes Ownership inductive.                  *)

Reservations ==
  /\ acceptOp \in {"pending", "ok", "err"} => SlotFree(index[incoming])
  /\ \A w \in Worker : at[w] = "store" => SlotFree(index[cur[w]])

Placed ==
  \A w \in Worker :
    at[w] \in {"count", "insertFind", "insertWrite", "start"} =>
      sessions[index[cur[w]]] = cur[w]

Ownership == Reservations /\ Placed /\ SlotOwnership

ChainInv == OneAcceptLoop /\ Ownership

\* What every step outside the accept handler does to the accept loop and the
\* slots: nothing but close sessions, stop the loop and complete the accept.
QuietStep ==
  /\ sessions' = sessions /\ index' = index /\ incoming' = incoming
  /\ running' => running
  /\ acceptOp' = "none" <=> acceptOp = "none"
  /\ acceptOp' \in {"pending", "ok", "err"} => acceptOp \in {"pending", "ok", "err"}
  /\ \A s \in Session : connected'[s] => connected[s]
  /\ \A w \in Worker :
       /\ at'[w] \in AcceptLabel <=> at[w] \in AcceptLabel
       /\ at[w] \in AcceptLabel => at'[w] = at[w] /\ cur'[w] = cur[w]

\* A quiet step leaves the accept loop one chain and the slots owned.
LEMMA QuietPreserves ==
  ASSUME Typing, ChainInv, QuietStep PROVE ChainInv'
<1>. USE DEF ChainInv, QuietStep
<1>1. OneAcceptLoop'
  BY DEF OneAcceptLoop, Accepting
<1>2. ASSUME NEW i \in Slot, SlotFree(i) PROVE SlotFree(i)'
  BY <1>2 DEF SlotFree, Typing, TypeOK
<1>3. Reservations'
  <2>1. acceptOp \in {"pending", "ok", "err"} => index[incoming] \in Slot
    BY DEF Typing, TypeOK, IncomingOK
  <2>2. \A w \in Worker : at[w] = "store" => index[cur[w]] \in Slot
    BY DEF Typing, TypeOK, LocalsOK, SessionLabel, AcceptLabel, Thread
  <2>3. \A w \in Worker : at'[w] = "store" => at[w] = "store" /\ cur'[w] = cur[w]
    BY DEF AcceptLabel
  <2>. QED
    BY <1>2, <2>1, <2>2, <2>3 DEF Ownership, Reservations
<1>4. Placed'
  BY DEF Ownership, Placed, AcceptLabel
<1>5. SlotOwnership'
  BY DEF Ownership, SlotOwnership
<1>. QED
  BY <1>1, <1>3, <1>4, <1>5 DEF Ownership

\* Clients and the network.
LEMMA QuietEnvironment ==
  ASSUME Typing, Environment PROVE QuietStep
<1>. USE SocketAssumption
     DEF Typing, TypeOK, LabelsOK, LocalsOK, IncomingOK, LocksOK,
         Thread, Slot, SessionLabel, AcceptLabel, StrandLabel, CloseLabel, MainLabel,
         acceptVars, tableVars, sessionVars, countVars, threadVars,
         QuietStep, Goto, Finish, Send, ArmRead, Aborted, Unlocked, Ready
<1>1. CASE ClientConnects
  BY <1>1 DEF ClientConnects
<1>2. CASE AcceptFails
  BY <1>2 DEF AcceptFails
<1>3. ASSUME NEW s \in Session, ReadCompletes(s) PROVE QuietStep
  BY <1>3 DEF ReadCompletes
<1>4. ASSUME NEW s \in Session, WriteCompletes(s) PROVE QuietStep
  BY <1>4 DEF WriteCompletes
<1>. QED
  BY <1>1, <1>2, <1>3, <1>4 DEF Environment

\* The handlers of the sessions' strands.
LEMMA QuietStrand ==
  ASSUME Typing, NEW w \in Worker,
         ParseStep(w) \/ \E s \in Session : SessionHandler(w, s) PROVE QuietStep
<1>. USE SocketAssumption
     DEF Typing, TypeOK, LabelsOK, LocalsOK, IncomingOK, LocksOK,
         Thread, Slot, SessionLabel, AcceptLabel, StrandLabel, CloseLabel, MainLabel,
         acceptVars, tableVars, sessionVars, countVars, threadVars,
         QuietStep, Goto, Finish, Send, ArmRead, Aborted, Unlocked, Ready
<1>1. CASE ParseReply(w)
  BY <1>1 DEF ParseReply
<1>2. CASE ParseDone(w)
  BY <1>2 DEF ParseDone
<1>3. CASE ParseFails(w)
  BY <1>3 DEF ParseFails
<1>4. ASSUME NEW s \in Session, HandleRead(w, s) PROVE QuietStep
  <2>1. /\ at[w] = "idle"
        /\ at'[w] \in {"parse", "closeCheck"}
        /\ \A v \in Worker \ {w} : at'[v] = at[v] /\ cur'[v] = cur[v]
    BY <1>4 DEF HandleRead
  <2>. QED
    BY <1>4, <2>1 DEF HandleRead
<1>5. ASSUME NEW s \in Session, HandleWrite(w, s) PROVE QuietStep
  BY <1>5 DEF HandleWrite
<1>. QED
  BY <1>1, <1>2, <1>3, <1>4, <1>5 DEF ParseStep, SessionHandler

\* close(), whoever runs it.
LEMMA QuietClose ==
  ASSUME Typing, NEW t \in Thread, Close(t) PROVE QuietStep
<1>. USE SocketAssumption
     DEF Typing, TypeOK, LabelsOK, LocalsOK, IncomingOK, LocksOK,
         Thread, Slot, SessionLabel, AcceptLabel, StrandLabel, CloseLabel, MainLabel,
         acceptVars, tableVars, sessionVars, countVars, threadVars,
         QuietStep, Goto, Finish, Send, ArmRead, Aborted, Unlocked, Ready
<1>1. ASSUME CloseReturns(t), at[t] \in CloseLabel
      PROVE  \A w \in Worker :
               /\ at'[w] \in AcceptLabel <=> at[w] \in AcceptLabel
               /\ at[w] \in AcceptLabel => at'[w] = at[w] /\ cur'[w] = cur[w]
  BY <1>1 DEF CloseReturns
<1>2. CASE CloseCheckClosed(t)
  BY <1>1, <1>2 DEF CloseCheckClosed
<1>3. CASE CloseCheckOpen(t)
  BY <1>3 DEF CloseCheckOpen
<1>4. CASE CloseMark(t)
  BY <1>4 DEF CloseMark
<1>5. CASE RemoveFind(t)
  BY <1>5 DEF RemoveFind
<1>6. CASE RemoveWrite(t)
  BY <1>6 DEF RemoveWrite
<1>7. CASE CountDownRead(t)
  BY <1>7 DEF CountDownRead
<1>8. CASE CountDown(t)
  BY <1>1, <1>8 DEF CountDown
<1>. QED
  BY <1>2, <1>3, <1>4, <1>5, <1>6, <1>7, <1>8 DEF Close

\* The main thread.
LEMMA QuietMain ==
  ASSUME Typing, Signal \/ Quit \/ MainStep PROVE QuietStep
<1>. USE SocketAssumption
     DEF Typing, TypeOK, LabelsOK, LocalsOK, IncomingOK, LocksOK,
         Thread, Slot, SessionLabel, AcceptLabel, StrandLabel, CloseLabel, MainLabel,
         acceptVars, tableVars, sessionVars, countVars, threadVars,
         QuietStep, Goto, Finish, Send, ArmRead, Aborted, Unlocked, Ready
<1>1. CASE Signal
  BY <1>1 DEF Signal
<1>2. CASE Quit
  BY <1>2 DEF Quit
<1>3. CASE StopAccepting
  BY <1>3 DEF StopAccepting
<1>4. CASE StopLock
  BY <1>4 DEF StopLock
<1>5. CASE SweepEmpty
  BY <1>5 DEF SweepEmpty
<1>6. CASE SweepSession
  BY <1>6 DEF SweepSession
<1>7. CASE SweepDone
  BY <1>7 DEF SweepDone
<1>8. CASE Join
  BY <1>8 DEF Join
<1>. QED
  BY <1>1, <1>2, <1>3, <1>4, <1>5, <1>6, <1>7, <1>8 DEF MainStep

\* The accept handler hands its slot on: from the operation to the worker, from
\* the worker to the new session, and from find_free_index to the operation.
LEMMA ChainAccept ==
  ASSUME Typing, ChainInv, NEW w \in Worker, AcceptHandler(w) \/ AcceptStep(w)
  PROVE  ChainInv'
<1>. USE SocketAssumption
     DEF Typing, TypeOK, LabelsOK, LocalsOK, IncomingOK, LocksOK,
         Thread, Slot, SessionLabel, AcceptLabel, StrandLabel, CloseLabel, MainLabel,
         acceptVars, tableVars, sessionVars, countVars, threadVars,
         Goto, Finish, Send, ArmRead, Unlocked, Ready,
         ChainInv, OneAcceptLoop, Accepting, Ownership, Reservations, Placed,
         SlotOwnership, SlotFree
<1>1. CASE HandleAcceptDropped(w)
  BY <1>1 DEF HandleAcceptDropped
<1>2. CASE HandleAccept(w)
  BY <1>2 DEF HandleAccept
<1>3. CASE HandleRetry(w)
  BY <1>3 DEF HandleRetry
<1>4. CASE Store(w)
  <2>. USE <1>4 DEF Store
  <2>1. OneAcceptLoop'
    OBVIOUS
  <2>2. Reservations'
    OBVIOUS
  <2>3. Placed'
    OBVIOUS
  <2>4. SlotOwnership'
    OBVIOUS
  <2>. QED
    BY <2>1, <2>2, <2>3, <2>4
<1>5. CASE CountUp(w)
  BY <1>5 DEF CountUp
<1>6. CASE InsertFind(w)
  BY <1>6 DEF InsertFind
<1>7. CASE InsertWrite(w)
  BY <1>7 DEF InsertWrite
<1>8. CASE Start(w)
  BY <1>8 DEF Start
<1>9. CASE StartThrows(w)
  BY <1>9 DEF StartThrows
<1>10. CASE SendInit(w)
  BY <1>10 DEF SendInit
<1>11. CASE StartRead(w)
  BY <1>11 DEF StartRead
<1>12. CASE RearmStopped(w)
  BY <1>12 DEF RearmStopped
<1>13. CASE Rearm(w)
  BY <1>13 DEF Rearm
<1>14. CASE ScanNext(w)
  BY <1>14 DEF ScanNext
<1>15. CASE ScanFound(w)
  BY <1>15 DEF ScanFound, Unreferenced
<1>16. CASE ScanNone(w)
  BY <1>16 DEF ScanNone
<1>17. CASE FindFreeIndex(w)
  BY <1>17 DEF FindFreeIndex
<1>. QED
  BY <1>1, <1>2, <1>3, <1>4, <1>5, <1>6, <1>7, <1>8, <1>9, <1>10, <1>11, <1>12, <1>13, <1>14, <1>15, <1>16, <1>17 DEF AcceptHandler, AcceptStep

\* At first an accept is pending and every slot is free.
LEMMA ChainInit == Init => ChainInv
  BY SocketAssumption
  DEF Init, ChainInv, OneAcceptLoop, Accepting, Ownership, Reservations, Placed,
      SlotOwnership, SlotFree, AcceptLabel, Thread, Slot

\* Every step keeps the accept loop one chain and the slots owned.
LEMMA ChainNext == Typing /\ ChainInv /\ [Next]_vars => ChainInv'
<1>. SUFFICES ASSUME Typing, ChainInv, [Next]_vars PROVE ChainInv'
  OBVIOUS
<1>1. CASE UNCHANGED vars
  BY <1>1 DEF ChainInv, OneAcceptLoop, Accepting, Ownership, Reservations, Placed,
              SlotOwnership, SlotFree, vars, acceptVars, tableVars, sessionVars,
              threadVars
<1>2. CASE Finished
  BY <1>1, <1>2 DEF Finished
<1>3. CASE Next /\ ~Finished
  BY <1>3, ChainAccept, QuietPreserves,
     QuietEnvironment, QuietStrand, QuietClose, QuietMain
  DEF Next
<1>. QED
  BY <1>1, <1>2, <1>3

\* While the server runs exactly one of the accept operation, the retry timer
\* and the accept handler exists: no slot is offered twice, and no error path
\* leaves the server without an accept.
THEOREM AcceptLoopIsOneChain == Spec => []OneAcceptLoop
<1>1. ChainInv => OneAcceptLoop
  BY DEF ChainInv
<1>. QED
  BY TypingInit, TypingNext, ChainInit, ChainNext, <1>1, PTL DEF Spec

\* A connected session is the occupant of its slot, for any number of workers
\* and slots and however handlers, close() and stop() interleave.
THEOREM SlotsAreOwned == Spec => []SlotOwnership
<1>1. ChainInv => SlotOwnership
  BY DEF ChainInv, Ownership
<1>. QED
  BY TypingInit, TypingNext, ChainInit, ChainNext, <1>1, PTL DEF Spec

----------------------------------------------------------------------------
(* Connected sessions are served.                                          *)

\* A thread that works for nobody refers to nobody.
AtRest == \A t \in Thread : at[t] \notin SessionLabel => cur[t] = NoSession

\* close() has marked its session, and it stays so.
Marked ==
  \A t \in Thread :
    at[t] \in {"removeFind", "removeWrite", "uncountRead", "uncountWrite"} =>
      ~connected[cur[t]]

\* s has not been started.
New(s) == ~connected[s] /\ readOp[s] = "none" /\ writeOp[s] = "none"

\* The session an accept is for is known to nobody else,
IncomingNew ==
  acceptOp \in {"pending", "ok", "err"} =>
    /\ New(incoming)
    /\ \A t \in Thread : cur[t] # incoming
    /\ \A i \in Slot : sessions[i] # incoming

\* and until start() connects it stop() may find it in its slot, but does not close it.
StartingNew ==
  \A w \in Worker :
    at[w] \in {"store", "count", "insertFind", "insertWrite", "start"} =>
      /\ New(cur[w])
      /\ \A t \in Thread : t # w /\ cur[t] = cur[w] => t = Main /\ at[t] = "closeCheck"

ServedInv == AtRest /\ Marked /\ IncomingNew /\ StartingNew /\ ConnectedIsServed

\* At first there is an accept, and no session.
LEMMA ServedInit == Init => ServedInv
  BY SocketAssumption
  DEF Init, ServedInv, AtRest, Marked, New, IncomingNew, StartingNew, ConnectedIsServed,
      Thread, Slot, SessionLabel, AcceptLabel, StrandLabel, CloseLabel

\* Clients and the network.
LEMMA ServedEnvironment ==
  ASSUME Typing, ServedInv, Environment
  PROVE  ServedInv'
<1>. USE SocketAssumption
     DEF Typing, TypeOK, LabelsOK, LocalsOK, IncomingOK, LocksOK,
         Thread, Slot, SessionLabel, AcceptLabel, StrandLabel, CloseLabel, MainLabel,
         acceptVars, tableVars, sessionVars, countVars, threadVars,
         Goto, Finish, Send, ArmRead, Aborted, Unlocked, Ready,
         ServedInv, New
<1>1. CASE ClientConnects
  BY <1>1 DEF ClientConnects, AtRest, Marked, IncomingNew, StartingNew, ConnectedIsServed
<1>2. CASE AcceptFails
  BY <1>2 DEF AcceptFails, AtRest, Marked, IncomingNew, StartingNew, ConnectedIsServed
<1>3. ASSUME NEW s \in Session, ReadCompletes(s) PROVE ServedInv'
  BY <1>3 DEF ReadCompletes, AtRest, Marked, IncomingNew, StartingNew, ConnectedIsServed
<1>4. ASSUME NEW s \in Session, WriteCompletes(s) PROVE ServedInv'
  BY <1>4 DEF WriteCompletes, AtRest, Marked, IncomingNew, StartingNew, ConnectedIsServed
<1>. QED
  BY <1>1, <1>2, <1>3, <1>4 DEF Environment

\* The accept handler starts the session nobody else knows, and arms its read.
LEMMA ServedAccept ==
  ASSUME Typing, ServedInv, NEW w \in Worker, AcceptHandler(w) \/ AcceptStep(w)
  PROVE  ServedInv'
<1>. USE SocketAssumption
     DEF Typing, TypeOK, LabelsOK, LocalsOK, IncomingOK, LocksOK,
         Thread, Slot, SessionLabel, AcceptLabel, StrandLabel, CloseLabel, MainLabel,
         acceptVars, tableVars, sessionVars, countVars, threadVars,
         Goto, Finish, Send, ArmRead, Aborted, Unlocked, Ready,
         ServedInv, New
<1>1. CASE HandleAcceptDropped(w)
  BY <1>1 DEF HandleAcceptDropped, AtRest, Marked, IncomingNew, StartingNew, ConnectedIsServed
<1>2. CASE HandleAccept(w)
  <2>. USE <1>2 DEF HandleAccept
  <2>1. AtRest'
    BY DEF AtRest
  <2>2. Marked'
    BY DEF Marked
  <2>3. IncomingNew'
    BY DEF IncomingNew
  <2>4. StartingNew'
    <3>1. ASSUME NEW v \in Worker \ {w},
                 at[v] \in {"store", "count", "insertFind", "insertWrite", "start"}
          PROVE  cur[v] # incoming
      BY DEF IncomingNew
    <3>2. \A t \in Thread \ {w} : cur'[t] # incoming
      BY DEF IncomingNew
    <3>3. New(incoming)
      BY DEF IncomingNew
    <3>. QED
      BY <3>1, <3>2, <3>3 DEF StartingNew
  <2>5. ConnectedIsServed'
    <3>. SUFFICES ASSUME NEW r \in Session, connected'[r], readOp'[r] = "none"
                  PROVE  \E t1 \in Thread : cur'[t1] = r
      BY DEF ConnectedIsServed
    <3>1. PICK t1 \in Thread : cur[t1] = r
      BY DEF ConnectedIsServed
    <3>2. t1 # w
      BY <3>1 DEF AtRest
    <3>. QED
      BY <3>1, <3>2
  <2>. QED
    BY <2>1, <2>2, <2>3, <2>4, <2>5
<1>3. CASE HandleRetry(w)
  <2>. USE <1>3 DEF HandleRetry
  <2>1. AtRest'
    BY DEF AtRest
  <2>2. Marked'
    BY DEF Marked
  <2>3. IncomingNew'
    BY DEF IncomingNew
  <2>4. StartingNew'
    BY DEF StartingNew
  <2>5. ConnectedIsServed'
    BY DEF ConnectedIsServed
  <2>. QED
    BY <2>1, <2>2, <2>3, <2>4, <2>5
<1>4. CASE Store(w)
  BY <1>4 DEF Store, AtRest, Marked, IncomingNew, StartingNew, ConnectedIsServed
<1>5. CASE CountUp(w)
  BY <1>5 DEF CountUp, AtRest, Marked, IncomingNew, StartingNew, ConnectedIsServed
<1>6. CASE InsertFind(w)
  BY <1>6 DEF InsertFind, AtRest, Marked, IncomingNew, StartingNew, ConnectedIsServed
<1>7. CASE InsertWrite(w)
  BY <1>7 DEF InsertWrite, AtRest, Marked, IncomingNew, StartingNew, ConnectedIsServed
<1>8. CASE Start(w)
  <2>. USE <1>8 DEF Start
  <2>1. AtRest'
    BY DEF AtRest
  <2>2. Marked'
    <3>1. ASSUME NEW t \in Thread,
                 at[t] \in {"removeFind", "removeWrite", "uncountRead", "uncountWrite"}
          PROVE  cur[t] # cur[w] /\ t # w
      BY <3>1 DEF StartingNew
    <3>. QED
      BY <3>1 DEF Marked
  <2>3. IncomingNew'
    BY DEF IncomingNew
  <2>4. StartingNew'
    BY DEF StartingNew
  <2>5. ConnectedIsServed'
    BY DEF ConnectedIsServed
  <2>. QED
    BY <2>1, <2>2, <2>3, <2>4, <2>5
<1>9. CASE StartThrows(w)
  <2>. USE <1>9 DEF StartThrows
  <2>1. AtRest'
    BY DEF AtRest
  <2>2. Marked'
    BY DEF Marked
  <2>3. IncomingNew'
    BY DEF IncomingNew
  <2>4. StartingNew'
    <3>. HIDE DEF LabelsOK, LocksOK, IncomingOK
    <3>. SUFFICES ASSUME NEW v \in Worker, v # w,
                         at[v] \in {"store", "count", "insertFind", "insertWrite", "start"}
                  PROVE  /\ New(cur[v])'
                         /\ \A t \in Thread : t # v /\ cur'[t] = cur[v]
                                             => t = Main /\ at'[t] = "closeCheck"
      BY DEF StartingNew
    <3>1. /\ New(cur[v])
          /\ \A t \in Thread : t # v /\ cur[t] = cur[v] => t = Main /\ at[t] = "closeCheck"
      BY DEF StartingNew
    <3>2. cur[w] # cur[v]
      BY <3>1
    <3>3. cur[v] # NoSession
      <4>. HIDE DEF SessionLabel, AcceptLabel, StrandLabel, CloseLabel, MainLabel, TypeOK
      <4>1. at[v] \in SessionLabel
        BY DEF SessionLabel, AcceptLabel
      <4>2. v \in Thread /\ cur[v] \in Session
        BY <4>1 DEF LocalsOK
      <4>. QED
        BY <4>2
    <3>. QED
      BY <3>1, <3>2, <3>3
  <2>5. ConnectedIsServed'
    <3>. SUFFICES ASSUME NEW r \in Session, connected'[r], readOp'[r] = "none"
                  PROVE  \E t1 \in Thread : cur'[t1] = r
      BY DEF ConnectedIsServed
    <3>1. PICK t1 \in Thread : cur[t1] = r
      BY DEF ConnectedIsServed
    <3>2. t1 # w
      BY <3>1 DEF StartingNew
    <3>. QED
      BY <3>1, <3>2
  <2>. QED
    BY <2>1, <2>2, <2>3, <2>4, <2>5
<1>10. CASE SendInit(w)
  BY <1>10 DEF SendInit, AtRest, Marked, IncomingNew, StartingNew, ConnectedIsServed
<1>11. CASE StartRead(w)
  <2>. USE <1>11 DEF StartRead
  <2>1. AtRest'
    BY DEF AtRest
  <2>2. Marked'
    BY DEF Marked
  <2>3. IncomingNew'
    BY DEF IncomingNew
  <2>4. StartingNew'
    <3>. HIDE DEF LabelsOK, LocksOK, IncomingOK
    <3>. SUFFICES ASSUME NEW v \in Worker, v # w,
                         at[v] \in {"store", "count", "insertFind", "insertWrite", "start"}
                  PROVE  /\ New(cur[v])'
                         /\ \A t \in Thread : t # v /\ cur'[t] = cur[v]
                                             => t = Main /\ at'[t] = "closeCheck"
      BY DEF StartingNew
    <3>1. /\ New(cur[v])
          /\ \A t \in Thread : t # v /\ cur[t] = cur[v] => t = Main /\ at[t] = "closeCheck"
      BY DEF StartingNew
    <3>2. cur[w] # cur[v]
      BY <3>1
    <3>3. cur[v] # NoSession
      <4>. HIDE DEF SessionLabel, AcceptLabel, StrandLabel, CloseLabel, MainLabel, TypeOK
      <4>1. at[v] \in SessionLabel
        BY DEF SessionLabel, AcceptLabel
      <4>2. v \in Thread /\ cur[v] \in Session
        BY <4>1 DEF LocalsOK
      <4>. QED
        BY <4>2
    <3>. QED
      BY <3>1, <3>2, <3>3
  <2>5. ConnectedIsServed'
    BY DEF ConnectedIsServed
  <2>. QED
    BY <2>1, <2>2, <2>3, <2>4, <2>5
<1>12. CASE RearmStopped(w)
  <2>. USE <1>12 DEF RearmStopped
  <2>1. AtRest'
    BY DEF AtRest
  <2>2. Marked'
    BY DEF Marked
  <2>3. IncomingNew'
    BY DEF IncomingNew
  <2>4. StartingNew'
    BY DEF StartingNew
  <2>5. ConnectedIsServed'
    <3>. SUFFICES ASSUME NEW r \in Session, connected'[r], readOp'[r] = "none"
                  PROVE  \E t1 \in Thread : cur'[t1] = r
      BY DEF ConnectedIsServed
    <3>1. PICK t1 \in Thread : cur[t1] = r
      BY DEF ConnectedIsServed
    <3>2. t1 # w
      BY <3>1 DEF AtRest
    <3>. QED
      BY <3>1, <3>2
  <2>. QED
    BY <2>1, <2>2, <2>3, <2>4, <2>5
<1>13. CASE Rearm(w)
  BY <1>13 DEF Rearm, AtRest, Marked, IncomingNew, StartingNew, ConnectedIsServed
<1>14. CASE ScanNext(w)
  BY <1>14 DEF ScanNext, AtRest, Marked, IncomingNew, StartingNew, ConnectedIsServed
<1>15. CASE ScanFound(w)
  <2>. USE <1>15 DEF ScanFound, Unreferenced, Idle
  <2>1. AtRest'
    BY DEF AtRest
  <2>2. Marked'
    BY DEF Marked
  <2>3. IncomingNew'
    BY DEF IncomingNew
  <2>4. StartingNew'
    <3>. HIDE DEF LabelsOK, LocksOK, IncomingOK
    <3>. SUFFICES ASSUME NEW v \in Worker, v # w,
                         at[v] \in {"store", "count", "insertFind", "insertWrite", "start"}
                  PROVE  /\ New(cur[v])'
                         /\ \A t \in Thread : t # v /\ cur'[t] = cur[v]
                                             => t = Main /\ at'[t] = "closeCheck"
      BY DEF StartingNew
    <3>1. /\ New(cur[v])
          /\ \A t \in Thread : t # v /\ cur[t] = cur[v] => t = Main /\ at[t] = "closeCheck"
      BY DEF StartingNew
    <3>3. cur[v] # NoSession
      <4>. HIDE DEF SessionLabel, AcceptLabel, StrandLabel, CloseLabel, MainLabel, TypeOK
      <4>1. at[v] \in SessionLabel
        BY DEF SessionLabel, AcceptLabel
      <4>2. v \in Thread /\ cur[v] \in Session
        BY <4>1 DEF LocalsOK
      <4>. QED
        BY <4>2
    <3>. QED
      BY <3>1, <3>3
  <2>5. ConnectedIsServed'
    <3>. SUFFICES ASSUME NEW r \in Session, connected'[r], readOp'[r] = "none"
                  PROVE  \E t1 \in Thread : cur'[t1] = r
      BY DEF ConnectedIsServed
    <3>1. PICK t1 \in Thread : cur[t1] = r
      BY DEF ConnectedIsServed
    <3>2. t1 # w
      BY <3>1 DEF AtRest
    <3>. QED
      BY <3>1, <3>2
  <2>. QED
    BY <2>1, <2>2, <2>3, <2>4, <2>5
<1>16. CASE ScanNone(w)
  <2>. USE <1>16 DEF ScanNone
  <2>1. AtRest'
    BY DEF AtRest
  <2>2. Marked'
    BY DEF Marked
  <2>3. IncomingNew'
    BY DEF IncomingNew
  <2>4. StartingNew'
    BY DEF StartingNew
  <2>5. ConnectedIsServed'
    <3>. SUFFICES ASSUME NEW r \in Session, connected'[r], readOp'[r] = "none"
                  PROVE  \E t1 \in Thread : cur'[t1] = r
      BY DEF ConnectedIsServed
    <3>1. PICK t1 \in Thread : cur[t1] = r
      BY DEF ConnectedIsServed
    <3>2. t1 # w
      BY <3>1 DEF AtRest
    <3>. QED
      BY <3>1, <3>2
  <2>. QED
    BY <2>1, <2>2, <2>3, <2>4, <2>5
<1>17. CASE FindFreeIndex(w)
  BY <1>17 DEF FindFreeIndex, AtRest, Marked, IncomingNew, StartingNew, ConnectedIsServed
<1>. QED
  BY <1>1, <1>2, <1>3, <1>4, <1>5, <1>6, <1>7, <1>8, <1>9, <1>10, <1>11, <1>12, <1>13, <1>14, <1>15, <1>16, <1>17 DEF AcceptHandler, AcceptStep

\* A strand handler goes on to the next read, or to close().
LEMMA ServedStrand ==
  ASSUME Typing, ServedInv, NEW w \in Worker,
         ParseStep(w) \/ \E s \in Session : SessionHandler(w, s)
  PROVE  ServedInv'
<1>. USE SocketAssumption
     DEF Typing, TypeOK, LabelsOK, LocalsOK, IncomingOK, LocksOK,
         Thread, Slot, SessionLabel, AcceptLabel, StrandLabel, CloseLabel, MainLabel,
         acceptVars, tableVars, sessionVars, countVars, threadVars,
         Goto, Finish, Send, ArmRead, Aborted, Unlocked, Ready,
         ServedInv, New
<1>1. CASE ParseReply(w)
  BY <1>1 DEF ParseReply, AtRest, Marked, IncomingNew, StartingNew, ConnectedIsServed
<1>2. CASE ParseDone(w)
  <2>. USE <1>2 DEF ParseDone
  <2>1. AtRest'
    BY DEF AtRest
  <2>2. Marked'
    BY DEF Marked
  <2>3. IncomingNew'
    BY DEF IncomingNew
  <2>4. StartingNew'
    <3>. HIDE DEF LabelsOK, LocksOK, IncomingOK
    <3>. SUFFICES ASSUME NEW v \in Worker, v # w,
                         at[v] \in {"store", "count", "insertFind", "insertWrite", "start"}
                  PROVE  /\ New(cur[v])'
                         /\ \A t \in Thread : t # v /\ cur'[t] = cur[v]
                                             => t = Main /\ at'[t] = "closeCheck"
      BY DEF StartingNew
    <3>1. /\ New(cur[v])
          /\ \A t \in Thread : t # v /\ cur[t] = cur[v] => t = Main /\ at[t] = "closeCheck"
      BY DEF StartingNew
    <3>2. cur[w] # cur[v]
      BY <3>1
    <3>3. cur[v] # NoSession
      <4>. HIDE DEF SessionLabel, AcceptLabel, StrandLabel, CloseLabel, MainLabel, TypeOK
      <4>1. at[v] \in SessionLabel
        BY DEF SessionLabel, AcceptLabel
      <4>2. v \in Thread /\ cur[v] \in Session
        BY <4>1 DEF LocalsOK
      <4>. QED
        BY <4>2
    <3>. QED
      BY <3>1, <3>2, <3>3
  <2>5. ConnectedIsServed'
    BY DEF ConnectedIsServed
  <2>. QED
    BY <2>1, <2>2, <2>3, <2>4, <2>5
<1>3. CASE ParseFails(w)
  BY <1>3 DEF ParseFails, AtRest, Marked, IncomingNew, StartingNew, ConnectedIsServed
<1>4. ASSUME NEW s \in Session, HandleRead(w, s) PROVE ServedInv'
  <2>. USE <1>4 DEF HandleRead
  <2>1. AtRest'
    BY DEF AtRest
  <2>2. Marked'
    BY DEF Marked
  <2>3. IncomingNew'
    BY DEF IncomingNew
  <2>4. StartingNew'
    BY DEF StartingNew
  <2>5. ConnectedIsServed'
    <3>. SUFFICES ASSUME NEW r \in Session \ {s}, connected'[r], readOp'[r] = "none"
                  PROVE  \E t1 \in Thread : cur'[t1] = r
      BY DEF ConnectedIsServed
    <3>1. PICK t1 \in Thread : cur[t1] = r
      BY DEF ConnectedIsServed
    <3>2. t1 # w
      BY <3>1 DEF AtRest
    <3>. QED
      BY <3>1, <3>2
  <2>. QED
    BY <2>1, <2>2, <2>3, <2>4, <2>5
<1>5. ASSUME NEW s \in Session, HandleWrite(w, s) PROVE ServedInv'
  <2>. USE <1>5 DEF HandleWrite
  <2>1. AtRest'
    BY DEF AtRest
  <2>2. Marked'
    BY DEF Marked
  <2>3. IncomingNew'
    BY DEF IncomingNew
  <2>4. StartingNew'
    BY DEF StartingNew
  <2>5. ConnectedIsServed'
    <3>. SUFFICES ASSUME NEW r \in Session, connected'[r], readOp'[r] = "none"
                  PROVE  \E t1 \in Thread : cur'[t1] = r
      BY DEF ConnectedIsServed
    <3>1. PICK t1 \in Thread : cur[t1] = r
      BY DEF ConnectedIsServed
    <3>2. t1 # w
      BY <3>1 DEF AtRest
    <3>. QED
      BY <3>1, <3>2
  <2>. QED
    BY <2>1, <2>2, <2>3, <2>4, <2>5
<1>. QED
  BY <1>1, <1>2, <1>3, <1>4, <1>5 DEF ParseStep, SessionHandler

\* close() leaves its session only when it is not connected.
LEMMA ServedClose ==
  ASSUME Typing, ServedInv, NEW t \in Thread, Close(t)
  PROVE  ServedInv'
<1>. USE SocketAssumption
     DEF Typing, TypeOK, LabelsOK, LocalsOK, IncomingOK, LocksOK,
         Thread, Slot, SessionLabel, AcceptLabel, StrandLabel, CloseLabel, MainLabel,
         acceptVars, tableVars, sessionVars, countVars, threadVars,
         Goto, Finish, Send, ArmRead, Aborted, Unlocked, Ready,
         ServedInv, New
<1>1. CASE CloseCheckClosed(t)
  <2>. USE <1>1 DEF CloseCheckClosed
  <2>0. /\ at' = [at EXCEPT ![t] = IF t = Main THEN "sweep" ELSE "idle"]
        /\ cur' = [cur EXCEPT ![t] = NoSession]
    BY DEF CloseReturns
  <2>. USE <2>0
  <2>1. AtRest'
    BY DEF AtRest
  <2>2. Marked'
    BY DEF Marked
  <2>3. IncomingNew'
    BY DEF IncomingNew
  <2>4. StartingNew'
    <3>1. ASSUME NEW v \in Worker,
                 at'[v] \in {"store", "count", "insertFind", "insertWrite", "start"}
          PROVE  at[v] = at'[v] /\ cur'[v] = cur[v] /\ cur[v] \in Session
      BY <3>1
    <3>2. ASSUME NEW t1 \in Thread, cur'[t1] \in Session
          PROVE  cur'[t1] = cur[t1] /\ at'[t1] = at[t1]
      BY <3>2
    <3>3. ASSUME NEW r \in Session, New(r) PROVE New(r)'
      BY <3>3
    <3>. QED
      BY <3>1, <3>2, <3>3 DEF StartingNew
  <2>5. ConnectedIsServed'
    <3>. SUFFICES ASSUME NEW r \in Session, connected'[r], readOp'[r] = "none"
                  PROVE  \E t1 \in Thread : cur'[t1] = r
      BY DEF ConnectedIsServed
    <3>1. PICK t1 \in Thread : cur[t1] = r
      BY DEF ConnectedIsServed
    <3>2. t1 # t
      BY <3>1 DEF AtRest
    <3>. QED
      BY <3>1, <3>2
  <2>. QED
    BY <2>1, <2>2, <2>3, <2>4, <2>5
<1>2. CASE CloseCheckOpen(t)
  BY <1>2 DEF CloseCheckOpen, AtRest, Marked, IncomingNew, StartingNew, ConnectedIsServed
<1>3. CASE CloseMark(t)
  BY <1>3 DEF CloseMark, AtRest, Marked, IncomingNew, StartingNew, ConnectedIsServed
<1>4. CASE RemoveFind(t)
  BY <1>4 DEF RemoveFind, AtRest, Marked, IncomingNew, StartingNew, ConnectedIsServed
<1>5. CASE RemoveWrite(t)
  BY <1>5 DEF RemoveWrite, AtRest, Marked, IncomingNew, StartingNew, ConnectedIsServed
<1>6. CASE CountDownRead(t)
  BY <1>6 DEF CountDownRead, AtRest, Marked, IncomingNew, StartingNew, ConnectedIsServed
<1>7. CASE CountDown(t)
  <2>. USE <1>7 DEF CountDown
  <2>0. /\ at' = [at EXCEPT ![t] = IF t = Main THEN "sweep" ELSE "idle"]
        /\ cur' = [cur EXCEPT ![t] = NoSession]
    BY DEF CloseReturns
  <2>. USE <2>0
  <2>1. AtRest'
    BY DEF AtRest
  <2>2. Marked'
    BY DEF Marked
  <2>3. IncomingNew'
    BY DEF IncomingNew
  <2>4. StartingNew'
    BY DEF StartingNew
  <2>5. ConnectedIsServed'
    <3>. SUFFICES ASSUME NEW r \in Session, connected'[r], readOp'[r] = "none"
                  PROVE  \E t1 \in Thread : cur'[t1] = r
      BY DEF ConnectedIsServed
    <3>1. PICK t1 \in Thread : cur[t1] = r
      BY DEF ConnectedIsServed
    <3>2. t1 # t
      BY <3>1 DEF Marked
    <3>. QED
      BY <3>1, <3>2
  <2>. QED
    BY <2>1, <2>2, <2>3, <2>4, <2>5
<1>. QED
  BY <1>1, <1>2, <1>3, <1>4, <1>5, <1>6, <1>7 DEF Close

\* The rest of stop().
LEMMA ServedMain ==
  ASSUME Typing, ServedInv, Signal \/ Quit \/ MainStep
  PROVE  ServedInv'
<1>. USE SocketAssumption
     DEF Typing, TypeOK, LabelsOK, LocalsOK, IncomingOK, LocksOK,
         Thread, Slot, SessionLabel, AcceptLabel, StrandLabel, CloseLabel, MainLabel,
         acceptVars, tableVars, sessionVars, countVars, threadVars,
         Goto, Finish, Send, ArmRead, Aborted, Unlocked, Ready,
         ServedInv, New
<1>1. CASE Signal
  BY <1>1 DEF Signal, AtRest, Marked, IncomingNew, StartingNew, ConnectedIsServed
<1>2. CASE Quit
  BY <1>2 DEF Quit, AtRest, Marked, IncomingNew, StartingNew, ConnectedIsServed
<1>3. CASE StopAccepting
  BY <1>3 DEF StopAccepting, AtRest, Marked, IncomingNew, StartingNew, ConnectedIsServed
<1>4. CASE StopLock
  BY <1>4 DEF StopLock, AtRest, Marked, IncomingNew, StartingNew, ConnectedIsServed
<1>5. CASE SweepEmpty
  BY <1>5 DEF SweepEmpty, AtRest, Marked, IncomingNew, StartingNew, ConnectedIsServed
<1>6. CASE SweepSession
  <2>. USE <1>6 DEF SweepSession
  <2>1. AtRest'
    BY DEF AtRest
  <2>2. Marked'
    BY DEF Marked
  <2>3. IncomingNew'
    BY DEF IncomingNew
  <2>4. StartingNew'
    BY DEF StartingNew
  <2>5. ConnectedIsServed'
    <3>. SUFFICES ASSUME NEW r \in Session, connected'[r], readOp'[r] = "none"
                  PROVE  \E t1 \in Thread : cur'[t1] = r
      BY DEF ConnectedIsServed
    <3>1. PICK t1 \in Thread : cur[t1] = r
      BY DEF ConnectedIsServed
    <3>2. t1 # Main
      BY <3>1 DEF AtRest
    <3>. QED
      BY <3>1, <3>2
  <2>. QED
    BY <2>1, <2>2, <2>3, <2>4, <2>5
<1>7. CASE SweepDone
  BY <1>7 DEF SweepDone, AtRest, Marked, IncomingNew, StartingNew, ConnectedIsServed
<1>8. CASE Join
  BY <1>8 DEF Join, AtRest, Marked, IncomingNew, StartingNew, ConnectedIsServed
<1>. QED
  BY <1>1, <1>2, <1>3, <1>4, <1>5, <1>6, <1>7, <1>8 DEF MainStep

\* Every step keeps the invariant.
LEMMA ServedNext == Typing /\ ServedInv /\ [Next]_vars => ServedInv'
<1>. SUFFICES ASSUME Typing, ServedInv, [Next]_vars PROVE ServedInv'
  OBVIOUS
<1>1. CASE UNCHANGED vars
  BY <1>1 DEF ServedInv, AtRest, Marked, New, IncomingNew, StartingNew, ConnectedIsServed,
              vars, acceptVars, tableVars, sessionVars, threadVars
<1>2. CASE Finished
  BY <1>1, <1>2 DEF Finished
<1>3. CASE Next /\ ~Finished
  BY <1>3, ServedEnvironment, ServedAccept, ServedStrand, ServedClose, ServedMain DEF Next
<1>. QED
  BY <1>1, <1>2, <1>3

\* A connected session always has a read outstanding or a thread at work on it:
\* none keeps its slot and its address count without anybody to close it
\* (start_read, handle_read, close).
THEOREM SessionsAreServed == Spec => []ConnectedIsServed
<1>1. ServedInv => ConnectedIsServed
  BY DEF ServedInv
<1>. QED
  BY TypingInit, TypingNext, ServedInit, ServedNext, <1>1, PTL DEF Spec

=============================================================================
