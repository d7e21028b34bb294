-------------------------- MODULE ServerProcessProofs --------------------------
(***************************************************************************)
(* Theorems about ServerProcess, for every number of workers, timers and    *)
(* signals and every configuration file: a stopped loop calls back once     *)
(* more at most, signals that reach main between its calls never make the   *)
(* process terminate, main works with the settings that the file gives,     *)
(* and every variable keeps its type.                                       *)
(*                                                                         *)
(* The settings need an induction over the lines of the file, and facts     *)
(* about what ConfigManager makes of the text of each kind of line.         *)
(***************************************************************************)
EXTENDS ServerProcess, PrefixInduction, SequenceTheorems, TLAPS

----------------------------------------------------------------------------
(* The loops.                                                              *)

\* What the argument needs of the types.
Typing ==
  /\ at \in [Thread -> MainLabel \cup WorkerLabel \cup InputLabel]
  /\ op \in [Loop -> {"none", "pending", "ok", "error"}]
  /\ cur \in [Worker -> Loop \cup {NoLoop}]
  /\ late \in [Loop -> 0 .. 2]

\* A worker has a loop while it runs its handler, and is then the only one that
\* does: the loop has no other operation.
OneChain ==
  \A w \in Worker :
    /\ cur[w] # NoLoop <=> at[w] \in {"callback", "check", "arm"}
    /\ cur[w] # NoLoop =>
         op[cur[w]] = "none" /\ \A v \in Worker : cur[v] = cur[w] => v = w

\* Before main starts the workers nobody runs a handler.
NotYet ==
  at[Main] \in {"load", "start", "startTimers", "startWorkers"} =>
    /\ \A w \in Worker : at[w] = "none"
    /\ \A l \in Loop : late[l] = 0

\* A loop that has called back after its stop has nothing that could call back
\* again: it is stopped for good, no operation is left, and its handler has not
\* got past the look at running_.
Spent ==
  \A l \in Loop :
    late[l] # 0 =>
      /\ late[l] = 1 /\ ~LoopRunning(l) /\ op[l] = "none"
      /\ \A w \in Worker : cur[w] = l => at[w] \in {"callback", "check"}

LoopInv == Typing /\ OneChain /\ NotYet /\ Spent

\* At first there is no loop, and nobody runs.
LEMMA LoopInit == Init => LoopInv
  BY ProcessAssumption
  DEF Init, LoopInv, Typing, OneChain, NotYet, Spent, Thread, Loop,
      MainLabel, StartLabel, WorkerLabel

\* What every step outside the workers' handlers does to the loops: it completes or
\* cancels what is pending, and stops loops.
QuietStep ==
  /\ cur' = cur /\ late' = late
  /\ op' \in [Loop -> {"none", "pending", "ok", "error"}]
  /\ \A l \in Loop : (op[l] = "none" <=> op'[l] = "none") /\ (LoopRunning(l)' => LoopRunning(l))
  /\ at' \in [Thread -> MainLabel \cup WorkerLabel \cup InputLabel]
  /\ \A w \in Worker : at'[w] = at[w]
  /\ at'[Main] \in {"load", "start", "startTimers", "startWorkers"} =>
       at[Main] \in {"load", "start", "startTimers", "startWorkers"}

\* A quiet step keeps the invariant.
LEMMA QuietPreserves == ASSUME LoopInv, QuietStep PROVE LoopInv'
<1>. USE ProcessAssumption DEF LoopInv, QuietStep, Typing
<1>1. Typing'
  OBVIOUS
<1>2. OneChain'
  BY DEF OneChain
<1>3. NotYet'
  BY DEF NotYet
<1>4. Spent'
  BY DEF Spent
<1>. QED
  BY <1>1, <1>2, <1>3, <1>4

\* The start of the loops and of the workers.
LEMMA LoopsStart ==
  ASSUME LoopInv, StartServers \/ StartTimers \/ StartWorkers PROVE LoopInv'
<1>. USE ProcessAssumption
     DEF LoopInv, Typing, Thread, Loop, MainLabel, StartLabel, WorkerLabel, InputLabel,
         MainGoes, Runs, Goes, LoopRunning, loopVars
<1>1. CASE StartServers
  <2>. USE <1>1 DEF StartServers
  <2>1. Typing'
    OBVIOUS
  <2>2. OneChain'
    BY DEF OneChain, NotYet
  <2>3. NotYet'
    BY DEF NotYet
  <2>4. Spent'
    BY DEF Spent, NotYet
  <2>. QED
    BY <2>1, <2>2, <2>3, <2>4
<1>2. CASE StartTimers
  <2>. USE <1>2 DEF StartTimers
  <2>1. Typing'
    OBVIOUS
  <2>2. OneChain'
    BY DEF OneChain, NotYet
  <2>3. NotYet'
    BY DEF NotYet
  <2>4. Spent'
    BY DEF Spent, NotYet
  <2>. QED
    BY <2>1, <2>2, <2>3, <2>4
<1>3. CASE StartWorkers
  <2>. USE <1>3 DEF StartWorkers
  <2>1. Typing'
    OBVIOUS
  <2>2. OneChain'
    BY DEF OneChain, NotYet
  <2>3. NotYet'
    BY DEF NotYet
  <2>4. Spent'
    BY DEF Spent, NotYet
  <2>. QED
    BY <2>1, <2>2, <2>3, <2>4
<1>. QED
  BY <1>1, <1>2, <1>3

\* A worker's handler takes the operation, calls back, looks at running_ and arms.
LEMMA LoopWorker == ASSUME LoopInv, NEW w \in Worker, WorkerStep(w) PROVE LoopInv'
<1>. USE ProcessAssumption
     DEF LoopInv, Typing, Thread, Loop, WorkerLabel, Runs, Goes, loopVars
<1>1. CASE TakeLock(w)
  BY <1>1 DEF TakeLock, OneChain, NotYet, Spent, LoopRunning
<1>2. ASSUME NEW l \in Loop, Dequeue(w, l) PROVE LoopInv'
  <2>. USE <1>2 DEF Dequeue, Ready
  <2>1. Typing'
    OBVIOUS
  <2>2. OneChain'
    BY DEF OneChain
  <2>3. NotYet'
    BY DEF NotYet
  <2>4. Spent'
    BY DEF Spent, LoopRunning, OneChain
  <2>. QED
    BY <2>1, <2>2, <2>3, <2>4
<1>3. CASE LeaveRun(w)
  BY <1>3 DEF LeaveRun, OneChain, NotYet, Spent, LoopRunning
<1>4. CASE Callback(w)
  BY <1>4 DEF Callback, OneChain, NotYet, Spent, LoopRunning
<1>5. CASE CheckRunning(w)
  <2>. USE <1>5 DEF CheckRunning
  <2>1. Typing'
    OBVIOUS
  <2>2. OneChain'
    BY DEF OneChain
  <2>3. NotYet'
    BY DEF NotYet
  <2>4. Spent'
    BY DEF Spent, OneChain, LoopRunning
  <2>. QED
    BY <2>1, <2>2, <2>3, <2>4
<1>6. CASE Arm(w)
  <2>. USE <1>6 DEF Arm
  <2>1. Typing'
    OBVIOUS
  <2>2. OneChain'
    BY DEF OneChain
  <2>3. NotYet'
    BY DEF NotYet
  <2>4. Spent'
    BY DEF Spent, OneChain, LoopRunning
  <2>. QED
    BY <2>1, <2>2, <2>3, <2>4
<1>. QED
  BY <1>1, <1>2, <1>3, <1>4, <1>5, <1>6 DEF WorkerStep

\* The rest of main, the console, the signals and the operations themselves.
LEMMA LoopQuiet ==
  ASSUME LoopInv,
         \/ LoadSettings
         \/ MainStep /\ ~StartServers /\ ~StartTimers /\ ~StartWorkers
         \/ InputStep \/ ReadLine
         \/ \E t \in Thread : Signal(t) \/ HandlerStep(t)
         \/ \E l \in Loop : Completes(l)
         \/ UNCHANGED vars
  PROVE  QuietStep
<1>. USE ProcessAssumption
     DEF LoopInv, Typing, QuietStep, Thread, Loop, LoopRunning, MainLabel, StartLabel, StopLabel,
         ConsoleLabel, WorkerLabel, InputLabel, MainGoes, Runs, Goes, loopVars
<1>1. CASE LoadSettings
  BY <1>1 DEF LoadSettings
<1>2. CASE StartFails \/ StartInputLoop \/ Wake
  BY <1>2 DEF StartFails, StartInputLoop, Wake
<1>3. CASE StopTimers \/ CancelTimers \/ StopTcp \/ StopUdp \/ CloseUdp
  BY <1>3 DEF StopTimers, CancelTimers, StopTcp, StopUdp, CloseUdp
<1>4. CASE LockIo \/ StopIo \/ Join
  BY <1>4 DEF LockIo, StopIo, Join
<1>5. CASE StopConsole
  <2>1. PICK place \in {"cancelInput", "unwind"} : MainGoes("stopConsole", place)
    BY <1>5 DEF StopConsole
  <2>. QED
    BY <1>5, <2>1 DEF StopConsole
<1>6. CASE CancelInput
  BY <1>6 DEF CancelInput
<1>7. CASE DetachInput
  BY <1>7 DEF DetachInput
<1>8. CASE Unwind
  BY <1>8 DEF Unwind
<1>9. CASE InputStep \/ ReadLine
  BY <1>9 DEF InputStep, ReadLine, InputBegins, Prompt, OtherCommand, QuitCommand,
              InputCancelled, InputGoes
<1>10. ASSUME NEW t \in Thread, Signal(t) \/ HandlerStep(t) PROVE QuietStep
  BY <1>10 DEF Signal, HandlerStep, HandlerGoes, SignalStopIo, SignalStopConsole,
              SignalCancelInput, SignalDetachInput
<1>11. ASSUME NEW l \in Loop, Completes(l) PROVE QuietStep
  BY <1>11 DEF Completes
<1>12. CASE UNCHANGED vars
  BY <1>12 DEF vars
<1>. QED
  BY <1>1, <1>2, <1>3, <1>4, <1>5, <1>6, <1>7, <1>8, <1>9, <1>10, <1>11, <1>12 DEF MainStep

\* Every step keeps the invariant.
LEMMA LoopNext == LoopInv /\ [Next]_vars => LoopInv'
<1>. SUFFICES ASSUME LoopInv, [Next]_vars PROVE LoopInv'
  OBVIOUS
<1>1. CASE StartServers \/ StartTimers \/ StartWorkers
  BY <1>1, LoopsStart
<1>2. CASE \E w \in Worker : WorkerStep(w)
  BY <1>2, LoopWorker
<1>. QED
  BY <1>1, <1>2, LoopQuiet, QuietPreserves DEF Next, Finished

\* After TimerManager::stop or SocketManagerUdp::stop the callback of a loop
\* begins at most once more, with any number of workers and timers, and however
\* the cancel races with a handler on its way to arm the loop again.
THEOREM LoopsStop == Spec => []OneCallbackAfterStop
<1>1. LoopInv => OneCallbackAfterStop
  BY DEF LoopInv, Typing, Spent, OneCallbackAfterStop
<1>. QED
  BY LoopInit, LoopNext, <1>1, PTL DEF Spec

----------------------------------------------------------------------------
(* Signals.                                                                *)

\* Where main is between two calls.
BetweenCalls == {"wait", "stopConsole"} \cup (StopLabel \ {"stoppingIo"})

\* Workers, main and the input thread have labels of their own.
LabelsOK ==
  /\ at \in [Thread -> MainLabel \cup WorkerLabel \cup InputLabel]
  /\ sig \in [Thread -> SignalLabel]
  /\ at[Main] \in MainLabel /\ at[Input] \in InputLabel
  /\ \A w \in Worker : at[w] \in WorkerLabel

\* Only main is interrupted, and it is between two calls then.
SignalsOK == \A t \in Thread : sig[t] # "none" => t = Main /\ at[Main] \in BetweenCalls

\* The input thread is there once main waits, and has stored its id before
\* anything can make the server stop.
InputOK ==
  /\ inputKnown <=> at[Input] \notin {"none", "begin"}
  /\ at[Main] \in StartLabel \ {"wait"} => at[Input] = "none" /\ ~joinable
  /\ at[Main] \in BetweenCalls => at[Input] # "none"
  /\ ~running => inputKnown
  /\ at[Main] \in StopLabel \cup {"stopConsole", "cancelInput", "detachInput"} => ~running

\* Who is about to cancel or detach the input thread finds it joinable: the two
\* calls of stop() exclude each other, for main does not run during its handler.
DetachOK ==
  /\ at[Main] \in {"cancelInput", "detachInput"} => joinable
  /\ sig[Main] # "none" => ~running
  /\ sig[Main] \in {"cancelInput", "detachInput"} => joinable
  /\ at[Main] = "unwind" => ~joinable

\* The workers are gone when main stops the console, or were never started.
WorkersOK ==
  /\ at[Main] \in {"load", "start", "startTimers", "startWorkers"} =>
       \A w \in Worker : at[w] = "none"
  /\ at[Main] \in ConsoleLabel => \A w \in Worker : at[w] \in {"none", "exited"}

SafeInv == LabelsOK /\ SignalsOK /\ InputOK /\ DetachOK /\ WorkersOK /\ ~crashed

\* At first nothing runs but main.
LEMMA SafeInit == Init => SafeInv
  BY ProcessAssumption
  DEF Init, SafeInv, LabelsOK, SignalsOK, InputOK, DetachOK, WorkersOK, BetweenCalls, Thread,
      MainLabel, StartLabel, StopLabel, ConsoleLabel, WorkerLabel, InputLabel, SignalLabel

\* Workers and operations.
LEMMA SafeWorker ==
  ASSUME SafeInv, \/ \E w \in Worker : WorkerStep(w)
                  \/ \E l \in Loop : Completes(l)
  PROVE  SafeInv'
<1>. USE ProcessAssumption
     DEF SafeInv, LabelsOK, SignalsOK, InputOK, DetachOK, WorkersOK, BetweenCalls, Thread,
         MainLabel, StartLabel, StopLabel, ConsoleLabel, WorkerLabel, InputLabel,
         Runs, Goes, signalVars, loopVars, consoleVars
<1>1. ASSUME NEW w \in Worker, TakeLock(w) \/ LeaveRun(w) \/ Callback(w) \/ Arm(w)
      PROVE  SafeInv'
  BY <1>1 DEF TakeLock, LeaveRun, Callback, Arm
<1>2. ASSUME NEW w \in Worker, NEW l \in Loop, Dequeue(w, l) PROVE SafeInv'
  <2>1. PICK place \in {"callback", "check", "run"} : Goes(w, place)
    BY <1>2 DEF Dequeue
  <2>. QED
    BY <1>2, <2>1 DEF Dequeue
<1>3. ASSUME NEW w \in Worker, CheckRunning(w) PROVE SafeInv'
  BY <1>3 DEF CheckRunning
<1>4. ASSUME NEW l \in Loop, Completes(l) PROVE SafeInv'
  BY <1>4 DEF Completes
<1>. QED
  BY <1>1, <1>2, <1>3, <1>4 DEF WorkerStep

\* main's own steps.
LEMMA SafeMain == ASSUME SafeInv, LoadSettings \/ MainStep PROVE SafeInv'
<1>. USE ProcessAssumption
     DEF SafeInv, LabelsOK, SignalsOK, InputOK, DetachOK, WorkersOK, BetweenCalls, Thread,
         MainLabel, StartLabel, StopLabel, ConsoleLabel, WorkerLabel, InputLabel,
         MainGoes, Runs, Goes, signalVars, loopVars, consoleVars
<1>1. CASE LoadSettings \/ StartServers \/ StartFails \/ StartTimers
  BY <1>1 DEF LoadSettings, StartServers, StartFails, StartTimers
<1>2. CASE StartWorkers
  BY <1>2 DEF StartWorkers
<1>3. CASE StartInputLoop
  BY <1>3 DEF StartInputLoop
<1>4. CASE Wake \/ StopTimers \/ CancelTimers \/ StopTcp
  BY <1>4 DEF Wake, StopTimers, CancelTimers, StopTcp
<1>5. CASE StopUdp \/ CloseUdp \/ LockIo \/ StopIo
  BY <1>5 DEF StopUdp, CloseUdp, LockIo, StopIo
<1>6. CASE Join
  BY <1>6 DEF Join
<1>7. CASE StopConsole
  <2>1. CASE joinable
    BY <1>7, <2>1 DEF StopConsole
  <2>2. CASE ~joinable
    BY <1>7, <2>2 DEF StopConsole
  <2>. QED
    BY <2>1, <2>2
<1>8. CASE CancelInput
  BY <1>8 DEF CancelInput, Cancel
<1>9. CASE DetachInput
  BY <1>9 DEF DetachInput, Detach
<1>10. CASE Unwind
  BY <1>10 DEF Unwind
<1>. QED
  BY <1>1, <1>2, <1>3, <1>4, <1>5, <1>6, <1>7, <1>8, <1>9, <1>10 DEF MainStep

\* The input thread.
LEMMA SafeInput == ASSUME SafeInv, InputStep \/ ReadLine PROVE SafeInv'
<1>. USE ProcessAssumption
     DEF SafeInv, LabelsOK, SignalsOK, InputOK, DetachOK, WorkersOK, BetweenCalls, Thread,
         MainLabel, StartLabel, StopLabel, ConsoleLabel, WorkerLabel, InputLabel,
         InputGoes, Runs, Goes, signalVars
<1>1. CASE InputBegins
  BY <1>1 DEF InputBegins
<1>2. CASE Prompt
  <2>1. PICK place \in {"read", "exited"} : InputGoes("prompt", place)
    BY <1>2 DEF Prompt
  <2>. QED
    BY <1>2, <2>1 DEF Prompt
<1>3. CASE ReadLine
  BY <1>3 DEF ReadLine
<1>4. CASE OtherCommand \/ QuitCommand
  BY <1>4 DEF OtherCommand, QuitCommand
<1>5. CASE InputCancelled
  BY <1>5 DEF InputCancelled
<1>. QED
  BY <1>1, <1>2, <1>3, <1>4, <1>5 DEF InputStep

\* A signal and its handler.
LEMMA SafeSignal ==
  ASSUME SafeInv, SignalPlace \subseteq BetweenCalls,
         NEW t \in Thread, Signal(t) \/ HandlerStep(t)
  PROVE  SafeInv'
<1>. USE ProcessAssumption
     DEF SafeInv, LabelsOK, SignalsOK, InputOK, DetachOK, WorkersOK, BetweenCalls, Thread,
         MainLabel, StartLabel, StopLabel, ConsoleLabel, WorkerLabel, InputLabel, SignalLabel,
         HandlerGoes, ioVars, loopVars, consoleVars
<1>1. CASE Signal(t)
  BY <1>1 DEF Signal, MayInterrupt
<1>2. CASE SignalStopIo(t)
  BY <1>2 DEF SignalStopIo
<1>3. CASE SignalStopConsole(t)
  <2>1. CASE joinable
    BY <1>3, <2>1 DEF SignalStopConsole
  <2>2. CASE ~joinable
    BY <1>3, <2>2 DEF SignalStopConsole
  <2>. QED
    BY <2>1, <2>2
<1>4. CASE SignalCancelInput(t)
  BY <1>4 DEF SignalCancelInput, Cancel
<1>5. CASE SignalDetachInput(t)
  BY <1>5 DEF SignalDetachInput, Detach
<1>. QED
  BY <1>1, <1>2, <1>3, <1>4, <1>5 DEF HandlerStep

\* Every step keeps the invariant.
LEMMA SafeNext ==
  ASSUME SignalPlace \subseteq BetweenCalls
  PROVE  SafeInv /\ [Next]_vars => SafeInv'
<1>. SUFFICES ASSUME SafeInv, [Next]_vars PROVE SafeInv'
  OBVIOUS
<1>1. CASE UNCHANGED vars
  BY <1>1 DEF SafeInv, LabelsOK, SignalsOK, InputOK, DetachOK, WorkersOK,
              vars, signalVars, consoleVars
<1>. QED
  BY <1>1, SafeWorker, SafeMain, SafeInput, SafeSignal DEF Next, Finished

\* Signals that reach main in its wait or before, between and after its calls of the
\* stops, however many, and a quit at any time, do not terminate the process, with any
\* number of workers.  BetweenCalls leaves out what the code is not ready for: signals
\* inside io_context's mutex and inside the console's stop, during the start-up and
\* during the destructors (ConsoleInterface::stop, signal_handler, main).
THEOREM SignalsAreSafe ==
  ASSUME SignalPlace \subseteq BetweenCalls
  PROVE  Spec => []NeverTerminates
<1>1. SafeInv => NeverTerminates
  BY DEF SafeInv, NeverTerminates
<1>2. SafeInv /\ [Next]_vars => SafeInv'
  BY SafeNext
<1>. QED
  BY SafeInit, <1>2, <1>1, PTL DEF Spec

----------------------------------------------------------------------------
(* The text of a line.                                                     *)

\* Trim finds the text between the first and the last character that is no blank.
LEMMA TrimIs ==
  ASSUME NEW T, NEW s \in Seq(T), NEW a \in 1 .. Len(s), NEW b \in 1 .. Len(s), a <= b,
         s[a] # Blank, s[b] # Blank,
         \A i \in 1 .. Len(s) : i < a \/ b < i => s[i] = Blank
  PROVE  Trim(s) = SubSeq(s, a, b)
<1>. DEFINE visible == {i \in DOMAIN s : s[i] # Blank}
<1>1. /\ visible \subseteq Nat /\ visible \in SUBSET (1 .. Len(s)) /\ Len(s) \in Nat
      /\ a \in visible /\ b \in visible
      /\ \A i \in visible : a <= i /\ i <= b
  OBVIOUS
<1>2. Trim(s) = IF visible = {} THEN <<>> ELSE SubSeq(s, Min(visible), Max(visible))
  BY DEF Trim
<1>. HIDE DEF visible
<1>3. PICK m, n : m = Min(visible) /\ n = Max(visible)
  OBVIOUS
<1>4. m \in visible /\ \A y \in visible : m <= y
  BY <1>1, <1>3, LeastElement
<1>5. n \in visible /\ \A y \in visible : n >= y
  BY <1>1, <1>3, GreatestElement
<1>6. m = a /\ n = b
  BY <1>1, <1>4, <1>5
<1>. QED
  BY <1>1, <1>2, <1>3, <1>6

\* A text of blanks is trimmed away,
LEMMA TrimBlank == ASSUME NEW p \in Seq({Blank}) PROVE Trim(p) = <<>>
<1>1. {i \in DOMAIN p : p[i] # Blank} = {}
  OBVIOUS
<1>. QED
  BY <1>1 DEF Trim

\* and so are the blanks around one.
LEMMA TrimPadded ==
  ASSUME NEW T, Blank \in T, NEW p \in Seq({Blank}), NEW q \in Seq({Blank}), NEW s \in Seq(T),
         s # <<>> => s[1] # Blank /\ s[Len(s)] # Blank
  PROVE  Trim(p \o s \o q) = s
<1>. DEFINE r == p \o s \o q
<1>0. p \in Seq(T) /\ q \in Seq(T)
  OBVIOUS
<1>1. /\ r \in Seq(T)
      /\ Len(r) = Len(p) + Len(s) + Len(q)
      /\ \A i \in 1 .. Len(r) :
           r[i] = IF i <= Len(p) THEN p[i]
                  ELSE IF i <= Len(p) + Len(s) THEN s[i - Len(p)]
                  ELSE q[i - Len(p) - Len(s)]
  <2>1. /\ p \o s \in Seq(T) /\ Len(p \o s) = Len(p) + Len(s)
        /\ \A i \in 1 .. Len(p) + Len(s) :
             (p \o s)[i] = IF i <= Len(p) THEN p[i] ELSE s[i - Len(p)]
    BY <1>0, ConcatProperties
  <2>2. /\ r \in Seq(T) /\ Len(r) = Len(p \o s) + Len(q)
        /\ \A i \in 1 .. Len(p \o s) + Len(q) :
             r[i] = IF i <= Len(p \o s) THEN (p \o s)[i] ELSE q[i - Len(p \o s)]
    BY <1>0, <2>1, ConcatProperties
  <2>. QED
    BY <2>1, <2>2
<1>2. Len(p) \in Nat /\ Len(q) \in Nat /\ Len(s) \in Nat
  OBVIOUS
<1>3. CASE s = <<>>
  <2>1. p \o s \o q \in Seq({Blank})
    BY <1>3
  <2>. QED
    BY <1>3, <2>1, TrimBlank
<1>4. CASE s # <<>>
  <2>. DEFINE a == Len(p) + 1
              b == Len(p) + Len(s)
  <2>0. Len(s) >= 1
    BY <1>2, <1>4
  <2>1. /\ a \in 1 .. Len(r) /\ b \in 1 .. Len(r) /\ a <= b
        /\ r[a] = s[1] /\ r[b] = s[Len(s)]
    BY <1>1, <1>2, <2>0
  <2>2. \A i \in 1 .. Len(r) : i < a \/ b < i => r[i] = Blank
    BY <1>1, <1>2
  <2>3. Trim(r) = SubSeq(r, a, b)
    BY <1>1, <1>4, <2>1, <2>2, TrimIs
  <2>4. SubSeq(r, a, b) = s
    <3>1. /\ SubSeq(r, a, b) \in Seq(T)
          /\ Len(SubSeq(r, a, b)) = Len(s)
          /\ \A i \in 1 .. Len(s) : SubSeq(r, a, b)[i] = s[i]
      BY <1>1, <1>2, <2>0, SubSeqProperties
    <3>. QED
      BY <3>1, SeqEqual
  <2>. QED
    BY <2>3, <2>4
<1>. QED
  BY <1>3, <1>4

\* A text with a character in it.
LEMMA TextWith ==
  ASSUME NEW T, NEW c \in T, NEW s \in Seq(T), NEW t \in Seq(T), NEW r, r = s \o <<c>> \o t
  PROVE  /\ r \in Seq(T)
         /\ Len(s) \in Nat /\ Len(t) \in Nat /\ Len(r) = Len(s) + 1 + Len(t)
         /\ \A i \in 1 .. Len(r) :
              r[i] = IF i <= Len(s) THEN s[i]
                     ELSE IF i = Len(s) + 1 THEN c
                     ELSE t[i - Len(s) - 1]
<1>0. /\ s \in Seq(T) /\ <<c>> \in Seq(T) /\ Len(<<c>>) = 1
      /\ Len(s) \in Nat /\ Len(t) \in Nat
  OBVIOUS
<1>1. /\ r \in Seq(T)
      /\ Len(r) = Len(s) + 1 + Len(t)
      /\ \A i \in 1 .. Len(r) :
           r[i] = IF i <= Len(s) THEN s[i]
                  ELSE IF i = Len(s) + 1 THEN c
                  ELSE t[i - Len(s) - 1]
  <2>1. /\ s \o <<c>> \in Seq(T) /\ Len(s \o <<c>>) = Len(s) + 1
        /\ \A i \in 1 .. Len(s) + 1 :
             (s \o <<c>>)[i] = IF i <= Len(s) THEN s[i] ELSE <<c>>[i - Len(s)]
    BY <1>0, ConcatProperties
  <2>2. /\ r \in Seq(T) /\ Len(r) = Len(s \o <<c>>) + Len(t)
        /\ \A i \in 1 .. Len(s \o <<c>>) + Len(t) :
             r[i] = IF i <= Len(s \o <<c>>) THEN (s \o <<c>>)[i] ELSE t[i - Len(s \o <<c>>)]
    BY <1>0, <2>1, ConcatProperties
  <2>. QED
    BY <1>0, <2>1, <2>2
<1>. QED
  BY <1>0, <1>1

\* The first one of its kind, if there is none before it.
LEMMA AtFirst ==
  ASSUME NEW T, NEW c \in T, NEW s \in Seq(T \ {c}), NEW t \in Seq(T), NEW r, r = s \o <<c>> \o t
  PROVE  FirstOf(r, c) = Len(s) + 1
<1>. DEFINE places == {i \in DOMAIN r : r[i] = c}
<1>0. s \in Seq(T)
  OBVIOUS
<1>1. /\ r \in Seq(T)
      /\ Len(s) \in Nat /\ Len(t) \in Nat /\ Len(r) = Len(s) + 1 + Len(t)
      /\ \A i \in 1 .. Len(r) :
           r[i] = IF i <= Len(s) THEN s[i]
                  ELSE IF i = Len(s) + 1 THEN c
                  ELSE t[i - Len(s) - 1]
  BY <1>0, TextWith
<1>2. /\ places \subseteq Nat /\ Len(s) + 1 \in places
      /\ \A i \in places : Len(s) + 1 <= i
  <2>1. \A i \in 1 .. Len(s) : s[i] # c
    OBVIOUS
  <2>2. DOMAIN r = 1 .. Len(r)
    BY <1>1
  <2>. QED
    BY <1>1, <2>1, <2>2
<1>3. FirstOf(r, c) = Min(places)
  BY DEF FirstOf
<1>. HIDE DEF places
<1>5. FirstOf(r, c) = Len(s) + 1
  <2>1. PICK m : m = Min(places)
    OBVIOUS
  <2>2. m \in places /\ \A y \in places : m <= y
    BY <1>2, <2>1, LeastElement
  <2>3. m = Len(s) + 1
    BY <1>1, <1>2, <2>2
  <2>. QED
    BY <1>3, <2>1, <2>3
<1>. QED
  BY <1>5

\* What is before and after it.
LEMMA AroundIt ==
  ASSUME NEW T, NEW c \in T, NEW s \in Seq(T), NEW t \in Seq(T), NEW r, r = s \o <<c>> \o t
  PROVE  SubSeq(r, 1, Len(s)) = s /\ SubSeq(r, Len(s) + 2, Len(r)) = t
<1>0. Len(s) \in Nat /\ Len(t) \in Nat
  OBVIOUS
<1>1. /\ r \in Seq(T)
      /\ Len(r) = Len(s) + 1 + Len(t)
      /\ \A i \in 1 .. Len(r) :
           r[i] = IF i <= Len(s) THEN s[i]
                  ELSE IF i = Len(s) + 1 THEN c
                  ELSE t[i - Len(s) - 1]
  BY TextWith
<1>6. SubSeq(r, 1, Len(s)) = s
  <2>1. \A i \in 1 .. Len(s) : r[i] \in T
    BY <1>0, <1>1
  <2>2. /\ SubSeq(r, 1, Len(s)) \in Seq(T)
        /\ Len(SubSeq(r, 1, Len(s))) = Len(s)
        /\ \A i \in 1 .. Len(s) : SubSeq(r, 1, Len(s))[i] = s[i]
    BY <1>0, <1>1, <2>1, SubSeqProperties
  <2>. QED
    BY <1>0, <2>2, SeqEqual
<1>7. SubSeq(r, Len(s) + 2, Len(r)) = t
  <2>1. \A i \in Len(s) + 2 .. Len(r) : r[i] \in T
    BY <1>0, <1>1
  <2>. DEFINE u == SubSeq(r, Len(s) + 2, Len(r))
  <2>3. /\ u \in Seq(T)
        /\ Len(u) = IF Len(s) + 2 <= Len(r) THEN Len(r) - (Len(s) + 2) + 1 ELSE 0
        /\ \A i \in 1 .. Len(r) - (Len(s) + 2) + 1 : u[i] = r[Len(s) + 2 + i - 1]
    BY <1>0, <1>1, <2>1, SubSeqProperties
  <2>. HIDE DEF u
  <2>2. u \in Seq(T) /\ Len(u) = Len(t) /\ \A i \in 1 .. Len(t) : u[i] = t[i]
    <3>1. Len(r) - (Len(s) + 2) + 1 = Len(t)
      BY <1>0, <1>1
    <3>2. Len(u) = Len(t)
      BY <1>0, <1>1, <2>3
    <3>3. ASSUME NEW i \in 1 .. Len(t) PROVE u[i] = t[i]
      <4>1. Len(s) + 2 + i - 1 = Len(s) + 1 + i /\ Len(s) + 1 + i \in 1 .. Len(r)
        BY <1>0, <1>1
      <4>2. r[Len(s) + 1 + i] = t[i]
        BY <1>0, <1>1, <4>1
      <4>. QED
        BY <2>3, <3>1, <4>1, <4>2
    <3>. QED
      BY <2>3, <3>2, <3>3
  <2>. QED
    BY <1>0, <2>2, SeqEqual DEF u
<1>. QED
  BY <1>6, <1>7

\* Texts of a few characters.
LEMMA ShortText ==
  ASSUME NEW T, NEW a \in T, NEW b \in T, NEW c \in T, NEW d \in T, NEW e \in T
  PROVE  /\ <<>> \in Seq(T)
         /\ <<a>> \in Seq(T) /\ Len(<<a>>) = 1 /\ <<a>>[1] = a
         /\ <<a, b>> \in Seq(T) /\ Len(<<a, b>>) = 2 /\ <<a, b>>[1] = a /\ <<a, b>>[2] = b
         /\ <<a, b, c>> \in Seq(T) /\ Len(<<a, b, c>>) = 3
         /\ <<a, b, c>>[1] = a /\ <<a, b, c>>[3] = c
         /\ <<a, b, c, d, e>> \in Seq(T) /\ Len(<<a, b, c, d, e>>) = 5
         /\ <<a, b, c, d, e>>[1] = a /\ <<a, b, c, d, e>>[5] = e
OBVIOUS

\* Two texts put together begin with the first and end with the second.
LEMMA Ends ==
  ASSUME NEW T, NEW s \in Seq(T), NEW t \in Seq(T)
  PROVE  /\ s \o t \in Seq(T) /\ Len(s \o t) = Len(s) + Len(t) /\ Len(s) \in Nat /\ Len(t) \in Nat
         /\ s # <<>> => s \o t # <<>> /\ (s \o t)[1] = s[1]
         /\ t # <<>> => s \o t # <<>> /\ (s \o t)[Len(s \o t)] = t[Len(t)]
<1>1. /\ s \o t \in Seq(T) /\ Len(s \o t) = Len(s) + Len(t)
      /\ \A i \in 1 .. Len(s) + Len(t) : (s \o t)[i] = IF i <= Len(s) THEN s[i] ELSE t[i - Len(s)]
  BY ConcatProperties
<1>2. /\ Len(s) \in Nat /\ Len(t) \in Nat
      /\ s # <<>> => Len(s) >= 1
      /\ t # <<>> => Len(t) >= 1
      /\ s \o t = <<>> => Len(s \o t) = 0
  OBVIOUS
<1>3. s # <<>> => 1 \in 1 .. Len(s) + Len(t) /\ 1 <= Len(s)
  BY <1>2
<1>4. t # <<>> => Len(s) + Len(t) \in 1 .. Len(s) + Len(t) /\ ~(Len(s) + Len(t) <= Len(s))
                  /\ Len(s) + Len(t) - Len(s) = Len(t)
  BY <1>2
<1>. QED
  BY <1>1, <1>2, <1>3, <1>4

\* A key, the first = and a value, whatever blanks are around them: the key and the
\* value are found.
LEMMA PairText ==
  ASSUME NEW T, NEW eq \in T, NEW key \in T \ {eq}, Blank \in T, eq # Blank, key # Blank,
         NEW p \in Seq({Blank}), NEW v \in Seq(T),
         v # <<>> => v[1] # Blank /\ v[Len(v)] # Blank,
         NEW s, s = Trim(p \o <<key>> \o p \o <<eq>> \o p \o v \o p)
  PROVE  /\ s # <<>> /\ s[1] = key
         /\ \E i \in DOMAIN s : s[i] = eq
         /\ Before(s, FirstOf(s, eq)) = <<key>>
         /\ After(s, FirstOf(s, eq)) = v
<1>. DEFINE left == <<key>> \o p
            rest == IF v = <<>> THEN <<>> ELSE p \o v
            core == left \o <<eq>> \o rest
            tail == IF v = <<>> THEN p \o p ELSE p
            raw == p \o <<key>> \o p \o <<eq>> \o p \o v \o p
<1>1. /\ p \in Seq(T) /\ p \in Seq(T \ {eq}) /\ <<>> \in Seq({Blank}) /\ <<>> \in Seq(T)
      /\ <<key>> \in Seq(T) /\ <<key>> \in Seq(T \ {eq}) /\ <<eq>> \in Seq(T)
      /\ <<key>> # <<>> /\ <<key>>[1] = key /\ Len(<<key>>) = 1
      /\ <<eq>> # <<>> /\ <<eq>>[1] = eq /\ Len(<<eq>>) = 1
  <2>1. {Blank} \subseteq T /\ {Blank} \subseteq T \ {eq} /\ T \ {eq} \subseteq T
    OBVIOUS
  <2>. QED
    BY <2>1, SeqMonotonic, ShortText
<1>2. left \in Seq(T) /\ left \in Seq(T \ {eq}) /\ left # <<>> /\ left[1] = key
  BY <1>1, Ends
<1>3. rest \in Seq(T) /\ tail \in Seq({Blank}) /\ p \o v \in Seq(T)
  BY <1>1, ConcatProperties
<1>4. left \o <<eq>> \in Seq(T) /\ left \o <<eq>> # <<>> /\ (left \o <<eq>>)[1] = key
      /\ (left \o <<eq>>)[Len(left \o <<eq>>)] = eq
  <2>. HIDE DEF left
  <2>. QED
    BY <1>1, <1>2, Ends
<1>5. core \in Seq(T) /\ core # <<>> /\ core[1] = key /\ core[Len(core)] # Blank
  <2>. DEFINE h == left \o <<eq>>
  <2>1. h \in Seq(T) /\ h # <<>> /\ h[1] = key /\ h[Len(h)] = eq
    BY <1>4
  <2>2. core = h \o rest
    OBVIOUS
  <2>. HIDE DEF h, core
  <2>3. CASE v = <<>>
    <3>1. core = h
      BY <2>1, <2>2, <2>3, ConcatEmptySeq
    <3>. QED
      BY <2>1, <3>1
  <2>4. CASE v # <<>>
    <3>1. rest # <<>> /\ rest[Len(rest)] = v[Len(v)]
      BY <1>1, <2>4, Ends
    <3>. HIDE DEF rest
    <3>. QED
      BY <1>3, <2>1, <2>2, <2>4, <3>1, Ends
  <2>. QED
    BY <2>3, <2>4
<1>6. raw = p \o core \o tail
  <2>. DEFINE h == left \o <<eq>>
  <2>1. p \o <<key>> \o p \o <<eq>> = p \o h
    <3>1. p \o <<key>> \o p = p \o left
      BY <1>1, ConcatAssociative
    <3>2. p \o left \o <<eq>> = p \o (left \o <<eq>>)
      <4>. HIDE DEF left
      <4>. QED
        BY <1>1, <1>2, ConcatAssociative
    <3>. QED
      BY <3>1, <3>2
  <2>2. h \in Seq(T) /\ core = h \o rest /\ raw = p \o h \o p \o v \o p
    BY <1>4, <2>1
  <2>. HIDE DEF h, core, raw
  <2>3. CASE v = <<>>
    <3>1. p \o h \in Seq(T) /\ p \o h \o p \in Seq(T)
      BY <1>1, <2>2, ConcatProperties
    <3>2. raw = p \o h \o p \o p
      BY <2>2, <2>3, <3>1, ConcatEmptySeq
    <3>3. p \o h \o p \o p = p \o h \o (p \o p)
      BY <1>1, <3>1, ConcatAssociative
    <3>4. core = h
      BY <2>2, <2>3, ConcatEmptySeq
    <3>. QED
      BY <2>3, <3>2, <3>3, <3>4
  <2>4. CASE v # <<>>
    <3>1. p \o h \in Seq(T)
      BY <1>1, <2>2, ConcatProperties
    <3>2. p \o h \o p \o v = p \o h \o (p \o v)
      BY <1>1, <3>1, ConcatAssociative
    <3>3. p \o h \o (p \o v) = p \o (h \o (p \o v))
      BY <1>1, <1>3, <2>2, ConcatAssociative
    <3>. QED
      BY <2>2, <2>4, <3>2, <3>3
  <2>. QED
    BY <2>3, <2>4
<1>. HIDE DEF raw, core, tail
<1>7. Trim(raw) = core
  BY <1>2, <1>3, <1>5, <1>6, TrimPadded
<1>8. /\ FirstOf(core, eq) = Len(left) + 1
      /\ Len(left) + 1 \in DOMAIN core /\ core[Len(left) + 1] = eq
      /\ SubSeq(core, 1, Len(left)) = left
      /\ SubSeq(core, Len(left) + 2, Len(core)) = rest
  <2>1. core = left \o <<eq>> \o rest
    BY DEF core
  <2>2. left \in Seq(T \ {eq}) /\ left \in Seq(T) /\ rest \in Seq(T)
    BY <1>2, <1>3
  <2>. HIDE DEF left, rest
  <2>3. FirstOf(core, eq) = Len(left) + 1
    BY <2>1, <2>2, AtFirst
  <2>5. Len(left) + 1 \in DOMAIN core /\ core[Len(left) + 1] = eq
    BY <2>1, <2>2, TextWith
  <2>4. SubSeq(core, 1, Len(left)) = left /\ SubSeq(core, Len(left) + 2, Len(core)) = rest
    BY <2>1, <2>2, AroundIt
  <2>. QED
    BY <2>3, <2>4, <2>5
<1>9. Len(left) \in Nat
  <2>. HIDE DEF left
  <2>. QED
    BY <1>2, LenProperties
<1>10. Before(core, Len(left) + 1) = <<key>>
  <2>1. Trim(<<>> \o <<key>> \o p) = <<key>>
    BY <1>1, TrimPadded
  <2>2. <<>> \o <<key>> = <<key>>
    BY <1>1, ConcatEmptySeq
  <2>3. Len(left) + 1 - 1 = Len(left)
    BY <1>9
  <2>4. Before(core, Len(left) + 1) = Trim(left)
    <3>. HIDE DEF left
    <3>1. Before(core, Len(left) + 1) = Trim(SubSeq(core, 1, Len(left) + 1 - 1))
      BY DEF Before
    <3>. QED
      BY <1>8, <2>3, <3>1
  <2>. QED
    BY <2>1, <2>2, <2>4
<1>11. After(core, Len(left) + 1) = v
  <2>1. After(core, Len(left) + 1) = Trim(rest)
    <3>1. Len(left) + 1 + 1 = Len(left) + 2
      BY <1>9
    <3>. HIDE DEF left, rest
    <3>. QED
      BY <1>8, <3>1 DEF After
  <2>2. CASE v = <<>>
    <3>1. Trim(<<>>) = <<>>
      BY <1>1, TrimBlank
    <3>. QED
      BY <2>1, <2>2, <3>1
  <2>3. CASE v # <<>>
    <3>1. Trim(p \o v \o <<>>) = v
      BY <1>1, TrimPadded
    <3>2. p \o v \o <<>> = p \o v
      BY <1>3, ConcatEmptySeq
    <3>. QED
      BY <2>1, <2>3, <3>1, <3>2
  <2>. QED
    BY <2>2, <2>3
<1>. HIDE DEF left
<1>. QED
  BY <1>5, <1>7, <1>8, <1>10, <1>11 DEF raw

\* A trimmed line with a name in brackets.
Brackets(s, open, close, name) ==
  /\ s # <<>> /\ s[1] = open /\ s[Len(s)] = close
  /\ Before(SubSeq(s, 2, Len(s)), Len(s) - 1) = <<name>>

\* That is what a section's line is, whatever blanks are around and in the brackets.
LEMMA SectionText ==
  ASSUME NEW T, NEW open \in T, NEW close \in T, NEW name \in T, Blank \in T,
         open # Blank, close # Blank, name # Blank, NEW p \in Seq({Blank}),
         NEW s, s = Trim(p \o <<open>> \o p \o <<name>> \o p \o <<close>> \o p)
  PROVE  Brackets(s, open, close, name)
<1>. DEFINE middle == p \o <<name>> \o p
            inner == middle \o <<close>>
            core == <<open>> \o inner
            raw == p \o <<open>> \o p \o <<name>> \o p \o <<close>> \o p
<1>1. /\ p \in Seq(T) /\ <<>> \in Seq(T) /\ Len(<<>>) = 0
      /\ <<open>> \in Seq(T) /\ <<open>> # <<>> /\ <<open>>[1] = open /\ Len(<<open>>) = 1
      /\ <<name>> \in Seq(T) /\ <<name>> # <<>> /\ <<name>>[1] = name /\ Len(<<name>>) = 1
      /\ <<close>> \in Seq(T) /\ <<close>> # <<>> /\ <<close>>[1] = close /\ Len(<<close>>) = 1
  <2>1. {Blank} \subseteq T
    OBVIOUS
  <2>. QED
    BY <2>1, SeqMonotonic, ShortText
<1>2. p \o <<name>> \in Seq(T) /\ middle \in Seq(T) /\ Len(middle) \in Nat
  <2>1. p \o <<name>> \in Seq(T)
    BY <1>1, ConcatProperties
  <2>. QED
    BY <1>1, <2>1, Ends
<1>3. inner \in Seq(T) /\ Len(inner) = Len(middle) + 1 /\ inner[Len(inner)] = close /\ inner # <<>>
  <2>. HIDE DEF middle
  <2>. QED
    BY <1>1, <1>2, Ends
<1>4. /\ core \in Seq(T) /\ core # <<>> /\ Len(core) = Len(middle) + 2
      /\ core[1] = open /\ core[Len(core)] = close
  <2>. HIDE DEF inner
  <2>. DEFINE o == <<open>>
  <2>0. o \in Seq(T) /\ o # <<>> /\ o[1] = open /\ Len(o) = 1 /\ core = o \o inner
    BY <1>1
  <2>. HIDE DEF o, core
  <2>1. /\ core \in Seq(T) /\ core # <<>> /\ Len(core) = 1 + Len(inner)
        /\ core[1] = open /\ core[Len(core)] = inner[Len(inner)]
    BY <1>3, <2>0, Ends
  <2>. QED
    BY <1>1, <1>2, <1>3, <2>1
<1>5. raw = p \o core \o p
  <2>. DEFINE h == p \o <<open>>
              g == p \o <<name>>
  <2>1. h \in Seq(T) /\ h \o p \in Seq(T) /\ h \o g \in Seq(T)
    <3>1. h \in Seq(T)
      BY <1>1, ConcatProperties
    <3>. HIDE DEF h, g
    <3>. QED
      BY <1>1, <1>2, <3>1, ConcatProperties DEF g
  <2>2. h \o p \o <<name>> \o p = h \o middle
    <3>. HIDE DEF h
    <3>1. h \o p \o <<name>> = h \o g
      BY <1>1, <2>1, ConcatAssociative
    <3>2. h \o g \o p = h \o (g \o p)
      <4>. HIDE DEF g
      <4>. QED
        BY <1>1, <1>2, <2>1, ConcatAssociative DEF g
    <3>. QED
      BY <3>1, <3>2
  <2>3. h \o middle \o <<close>> = h \o inner
    <3>. HIDE DEF h, middle
    <3>. QED
      BY <1>1, <1>2, <2>1, ConcatAssociative
  <2>4. h \o inner = p \o core
    <3>. HIDE DEF inner
    <3>. QED
      BY <1>1, <1>3, ConcatAssociative
  <2>. QED
    BY <2>2, <2>3, <2>4
<1>. HIDE DEF raw
<1>6. Trim(raw) = core
  <2>. HIDE DEF core
  <2>. QED
    BY <1>1, <1>4, <1>5, TrimPadded
<1>7. SubSeq(core, 2, Len(core)) = inner
  <2>. HIDE DEF inner
  <2>1. core = <<>> \o <<open>> \o inner
    <3>1. <<>> \o <<open>> = <<open>>
      BY <1>1, ConcatEmptySeq
    <3>. QED
      BY <3>1
  <2>2. Len(<<>>) + 2 = 2
    BY <1>1
  <2>. HIDE DEF core
  <2>3. SubSeq(core, Len(<<>>) + 2, Len(core)) = inner
    BY <1>1, <1>3, <2>1, AroundIt
  <2>. QED
    BY <2>2, <2>3
<1>8. SubSeq(inner, 1, Len(middle)) = middle
  <2>. HIDE DEF middle
  <2>1. inner = middle \o <<close>> \o <<>>
    BY <1>3, ConcatEmptySeq
  <2>. HIDE DEF inner
  <2>. QED
    BY <1>1, <1>2, <2>1, AroundIt
<1>9. Trim(middle) = <<name>>
  BY <1>1, TrimPadded
<1>10. Before(SubSeq(core, 2, Len(core)), Len(core) - 1) = <<name>>
  <2>. HIDE DEF core, inner, middle
  <2>1. Len(core) - 1 - 1 = Len(middle)
    BY <1>2, <1>4
  <2>2. Before(inner, Len(core) - 1) = Trim(SubSeq(inner, 1, Len(core) - 1 - 1))
    BY DEF Before
  <2>. QED
    BY <1>7, <1>8, <1>9, <2>1, <2>2
<1>. HIDE DEF core, inner, middle
<1>. QED
  BY <1>4, <1>6, <1>10 DEF Brackets, raw

----------------------------------------------------------------------------
(* The lines of a file.                                                    *)

\* The characters of a file.
ConfigChar == {Blank, "=", "[", "]", ";", "2", "a", "huge", "Log", Section, PortKey, UdpKey, LimitKey}

LEMMA Characters ==
  /\ "=" \in ConfigChar /\ "[" \in ConfigChar /\ "]" \in ConfigChar /\ ";" \in ConfigChar
  /\ "2" \in ConfigChar /\ "a" \in ConfigChar /\ "huge" \in ConfigChar /\ "Log" \in ConfigChar
  /\ Blank \in ConfigChar /\ Section \in ConfigChar
  /\ PortKey \in ConfigChar \ {"="} /\ UdpKey \in ConfigChar \ {"="}
  /\ LimitKey \in ConfigChar \ {"="}
BY Zenon DEF ConfigChar, PortKey, UdpKey, LimitKey

LEMMA Visible ==
  /\ Blank # "=" /\ Blank # "[" /\ Blank # "]" /\ Blank # ";" /\ Blank # "2" /\ Blank # "a"
  /\ Blank # "huge" /\ Blank # "Log" /\ Blank # Section /\ Blank # PortKey /\ Blank # UdpKey
  /\ Blank # LimitKey
BY Zenon DEF Blank, Section, PortKey, UdpKey, LimitKey

\* Padding is blank.
LEMMA PaddingIsBlank == ASSUME NEW l PROVE Padding(l) \in Seq({Blank})
<1>1. <<Blank>> \in Seq({Blank}) /\ <<>> \in Seq({Blank})
  BY ShortText
<1>. QED
  BY <1>1 DEF Padding

\* The values.
LEMMA ValueCases ==
  ASSUME NEW v \in Value
  PROVE  \/ v.text = <<"2">> /\ v.number = 2
         \/ v.text = <<"2", "2", Blank, ";", "a">> /\ v.number = 22
         \/ v.text = <<"a", "=", "2">> /\ v.number = None
         \/ v.text = <<>> /\ v.number = None
         \/ v.text = <<"huge">> /\ v.number = None
<1>1. \/ v = [text |-> <<"2">>, number |-> 2]
      \/ v = [text |-> <<"2", "2", Blank, ";", "a">>, number |-> 22]
      \/ v = [text |-> <<"a", "=", "2">>, number |-> None]
      \/ v = [text |-> <<>>, number |-> None]
      \/ v = [text |-> <<"huge">>, number |-> None]
  BY Zenon DEF Value
<1>2. \A t, n : v = [text |-> t, number |-> n] => v.text = t /\ v.number = n
  OBVIOUS
<1>. QED
  BY <1>1, <1>2, Zenon

\* The text of a value neither begins nor ends with a blank.
LEMMA ValuesAreTexts ==
  ASSUME NEW v \in Value
  PROVE  /\ v.text \in Seq(ConfigChar)
         /\ v.text # <<>> => v.text[1] # Blank /\ v.text[Len(v.text)] # Blank
<1>. DEFINE OK(t) == /\ t \in Seq(ConfigChar)
                     /\ t # <<>> => t[1] # Blank /\ t[Len(t)] # Blank
<1>0. /\ "2" \in ConfigChar /\ "a" \in ConfigChar /\ "=" \in ConfigChar
      /\ ";" \in ConfigChar /\ "huge" \in ConfigChar /\ Blank \in ConfigChar
      /\ Blank # "2" /\ Blank # "a" /\ Blank # "huge"
  BY Characters, Visible
<1>1. OK(<<"2">>)
  BY <1>0, ShortText
<1>2. OK(<<"2", "2", Blank, ";", "a">>)
  BY <1>0, ShortText
<1>3. OK(<<"a", "=", "2">>)
  BY <1>0, ShortText
<1>4. OK(<<>>)
  BY ShortText
<1>5. OK(<<"huge">>)
  BY <1>0, ShortText
<1>. HIDE DEF OK
<1>6. OK(v.text)
  BY <1>1, <1>2, <1>3, <1>4, <1>5, ValueCases, Zenon
<1>. QED
  BY <1>6 DEF OK

\* A pair is entered under its key and the section.
LEMMA PairLoads ==
  ASSUME NEW st, NEW l \in PairLine
  PROVE  LoadLine(st, ConfigText(l)) =
           [st EXCEPT !.config = Put(st.config, <<st.section, <<l.key>>>>, l.value.text)]
<1>. DEFINE p == Padding(l)
            v == l.value.text
            raw == p \o <<l.key>> \o p \o <<"=">> \o p \o v \o p
            s == Trim(raw)
<1>1. l.kind = "pair" /\ l.key \in {PortKey, UdpKey, LimitKey} /\ l.value \in Value
  BY DEF PairLine, Key
<1>2. ConfigText(l) = raw
  BY <1>1 DEF ConfigText
<1>3. /\ l.key \in ConfigChar \ {"="} /\ "=" \in ConfigChar /\ Blank \in ConfigChar
      /\ l.key # Blank /\ "=" # Blank
  BY <1>1, Characters, Visible
<1>4. l.key # "[" /\ l.key \notin {";", "#"}
  BY <1>1, Zenon DEF PortKey, UdpKey, LimitKey
<1>5. p \in Seq({Blank})
  BY PaddingIsBlank
<1>6. v \in Seq(ConfigChar) /\ (v # <<>> => v[1] # Blank /\ v[Len(v)] # Blank)
  BY <1>1, ValuesAreTexts
<1>7. /\ s # <<>> /\ s[1] = l.key
      /\ \E i \in DOMAIN s : s[i] = "="
      /\ Before(s, FirstOf(s, "=")) = <<l.key>>
      /\ After(s, FirstOf(s, "=")) = v
  <2>. HIDE DEF p, v
  <2>. QED
    BY <1>3, <1>5, <1>6, PairText
<1>. HIDE DEF s
<1>8. ~IsSkipped(s) /\ ~IsSection(s) /\ IsPair(s)
  BY <1>4, <1>7 DEF IsSkipped, IsSection, IsPair
<1>9. LoadLine(st, ConfigText(l)) =
        [st EXCEPT !.config = Put(st.config, <<st.section, Before(s, FirstOf(s, "="))>>,
                                  After(s, FirstOf(s, "=")))]
  BY <1>2, <1>8 DEF LoadLine, s
<1>. QED
  BY <1>7, <1>9

\* A section line changes the section.
LEMMA SectionLoads ==
  ASSUME NEW st, NEW l \in SectionLine
  PROVE  LoadLine(st, ConfigText(l)) = [st EXCEPT !.section = <<l.name>>]
<1>. DEFINE p == Padding(l)
            raw == p \o <<"[">> \o p \o <<l.name>> \o p \o <<"]">> \o p
            s == Trim(raw)
<1>1. l.kind = "section" /\ l.name \in {Section, "Log"}
  BY DEF SectionLine
<1>2. ConfigText(l) = raw
  BY <1>1 DEF ConfigText
<1>3. /\ l.name \in ConfigChar /\ "[" \in ConfigChar /\ "]" \in ConfigChar /\ Blank \in ConfigChar
      /\ l.name # Blank /\ "[" # Blank /\ "]" # Blank
  BY <1>1, Characters, Visible
<1>4. p \in Seq({Blank})
  BY PaddingIsBlank
<1>5. /\ s # <<>> /\ s[1] = "[" /\ s[Len(s)] = "]"
      /\ Before(SubSeq(s, 2, Len(s)), Len(s) - 1) = <<l.name>>
  <2>. DEFINE open == "["
              close == "]"
  <2>1. /\ open \in ConfigChar /\ close \in ConfigChar /\ open # Blank /\ close # Blank
        /\ s = Trim(p \o <<open>> \o p \o <<l.name>> \o p \o <<close>> \o p)
    BY <1>3
  <2>. HIDE DEF p, open, close, s
  <2>2. Brackets(s, open, close, l.name)
    BY <1>3, <1>4, <2>1, SectionText
  <2>. QED
    BY <2>2 DEF Brackets, open, close
<1>. HIDE DEF s
<1>6. ~IsSkipped(s) /\ IsSection(s)
  BY <1>5, Zenon DEF IsSkipped, IsSection
<1>7. LoadLine(st, ConfigText(l)) =
        [st EXCEPT !.section = Before(SubSeq(s, 2, Len(s)), Len(s) - 1)]
  BY <1>2, <1>6 DEF LoadLine, s
<1>. QED
  BY <1>5, <1>7

\* Every other line is passed over.
LEMMA OthersLoad ==
  ASSUME NEW st, NEW l \in ConfigLine, l.kind \notin {"pair", "section"}
  PROVE  LoadLine(st, ConfigText(l)) = st
<1>. DEFINE s == Trim(ConfigText(l))
<1>0. l.kind \in {"comment", "blank", "unclosed", "word"}
  BY DEF ConfigLine, PairLine, SectionLine
<1>1. CASE l.kind = "comment"
  <2>. DEFINE text == <<Blank, ";", PortKey, "=", "2">>
  <2>1. ConfigText(l) = text
    BY <1>1 DEF ConfigText
  <2>2. /\ text \in Seq(ConfigChar) /\ Len(text) = 5 /\ text[2] # Blank /\ text[5] # Blank
        /\ text[1] = Blank /\ text[2] = ";"
    <3>1. PortKey \in ConfigChar
      BY Characters
    <3>. QED
      BY <3>1, Characters, Visible, ShortText
  <2>. HIDE DEF text
  <2>6. Len(text) = 5
    BY <2>2
  <2>3. Trim(text) = SubSeq(text, 2, 5)
    <3>1. 2 \in 1 .. Len(text) /\ 5 \in 1 .. Len(text) /\ 2 <= 5
      BY <2>6
    <3>2. \A i \in 1 .. Len(text) : i < 2 \/ 5 < i => i = 1
      BY <2>6
    <3>. QED
      BY <2>2, <3>1, <3>2, TrimIs
  <2>4. SubSeq(text, 2, 5) # <<>> /\ SubSeq(text, 2, 5)[1] = ";"
    <3>1. \A i \in 2 .. 5 : text[i] \in ConfigChar
      <4>1. \A i \in 2 .. 5 : i \in 1 .. Len(text)
        BY <2>6
      <4>. QED
        BY <2>2, <4>1, ElementOfSeq
    <3>2. Len(SubSeq(text, 2, 5)) = 4 /\ SubSeq(text, 2, 5)[1] = text[2]
      BY <3>1, SubSeqProperties
    <3>. QED
      BY <2>2, <3>2
  <2>5. IsSkipped(s)
    BY <2>1, <2>3, <2>4 DEF IsSkipped
  <2>. QED
    BY <2>5 DEF LoadLine
<1>2. CASE l.kind = "blank"
  <2>1. ConfigText(l) = <<Blank>>
    BY <1>2 DEF ConfigText
  <2>2. Trim(<<Blank>>) = <<>>
    <3>1. <<Blank>> \in Seq({Blank})
      BY ShortText
    <3>. QED
      BY <3>1, TrimBlank
  <2>3. IsSkipped(s)
    BY <2>1, <2>2 DEF IsSkipped
  <2>. QED
    BY <2>3 DEF LoadLine
<1>3. CASE l.kind = "unclosed"
  <2>. DEFINE text == <<"[", "Log">>
  <2>1. ConfigText(l) = text
    BY <1>3 DEF ConfigText
  <2>2. /\ text \in Seq(ConfigChar) /\ Len(text) = 2
        /\ text[1] = "[" /\ text[2] = "Log" /\ text # <<>>
    BY Characters, ShortText
  <2>. HIDE DEF text
  <2>3. Trim(text) = text
    <3>0. Len(text) = 2 /\ text[1] # Blank /\ text[2] # Blank
      BY <2>2, Visible
    <3>1. /\ 1 \in 1 .. Len(text) /\ 2 \in 1 .. Len(text) /\ 1 <= 2
          /\ \A i \in 1 .. Len(text) : ~(i < 1 \/ 2 < i)
      BY <3>0
    <3>2. Trim(text) = SubSeq(text, 1, 2)
      BY <2>2, <3>0, <3>1, TrimIs
    <3>. QED
      BY <2>2, <3>2, SubSeqFull
  <2>4. "Log" # "]" /\ "Log" # "=" /\ "[" # "=" /\ "[" \notin {";", "#"}
    BY Zenon
  <2>5. ~IsSkipped(text) /\ ~IsSection(text)
    BY <2>2, <2>4 DEF IsSkipped, IsSection
  <2>6. ~IsPair(text)
    BY <2>2, <2>4 DEF IsPair
  <2>. QED
    BY <2>1, <2>3, <2>5, <2>6 DEF LoadLine
<1>4. CASE l.kind = "word"
  <2>. DEFINE text == <<PortKey>>
  <2>1. ConfigText(l) = text
    BY <1>4 DEF ConfigText
  <2>2. text \in Seq(ConfigChar) /\ Len(text) = 1 /\ text[1] = PortKey /\ text # <<>>
    <3>1. PortKey \in ConfigChar
      BY Characters
    <3>. QED
      BY <3>1, ShortText
  <2>. HIDE DEF text
  <2>3. Trim(text) = text
    <3>0. Len(text) = 1 /\ text[1] # Blank
      BY <2>2, Visible
    <3>1. 1 \in 1 .. Len(text) /\ \A i \in 1 .. Len(text) : ~(i < 1 \/ 1 < i)
      BY <3>0
    <3>2. Trim(text) = SubSeq(text, 1, 1)
      BY <2>2, <3>0, <3>1, TrimIs
    <3>. QED
      BY <2>2, <3>2, SubSeqFull
  <2>4. PortKey # "=" /\ PortKey # "[" /\ PortKey \notin {";", "#"}
    BY Zenon DEF PortKey
  <2>5. ~IsSkipped(text) /\ ~IsSection(text)
    BY <2>2, <2>4 DEF IsSkipped, IsSection
  <2>6. ~IsPair(text)
    <3>1. DOMAIN text = 1 .. Len(text) /\ Len(text) = 1
      BY <2>2, LenProperties
    <3>2. \A i \in DOMAIN text : i = 1
      BY <3>1
    <3>. QED
      BY <2>2, <2>4, <3>2, Zenon DEF IsPair
  <2>. QED
    BY <2>1, <2>3, <2>5, <2>6 DEF LoadLine
<1>. QED
  BY <1>0, <1>1, <1>2, <1>3, <1>4

\* load's loop, turn by turn.
LEMMA LoadByLine ==
  ASSUME NEW n \in Nat, NEW texts, DOMAIN texts = 1 .. n
  PROVE  \E state :
           /\ state[0] = [section |-> <<>>, config |-> [k \in {} |-> <<>>]]
           /\ \A k \in 0 .. n : k < n => state[k + 1] = LoadLine(state[k], texts[k + 1])
           /\ LoadConfig(texts) = state[n].config
<1>. DEFINE none == [section |-> <<>>, config |-> [k \in {} |-> <<>>]]
            Folds(f, k) ==
              \A s \in SUBSET (1 .. k) :
                f[s] = IF s = {} THEN none ELSE LoadLine(f[s \ {Max(s)}], texts[Max(s)])
            fold == CHOOSE f : f = [s \in SUBSET DOMAIN texts |->
                                      IF s = {} THEN none
                                      ELSE LoadLine(f[s \ {Max(s)}], texts[Max(s)])]
            P == {k \in 0 .. n : \E f : Folds(f, k)}
            state == [k \in 0 .. n |-> fold[1 .. k]]
<1>1. LoadConfig(texts) = fold[DOMAIN texts].config
  BY DEF LoadConfig, FoldLeft, MapThenFoldSet
<1>. HIDE DEF none
<1>2. ASSUME NEW k \in 0 .. n, NEW s \in SUBSET (1 .. k), s # {}
      PROVE  Max(s) \in 1 .. k /\ Max(s) \in s /\ \A y \in s : Max(s) >= y
  <2>1. k \in Nat
    OBVIOUS
  <2>. QED
    BY <1>2, <2>1, GreatestElement
<1>3. \A k \in 0 .. n : k \in P
  <2>1. 0 \in P
    <3>. DEFINE f == [s \in {{}} |-> none]
    <3>1. Folds(f, 0)
      OBVIOUS
    <3>. HIDE DEF f, Folds
    <3>. QED
      BY <3>1
  <2>2. ASSUME NEW k \in 0 .. n, k \in P, k < n PROVE k + 1 \in P
    <3>1. PICK f : Folds(f, k)
      <4>. HIDE DEF Folds
      <4>. QED
        BY <2>2
    <3>. DEFINE g == [s \in SUBSET (1 .. k + 1) |->
                        IF k + 1 \in s THEN LoadLine(f[s \ {k + 1}], texts[k + 1]) ELSE f[s]]
    <3>2. k + 1 \in 0 .. n
      BY <2>2
    <3>3. ASSUME NEW s \in SUBSET (1 .. k + 1)
          PROVE  g[s] = IF s = {} THEN none ELSE LoadLine(g[s \ {Max(s)}], texts[Max(s)])
      <4>1. CASE k + 1 \in s
        <5>1. Max(s) = k + 1
          BY <1>2, <3>2, <4>1
        <5>2. g[s \ {k + 1}] = f[s \ {k + 1}]
          OBVIOUS
        <5>. QED
          BY <4>1, <5>1, <5>2
      <4>2. CASE k + 1 \notin s
        <5>1. s \in SUBSET (1 .. k)
          BY <4>2
        <5>2. f[s] = IF s = {} THEN none ELSE LoadLine(f[s \ {Max(s)}], texts[Max(s)])
          BY <3>1, <5>1
        <5>3. g[s] = f[s] /\ g[s \ {Max(s)}] = f[s \ {Max(s)}]
          BY <4>2
        <5>. QED
          BY <5>2, <5>3
      <4>. QED
        BY <4>1, <4>2
    <3>4. Folds(g, k + 1)
      BY <3>3
    <3>. HIDE DEF g, Folds
    <3>. QED
      BY <3>2, <3>4
  <2>. HIDE DEF P
  <2>. QED
    BY <2>1, <2>2, UpTo
<1>4. \A s \in SUBSET (1 .. n) :
        fold[s] = IF s = {} THEN none ELSE LoadLine(fold[s \ {Max(s)}], texts[Max(s)])
  <2>1. PICK f : Folds(f, n)
    <3>. HIDE DEF Folds
    <3>. QED
      BY <1>3
  <2>. DEFINE g == [s \in SUBSET DOMAIN texts |-> f[s]]
  <2>2. g = [s \in SUBSET DOMAIN texts |->
               IF s = {} THEN none ELSE LoadLine(g[s \ {Max(s)}], texts[Max(s)])]
    BY <2>1
  <2>. HIDE DEF g
  <2>3. fold = [s \in SUBSET DOMAIN texts |->
                  IF s = {} THEN none ELSE LoadLine(fold[s \ {Max(s)}], texts[Max(s)])]
    BY <2>2
  <2>. HIDE DEF fold
  <2>. QED
    BY <2>3
<1>. HIDE DEF fold
<1>5. state[0] = none
  <2>1. 1 .. 0 = {} /\ {} \in SUBSET (1 .. n) /\ 0 \in 0 .. n
    OBVIOUS
  <2>. QED
    BY <1>4, <2>1
<1>6. ASSUME NEW k \in 0 .. n, k < n PROVE state[k + 1] = LoadLine(state[k], texts[k + 1])
  <2>. DEFINE s == 1 .. k + 1
  <2>0. k \in Nat /\ k + 1 <= n
    BY <1>6
  <2>1. k + 1 \in 0 .. n /\ k + 1 \in s /\ s \in SUBSET (1 .. n) /\ s # {}
    BY <2>0
  <2>2. Max(s) \in 1 .. k + 1 /\ \A y \in s : Max(s) >= y
    BY <1>2, <2>1
  <2>3. Max(s) = k + 1 /\ s \ {k + 1} = 1 .. k
    BY <2>1, <2>2
  <2>4. fold[s] = LoadLine(fold[1 .. k], texts[k + 1])
    BY <1>4, <2>1, <2>3
  <2>5. state[k + 1] = fold[s] /\ state[k] = fold[1 .. k]
    BY <2>1
  <2>. QED
    BY <2>4, <2>5
<1>7. LoadConfig(texts) = state[n].config
  BY <1>1
<1>. HIDE DEF state
<1>. QED
  BY <1>5, <1>6, <1>7 DEF none

----------------------------------------------------------------------------
(* The file, line by line.                                                 *)

\* The lines up to k that give key a value, and the key's entry in the map.
Given(ls, key, k) ==
  {i \in 1 .. k : ls[i] \in PairLine /\ ls[i].key = key /\ InSection(ls, i)}
Entry(key) == <<<<Section>>, <<key>>>>

\* What the first k lines have made of load's state.
Loaded(ls, k, st) ==
  /\ st = [section |-> st.section, config |-> st.config]
  /\ st.section = <<Section>> <=> InSection(ls, k)
  /\ \A key \in Key :
       /\ Entry(key) \in DOMAIN st.config <=> Given(ls, key, k) # {}
       /\ \A i \in Given(ls, key, k) :
            (\A j \in Given(ls, key, k) : j <= i)
              => st.config[Entry(key)] = ls[i].value.text

\* The section is that of the last section line.
LEMMA SectionSoFar ==
  ASSUME NEW ls, NEW k \in Nat
  PROVE  InSection(ls, k + 1) <=>
           \/ ls[k + 1] \in SectionLine /\ ls[k + 1].name = Section
           \/ ls[k + 1] \notin SectionLine /\ InSection(ls, k)
<1>1. CASE ls[k + 1] \in SectionLine
  <2>1. ASSUME InSection(ls, k + 1) PROVE ls[k + 1].name = Section
    <3>1. PICK j \in 1 .. k + 1 :
            /\ ls[j] \in SectionLine /\ ls[j].name = Section
            /\ \A i \in j + 1 .. k + 1 : ls[i] \notin SectionLine
      BY <2>1 DEF InSection
    <3>2. ~(j < k + 1)
      BY <1>1, <3>1
    <3>. QED
      BY <3>1, <3>2
  <2>2. ASSUME ls[k + 1].name = Section PROVE InSection(ls, k + 1)
    <3>1. k + 1 \in 1 .. k + 1 /\ \A i \in k + 1 + 1 .. k + 1 : FALSE
      OBVIOUS
    <3>. QED
      BY <1>1, <2>2, <3>1 DEF InSection
  <2>. QED
    BY <1>1, <2>1, <2>2
<1>2. CASE ls[k + 1] \notin SectionLine
  <2>1. ASSUME InSection(ls, k + 1) PROVE InSection(ls, k)
    <3>1. PICK j \in 1 .. k + 1 :
            /\ ls[j] \in SectionLine /\ ls[j].name = Section
            /\ \A i \in j + 1 .. k + 1 : ls[i] \notin SectionLine
      BY <2>1 DEF InSection
    <3>2. j \in 1 .. k /\ \A i \in j + 1 .. k : i \in j + 1 .. k + 1
      BY <1>2, <3>1
    <3>. QED
      BY <3>1, <3>2 DEF InSection
  <2>2. ASSUME InSection(ls, k) PROVE InSection(ls, k + 1)
    <3>1. PICK j \in 1 .. k :
            /\ ls[j] \in SectionLine /\ ls[j].name = Section
            /\ \A i \in j + 1 .. k : ls[i] \notin SectionLine
      BY <2>2 DEF InSection
    <3>2. j \in 1 .. k + 1 /\ \A i \in j + 1 .. k + 1 : i \in j + 1 .. k \/ i = k + 1
      OBVIOUS
    <3>. QED
      BY <1>2, <3>1, <3>2 DEF InSection
  <2>. QED
    BY <1>2, <2>1, <2>2
<1>. QED
  BY <1>1, <1>2

\* The kind of a line tells pairs from sections.
LEMMA KindsDiffer ==
  ASSUME NEW l \in ConfigLine
  PROVE  /\ l \in PairLine <=> l.kind = "pair"
         /\ l \in SectionLine <=> l.kind = "section"
<1>. QED
  BY DEF ConfigLine, PairLine, SectionLine

\* One more line.
LEMMA LoadedStep ==
  ASSUME NEW ls \in Seq(ConfigLine), NEW k \in Nat, k + 1 <= Len(ls),
         NEW st, Loaded(ls, k, st)
  PROVE  Loaded(ls, k + 1, LoadLine(st, ConfigText(ls[k + 1])))
<1>. DEFINE l == ls[k + 1]
            next == LoadLine(st, ConfigText(l))
<1>1. l \in ConfigLine
  BY ElementOfSeq
<1>2. \A key : Given(ls, key, k + 1) =
                 IF l \in PairLine /\ l.key = key /\ InSection(ls, k + 1)
                 THEN Given(ls, key, k) \cup {k + 1} ELSE Given(ls, key, k)
  <2>1. 1 .. k + 1 = (1 .. k) \cup {k + 1}
    OBVIOUS
  <2>. QED
    BY <2>1 DEF Given
<1>3. st = [section |-> st.section, config |-> st.config]
  BY DEF Loaded
<1>4. \A key : \A i \in Given(ls, key, k) : i \in 1 .. k
  BY DEF Given
<1>. HIDE DEF l
<1>5. CASE l.kind = "pair"
  <2>. DEFINE new == <<st.section, <<l.key>>>>
              config == Put(st.config, new, l.value.text)
  <2>1. l \in PairLine /\ l \notin SectionLine
    BY <1>1, <1>5, KindsDiffer
  <2>2. next = [st EXCEPT !.config = config]
    BY <2>1, PairLoads
  <2>. HIDE DEF next, config
  <2>3. next = [section |-> st.section, config |-> config]
    BY <1>3, <2>2
  <2>4. InSection(ls, k + 1) <=> InSection(ls, k)
    BY <2>1, SectionSoFar DEF l
  <2>5. /\ DOMAIN config = {new} \cup DOMAIN st.config
        /\ config[new] = l.value.text
        /\ \A x \in DOMAIN st.config : x # new => config[x] = st.config[x]
    BY DEF config, Put
  <2>6. \A key : Entry(key) = new <=> l.key = key /\ InSection(ls, k)
    BY DEF Loaded, Entry
  <2>. HIDE DEF new
  <2>7. ASSUME NEW key \in Key
        PROVE  /\ Entry(key) \in DOMAIN config <=> Given(ls, key, k + 1) # {}
               /\ \A i \in Given(ls, key, k + 1) :
                    (\A j \in Given(ls, key, k + 1) : j <= i)
                      => config[Entry(key)] = ls[i].value.text
    <3>1. CASE Entry(key) = new
      <4>1. Given(ls, key, k + 1) = Given(ls, key, k) \cup {k + 1}
        BY <1>2, <2>1, <2>4, <2>6, <3>1
      <4>2. ASSUME NEW i \in Given(ls, key, k + 1), \A j \in Given(ls, key, k + 1) : j <= i
            PROVE  i = k + 1
        <5>1. k + 1 <= i
          BY <4>1, <4>2
        <5>2. i \in 1 .. k + 1
          BY <4>2 DEF Given
        <5>. QED
          BY <5>1, <5>2
      <4>. QED
        BY <2>5, <3>1, <4>1, <4>2 DEF l
    <3>2. CASE Entry(key) # new
      <4>1. Given(ls, key, k + 1) = Given(ls, key, k)
        BY <1>2, <2>4, <2>6, <3>2
      <4>2. /\ Entry(key) \in DOMAIN config <=> Entry(key) \in DOMAIN st.config
            /\ Entry(key) \in DOMAIN st.config => config[Entry(key)] = st.config[Entry(key)]
        BY <2>5, <3>2
      <4>. QED
        BY <4>1, <4>2 DEF Loaded
    <3>. QED
      BY <3>1, <3>2
  <2>. QED
    BY <2>3, <2>4, <2>7 DEF Loaded, next, l
<1>6. CASE l.kind = "section"
  <2>1. l \in SectionLine /\ l \notin PairLine
    BY <1>1, <1>6, KindsDiffer
  <2>2. next = [st EXCEPT !.section = <<l.name>>]
    BY <2>1, SectionLoads
  <2>. HIDE DEF next
  <2>3. next = [section |-> <<l.name>>, config |-> st.config]
    BY <1>3, <2>2
  <2>4. <<l.name>> = <<Section>> <=> InSection(ls, k + 1)
    BY <2>1, SectionSoFar DEF l
  <2>5. \A key : Given(ls, key, k + 1) = Given(ls, key, k)
    BY <1>2, <2>1
  <2>. QED
    BY <2>3, <2>4, <2>5 DEF Loaded, next, l
<1>7. CASE l.kind \notin {"pair", "section"}
  <2>1. l \notin SectionLine /\ l \notin PairLine
    BY <1>1, <1>7, KindsDiffer
  <2>2. next = st
    BY <1>1, <1>7, OthersLoad
  <2>4. InSection(ls, k + 1) <=> InSection(ls, k)
    BY <2>1, SectionSoFar DEF l
  <2>5. \A key : Given(ls, key, k + 1) = Given(ls, key, k)
    BY <1>2, <2>1
  <2>. QED
    BY <2>2, <2>4, <2>5 DEF Loaded, l
<1>. QED
  BY <1>5, <1>6, <1>7

----------------------------------------------------------------------------
(* The numbers.                                                            *)

\* The digits that a text starts with end before its first other character.
LEMMA LeadingIs ==
  ASSUME NEW s \in Seq(ConfigChar), NEW p \in 1 .. Len(s) + 1,
         \A i \in 1 .. Len(s) : i < p => s[i] \in Digits,
         p <= Len(s) => s[p] \notin Digits
  PROVE  Leading(s) = SubSeq(s, 1, p - 1)
<1>. DEFINE V == {i \in DOMAIN s : s[i] \notin Digits} \cup {Len(s) + 1}
<1>1. Len(s) \in Nat /\ DOMAIN s = 1 .. Len(s)
  BY LenProperties
<1>2. p \in V /\ V \subseteq Nat /\ \A y \in V : p <= y
  BY <1>1
<1>. HIDE DEF V
<1>3. PICK m : m = Min(V)
  OBVIOUS
<1>4. m \in V /\ \A y \in V : m <= y
  BY <1>2, <1>3, LeastElement
<1>5. m = p
  BY <1>2, <1>4
<1>. QED
  BY <1>3, <1>5 DEF Leading, V

\* One 2 is two, and two of them are twenty-two.
LEMMA Twos ==
  ASSUME NEW digits, NEW n \in {1, 2}, DOMAIN digits = 1 .. n
  PROVE  FoldLeft(LAMBDA k, ch : 10 * k + 2, 0, digits) = IF n = 1 THEN 2 ELSE 22
<1>. DEFINE fold == CHOOSE f : f = [s \in SUBSET DOMAIN digits |->
                                      IF s = {} THEN 0 ELSE 10 * f[s \ {Max(s)}] + 2]
            g == [s \in SUBSET DOMAIN digits |->
                    IF s = {} THEN 0 ELSE IF s = {1, 2} THEN 22 ELSE 2]
            number == FoldLeft(LAMBDA k, ch : 10 * k + 2, 0, digits)
<1>1. number = fold[DOMAIN digits]
  BY DEF FoldLeft, MapThenFoldSet
<1>. HIDE DEF number
<1>2. ASSUME NEW s \in SUBSET (1 .. n), s # {} PROVE Max(s) \in s /\ \A y \in s : Max(s) >= y
  BY <1>2, GreatestElement
<1>3. g = [s \in SUBSET DOMAIN digits |-> IF s = {} THEN 0 ELSE 10 * g[s \ {Max(s)}] + 2]
  <2>1. ASSUME NEW s \in SUBSET (1 .. n), s # {} PROVE g[s] = 10 * g[s \ {Max(s)}] + 2
    <3>1. PICK m \in s : m = Max(s)
      BY <1>2, <2>1
    <3>2. s \subseteq {1, 2}
      OBVIOUS
    <3>3. CASE s = {1, 2}
      <4>1. s \ {m} # {} /\ s \ {m} # {1, 2} /\ s \ {m} \in SUBSET (1 .. n)
        <5>1. /\ 1 \in s /\ 2 \in s /\ m \in {1, 2} /\ m \notin s \ {m}
              /\ m = 1 => 2 \in s \ {m}
              /\ m = 2 => 1 \in s \ {m}
          BY <3>1, <3>3
        <5>. QED
          BY <5>1
      <4>2. g[s \ {m}] = 2 /\ g[s] = 22
        BY <2>1, <3>3, <4>1
      <4>. QED
        BY <3>1, <4>2
    <3>4. CASE s # {1, 2}
      <4>1. s \ {m} = {}
        BY <3>1, <3>2, <3>4
      <4>2. g[s \ {m}] = 0 /\ g[s] = 2
        BY <2>1, <3>4, <4>1
      <4>. QED
        BY <3>1, <4>2
    <3>. QED
      BY <3>3, <3>4
  <2>. QED
    BY <2>1
<1>. HIDE DEF g
<1>4. fold = [s \in SUBSET DOMAIN digits |-> IF s = {} THEN 0 ELSE 10 * fold[s \ {Max(s)}] + 2]
  BY <1>3
<1>. HIDE DEF fold
<1>5. fold[{}] = 0
  BY <1>4
<1>6. fold[{1}] = 2
  <2>1. Max({1}) = 1 /\ {1} \in SUBSET DOMAIN digits /\ {1} \ {1} = {}
    <3>1. {1} \in SUBSET (1 .. n)
      OBVIOUS
    <3>2. Max({1}) \in {1}
      BY <1>2, <3>1
    <3>. QED
      BY <3>1, <3>2
  <2>2. fold[{1}] = 10 * fold[{1} \ {Max({1})}] + 2
    BY <1>4, <2>1
  <2>3. fold[{1} \ {Max({1})}] = 0
    <3>1. {1} \ {Max({1})} = {}
      BY <2>1
    <3>. QED
      BY <1>5, <3>1
  <2>. QED
    BY <2>2, <2>3
<1>7. CASE n = 1
  <2>1. DOMAIN digits = {1}
    BY <1>7
  <2>2. number = 2
    BY <1>1, <1>6, <2>1
  <2>. QED
    BY <1>7, <2>2 DEF number
<1>8. CASE n = 2
  <2>1. DOMAIN digits = {1, 2} /\ {1, 2} \in SUBSET (1 .. n)
    BY <1>8
  <2>2. Max({1, 2}) \in {1, 2} /\ \A y \in {1, 2} : Max({1, 2}) >= y
    BY <1>2, <2>1
  <2>3. Max({1, 2}) = 2 /\ {1, 2} \ {2} = {1}
    BY <2>2
  <2>4. fold[{1, 2}] = 10 * fold[{1, 2} \ {Max({1, 2})}] + 2
    BY <1>4, <2>1
  <2>5. number = 22
    BY <1>1, <1>6, <2>1, <2>3, <2>4
  <2>. QED
    BY <1>8, <2>5 DEF number
<1>. QED
  BY <1>7, <1>8

\* Which characters are digits.
LEMMA DigitsAre ==
  /\ "2" \in Digits /\ "huge" \in Digits /\ Blank \notin Digits /\ "a" \notin Digits
  /\ "2" # "huge"
BY Zenon DEF Digits, Blank

\* The number of a value is what stoi reads of its text.
LEMMA StoiOf ==
  ASSUME NEW v \in Value, NEW default
  PROVE  Stoi(v.text, default) = IF v.number = None THEN default ELSE v.number
<1>. DEFINE Reads(t, n) == Stoi(t, default) = IF n = None THEN default ELSE n
<1>1. Reads(<<"2">>, 2)
  <2>. DEFINE t == <<"2">>
  <2>1. t \in Seq(ConfigChar) /\ Len(t) = 1 /\ t[1] = "2"
    BY Characters, ShortText
  <2>. HIDE DEF t
  <2>2. \A i \in 1 .. Len(t) : i < 2 => t[i] \in Digits
    <3>1. \A i \in 1 .. Len(t) : i < 2 => i = 1
      BY <2>1
    <3>. QED
      BY <2>1, <3>1, DigitsAre
  <2>3. Leading(t) = SubSeq(t, 1, 1)
    <3>1. 2 \in 1 .. Len(t) + 1 /\ ~(2 <= Len(t)) /\ 2 - 1 = 1
      BY <2>1
    <3>2. Leading(t) = SubSeq(t, 1, 2 - 1)
      BY <2>1, <2>2, <3>1, LeadingIs
    <3>. QED
      BY <3>1, <3>2
  <2>4. SubSeq(t, 1, 1) = t
    BY <2>1, SubSeqFull
  <2>5. DOMAIN t = 1 .. 1 /\ t # <<>>
    BY <2>1
  <2>6. FoldLeft(LAMBDA n, ch : 10 * n + 2, 0, t) = 2
    BY <2>5, Twos
  <2>7. ~(\E i \in DOMAIN t : t[i] = "huge")
    BY <2>1, <2>5, DigitsAre
  <2>8. Stoi(t, default) = 2
    BY <2>3, <2>4, <2>5, <2>6, <2>7 DEF Stoi
  <2>. QED
    BY <2>8 DEF t, None
<1>2. Reads(<<"2", "2", Blank, ";", "a">>, 22)
  <2>. DEFINE t == <<"2", "2", Blank, ";", "a">>
  <2>1. /\ t \in Seq(ConfigChar) /\ Len(t) = 5 /\ t[1] = "2"
    BY Characters, ShortText
  <2>2. t[2] = "2" /\ t[3] = Blank
    OBVIOUS
  <2>. HIDE DEF t
  <2>3. \A i \in 1 .. Len(t) : i < 3 => t[i] \in Digits
    <3>1. \A i \in 1 .. Len(t) : i < 3 => i = 1 \/ i = 2
      BY <2>1
    <3>2. t[1] \in Digits /\ t[2] \in Digits
      BY <2>1, <2>2, DigitsAre
    <3>. QED
      BY <3>1, <3>2
  <2>4. Leading(t) = SubSeq(t, 1, 2)
    <3>1. 3 \in 1 .. Len(t) + 1 /\ 3 - 1 = 2
      BY <2>1
    <3>2. Leading(t) = SubSeq(t, 1, 3 - 1)
      BY <2>1, <2>3, <2>2, <3>1, DigitsAre, LeadingIs
    <3>. QED
      BY <3>1, <3>2
  <2>. DEFINE d == SubSeq(t, 1, 2)
  <2>5. DOMAIN d = 1 .. 2 /\ d # <<>> /\ d[1] = "2" /\ d[2] = "2"
    <3>1. \A i \in 1 .. 2 : t[i] \in ConfigChar
      <4>1. 1 \in 1 .. Len(t) /\ 2 \in 1 .. Len(t) /\ \A i \in 1 .. 2 : i = 1 \/ i = 2
        BY <2>1
      <4>. QED
        BY <2>1, <4>1, ElementOfSeq
    <3>2. /\ d \in Seq(ConfigChar) /\ Len(d) = 2
          /\ \A i \in 1 .. 2 : d[i] = t[1 + i - 1]
      BY <3>1, SubSeqProperties
    <3>3. DOMAIN d = 1 .. 2 /\ d # <<>>
      <4>1. d \in Seq(ConfigChar) /\ Len(d) = 2
        BY <3>2
      <4>. HIDE DEF d
      <4>2. DOMAIN d = 1 .. 2
        BY <4>1, LenProperties
      <4>. QED
        BY <4>1
    <3>. QED
      BY <2>1, <2>2, <3>2, <3>3
  <2>. HIDE DEF d
  <2>6. FoldLeft(LAMBDA n, ch : 10 * n + 2, 0, d) = 22
    BY <2>5, Twos
  <2>7. ~(\E i \in DOMAIN d : d[i] = "huge")
    <3>1. \A i \in DOMAIN d : i = 1 \/ i = 2
      BY <2>5
    <3>. QED
      BY <2>5, <3>1, DigitsAre
  <2>8. Leading(t) = d
    BY <2>4 DEF d
  <2>9. Stoi(t, default) = 22
    BY <2>5, <2>6, <2>7, <2>8 DEF Stoi
  <2>10. 22 # None
    BY DEF None
  <2>. QED
    BY <2>9, <2>10 DEF t
<1>3. Reads(<<"a", "=", "2">>, None)
  <2>. DEFINE t == <<"a", "=", "2">>
  <2>1. t \in Seq(ConfigChar) /\ Len(t) = 3 /\ t[1] = "a"
    BY Characters, ShortText
  <2>. HIDE DEF t
  <2>2. Leading(t) = <<>>
    <3>1. /\ 1 \in 1 .. Len(t) + 1 /\ 1 - 1 = 0
          /\ \A i \in 1 .. Len(t) : ~(i < 1)
      BY <2>1
    <3>2. Leading(t) = SubSeq(t, 1, 1 - 1)
      BY <2>1, <3>1, DigitsAre, LeadingIs
    <3>3. SubSeq(t, 1, 0) = <<>>
      OBVIOUS
    <3>. QED
      BY <3>1, <3>2, <3>3
  <2>3. Stoi(t, default) = default
    BY <2>2 DEF Stoi
  <2>. QED
    BY <2>3 DEF t
<1>4. Reads(<<>>, None)
  <2>. DEFINE t == <<>>
  <2>1. t \in Seq(ConfigChar) /\ Len(t) = 0 /\ SubSeq(t, 1, 0) = <<>>
    OBVIOUS
  <2>. HIDE DEF t
  <2>2. Leading(t) = <<>>
    <3>1. /\ 1 \in 1 .. Len(t) + 1 /\ 1 - 1 = 0 /\ ~(1 <= Len(t))
          /\ \A i \in 1 .. Len(t) : ~(i < 1)
      BY <2>1
    <3>2. Leading(t) = SubSeq(t, 1, 1 - 1)
      BY <2>1, <3>1, LeadingIs
    <3>. QED
      BY <2>1, <3>1, <3>2
  <2>3. Stoi(t, default) = default
    BY <2>2 DEF Stoi
  <2>. QED
    BY <2>3 DEF t
<1>5. Reads(<<"huge">>, None)
  <2>. DEFINE t == <<"huge">>
  <2>1. t \in Seq(ConfigChar) /\ Len(t) = 1 /\ t[1] = "huge"
    BY Characters, ShortText
  <2>. HIDE DEF t
  <2>2. \A i \in 1 .. Len(t) : i < 2 => t[i] \in Digits
    <3>1. \A i \in 1 .. Len(t) : i < 2 => i = 1
      BY <2>1
    <3>. QED
      BY <2>1, <3>1, DigitsAre
  <2>3. Leading(t) = SubSeq(t, 1, 1)
    <3>1. 2 \in 1 .. Len(t) + 1 /\ ~(2 <= Len(t)) /\ 2 - 1 = 1
      BY <2>1
    <3>2. Leading(t) = SubSeq(t, 1, 2 - 1)
      BY <2>1, <2>2, <3>1, LeadingIs
    <3>. QED
      BY <3>1, <3>2
  <2>4. SubSeq(t, 1, 1) = t
    BY <2>1, SubSeqFull
  <2>5. 1 \in DOMAIN t
    BY <2>1
  <2>6. Stoi(t, default) = default
    BY <2>1, <2>3, <2>4, <2>5 DEF Stoi
  <2>. QED
    BY <2>6 DEF t
<1>. HIDE DEF Reads
<1>6. Reads(v.text, v.number)
  BY <1>1, <1>2, <1>3, <1>4, <1>5, ValueCases, Zenon
<1>. QED
  BY <1>6 DEF Reads

\* What the file says is what the server gets: the last line that gives a key a
\* value in the section decides, and the default stands for what is no number.
LEMMA FileIsRead ==
  ASSUME NEW ls \in Seq(ConfigLine), NEW key \in Key, NEW default
  PROVE  GetInt(LoadConfig([i \in DOMAIN ls |-> ConfigText(ls[i])]), Section, key, default) =
           Written(ls, key, default)
<1>. DEFINE n == Len(ls)
            texts == [i \in DOMAIN ls |-> ConfigText(ls[i])]
            none == [section |-> <<>>, config |-> [k \in {} |-> <<>>]]
<1>1. n \in Nat /\ DOMAIN ls = 1 .. n
  BY LenProperties
<1>2. PICK state :
        /\ state[0] = none
        /\ \A k \in 0 .. n : k < n => state[k + 1] = LoadLine(state[k], texts[k + 1])
        /\ LoadConfig(texts) = state[n].config
  <2>1. DOMAIN texts = 1 .. n
    BY <1>1
  <2>. HIDE DEF texts
  <2>. QED
    BY <1>1, <2>1, LoadByLine
<1>3. Loaded(ls, 0, none)
  <2>1. ~InSection(ls, 0)
    BY DEF InSection
  <2>2. \A k : Given(ls, k, 0) = {}
    BY DEF Given
  <2>3. <<>> # <<Section>>
    OBVIOUS
  <2>. QED
    BY <2>1, <2>2, <2>3 DEF Loaded
<1>. HIDE DEF none
<1>4. \A k \in 0 .. n : Loaded(ls, k, state[k])
  <2>. DEFINE P == {k \in 0 .. n : Loaded(ls, k, state[k])}
  <2>1. 0 \in P
    BY <1>1, <1>2, <1>3
  <2>2. ASSUME NEW k \in 0 .. n, k \in P, k < n PROVE k + 1 \in P
    <3>1. k \in Nat /\ k + 1 \in 0 .. n /\ k + 1 <= n /\ k + 1 \in DOMAIN ls
      BY <1>1, <2>2
    <3>2. state[k + 1] = LoadLine(state[k], ConfigText(ls[k + 1]))
      BY <1>2, <2>2, <3>1
    <3>3. Loaded(ls, k, state[k])
      BY <2>2
    <3>4. Loaded(ls, k + 1, state[k + 1])
      BY <3>1, <3>2, <3>3, LoadedStep
    <3>. QED
      BY <3>1, <3>4
  <2>. HIDE DEF P
  <2>3. \A k \in 0 .. n : k \in P
    BY <1>1, <2>1, <2>2, UpTo
  <2>. QED
    BY <2>3 DEF P
<1>. DEFINE config == state[n].config
            given == Given(ls, key, n)
<1>5. /\ Entry(key) \in DOMAIN config <=> given # {}
      /\ \A i \in given : (\A j \in given : j <= i) => config[Entry(key)] = ls[i].value.text
  <2>1. Loaded(ls, n, state[n])
    BY <1>1, <1>4
  <2>. QED
    BY <2>1 DEF Loaded
<1>6. Written(ls, key, default) =
        IF given = {} \/ ls[Max(given)].value.number = None THEN default
        ELSE ls[Max(given)].value.number
  <2>1. given = {i \in DOMAIN ls : ls[i] \in PairLine /\ ls[i].key = key /\ InSection(ls, i)}
    BY <1>1 DEF Given
  <2>. HIDE DEF given
  <2>. QED
    BY <2>1 DEF Written
<1>. DEFINE got == GetInt(LoadConfig(texts), Section, key, default)
<1>7. got =
        IF Entry(key) \in DOMAIN config THEN Stoi(config[Entry(key)], default) ELSE default
  BY <1>2 DEF GetInt, Entry
<1>8. CASE given = {}
  BY <1>5, <1>6, <1>7, <1>8 DEF got
<1>9. CASE given # {}
  <2>0. given \in SUBSET (1 .. n)
    BY DEF Given
  <2>1. PICK m : m = Max(given)
    OBVIOUS
  <2>. HIDE DEF given
  <2>2. m \in given /\ \A j \in given : m >= j
    BY <1>1, <1>9, <2>0, <2>1, GreatestElement
  <2>3. m \in 1 .. n /\ \A j \in given : j <= m
    BY <1>1, <2>0, <2>2
  <2>4. ls[m].value \in Value
    BY <2>2 DEF given, Given, PairLine
  <2>5. config[Entry(key)] = ls[m].value.text /\ Entry(key) \in DOMAIN config
    BY <1>5, <1>9, <2>2, <2>3
  <2>6. Stoi(ls[m].value.text, default) =
          IF ls[m].value.number = None THEN default ELSE ls[m].value.number
    BY <2>4, StoiOf
  <2>. HIDE DEF config, got
  <2>7. got = Stoi(ls[m].value.text, default)
    BY <1>7, <2>5
  <2>8. Written(ls, key, default) =
          IF ls[m].value.number = None THEN default ELSE ls[m].value.number
    BY <1>6, <1>9, <2>1
  <2>9. got = Written(ls, key, default)
    BY <2>6, <2>7, <2>8
  <2>. QED
    BY <2>9 DEF got
<1>. QED
  BY <1>8, <1>9

\* Every number a file gives is one of a few.
LEMMA WrittenIs ==
  ASSUME NEW ls \in Seq(ConfigLine), NEW key, NEW default \in NumberInFile
  PROVE  Written(ls, key, default) \in NumberInFile
<1>. DEFINE given == {i \in DOMAIN ls : ls[i] \in PairLine /\ ls[i].key = key /\ InSection(ls, i)}
<1>1. CASE given = {} \/ ls[Max(given)].value.number = None
  BY <1>1 DEF Written
<1>2. CASE ~(given = {} \/ ls[Max(given)].value.number = None)
  <2>1. DOMAIN ls = 1 .. Len(ls) /\ Len(ls) \in Nat
    BY LenProperties
  <2>2. PICK m : m = Max(given)
    OBVIOUS
  <2>3. m \in given
    <3>1. given \in SUBSET (1 .. Len(ls))
      BY <2>1
    <3>. HIDE DEF given
    <3>. QED
      BY <1>2, <2>1, <2>2, <3>1, GreatestElement
  <2>4. ls[m].value \in Value
    BY <2>3 DEF PairLine
  <2>5. \A x \in Value : x.number = 2 \/ x.number = 22 \/ x.number = None
    BY ValueCases, Zenon
  <2>6. Written(ls, key, default) = ls[m].value.number
    BY <1>2, <2>2 DEF Written
  <2>. HIDE DEF given
  <2>. QED
    BY <1>2, <2>2, <2>4, <2>5, <2>6 DEF NumberInFile
<1>. QED
  BY <1>1, <1>2

----------------------------------------------------------------------------
(* The settings main works with.                                           *)

\* Before load the file is there; after it main has what the file says.
FileInv ==
  /\ at[Main] = "load" => file \in Seq(ConfigLine)
  /\ SettingsAsWritten
  /\ settings \in [port : NumberInFile, udp : NumberInFile, limit : NumberInFile]

\* A file of any number of lines.
LEMMA FileInit == Init => FileInv
<1>. SUFFICES ASSUME Init PROVE FileInv
  OBVIOUS
<1>1. file \in Seq(ConfigLine)
  <2>1. PICK n \in 0 .. MaxConfigLines : file \in [1 .. n -> ConfigLine]
    BY DEF Init, BoundedSeq, SeqOf
  <2>2. n \in Nat
    BY ConfigAssumption
  <2>. QED
    BY <2>1, <2>2, SeqDef
<1>2. at[Main] = "load" /\ settings = NoSettings
  BY DEF Init, Thread
<1>3. NoSettings \in [port : NumberInFile, udp : NumberInFile, limit : NumberInFile]
  BY DEF NoSettings, NumberInFile
<1>. QED
  BY <1>1, <1>2, <1>3 DEF FileInv, SettingsAsWritten

\* load reads it.
LEMMA FileLoaded == ASSUME Typing, FileInv, LoadSettings PROVE FileInv'
<1>. DEFINE texts == [i \in DOMAIN file |-> ConfigText(file[i])]
            port == Written(file, PortKey, DefaultPort)
            udp == Written(file, UdpKey, DefaultUdpPort)
            limit == Written(file, LimitKey, DefaultLimit)
<1>1. file \in Seq(ConfigLine) /\ file' = file /\ at'[Main] = "start"
  BY DEF Typing, FileInv, LoadSettings, MainGoes, Runs, Goes, Thread
<1>2. settings' = [port  |-> GetInt(LoadConfig(texts), Section, PortKey, DefaultPort),
                   udp   |-> GetInt(LoadConfig(texts), Section, UdpKey, DefaultUdpPort),
                   limit |-> GetInt(LoadConfig(texts), Section, LimitKey, DefaultLimit)]
  BY DEF LoadSettings
<1>3. /\ GetInt(LoadConfig(texts), Section, PortKey, DefaultPort) = port
      /\ GetInt(LoadConfig(texts), Section, UdpKey, DefaultUdpPort) = udp
      /\ GetInt(LoadConfig(texts), Section, LimitKey, DefaultLimit) = limit
  BY <1>1, FileIsRead DEF Key
<1>4. port \in NumberInFile /\ udp \in NumberInFile /\ limit \in NumberInFile
  <2>1. /\ DefaultPort \in NumberInFile /\ DefaultUdpPort \in NumberInFile
        /\ DefaultLimit \in NumberInFile
    BY DEF DefaultPort, DefaultUdpPort, DefaultLimit, NumberInFile
  <2>. QED
    BY <1>1, <2>1, WrittenIs
<1>5. settings' = [port |-> port, udp |-> udp, limit |-> limit]
  <2>. HIDE DEF port, udp, limit, texts
  <2>. QED
    BY <1>2, <1>3
<1>6. SettingsAsWritten'
  <2>1. port' = port /\ udp' = udp /\ limit' = limit
    BY <1>1
  <2>. HIDE DEF port, udp, limit
  <2>. QED
    BY <1>5, <2>1 DEF SettingsAsWritten, port, udp, limit
<1>. HIDE DEF port, udp, limit
<1>. QED
  BY <1>1, <1>4, <1>5, <1>6 DEF FileInv

\* Every other step leaves the file and the settings alone, or is past them.
LEMMA FileQuiet ==
  ASSUME Typing, FileInv, [Next]_vars, ~LoadSettings
  PROVE  FileInv'
<1>. USE ProcessAssumption DEF Typing, Thread, MainGoes, Runs, Goes, fileVars
<1>. DEFINE Kept == /\ file' = file /\ settings' = settings
                    /\ at'[Main] \in {"load", "start"} => at'[Main] = at[Main]
            Past == settings' = NoSettings /\ at'[Main] \notin {"load", "start"}
<1>1. CASE StartServers \/ StartFails
  <2>1. Past
    BY <1>1 DEF StartServers, StartFails
  <2>2. NoSettings \in [port : NumberInFile, udp : NumberInFile, limit : NumberInFile]
    BY DEF NoSettings, NumberInFile
  <2>. QED
    BY <2>1, <2>2 DEF FileInv, SettingsAsWritten
<1>2. ASSUME Kept PROVE FileInv'
  BY <1>2 DEF FileInv, SettingsAsWritten
<1>3. CASE MainStep /\ ~StartServers /\ ~StartFails
  <2>1. CASE StartTimers \/ StartWorkers \/ StartInputLoop \/ Wake \/ StopTimers
    BY <1>2, <2>1 DEF StartTimers, StartWorkers, StartInputLoop, Wake, StopTimers
  <2>2. CASE CancelTimers \/ StopTcp \/ StopUdp \/ CloseUdp \/ LockIo \/ StopIo \/ Join
    BY <1>2, <2>2 DEF CancelTimers, StopTcp, StopUdp, CloseUdp, LockIo, StopIo, Join
  <2>3. CASE StopConsole
    BY <1>2, <2>3 DEF StopConsole
  <2>4. CASE CancelInput \/ DetachInput \/ Unwind
    BY <1>2, <2>4 DEF CancelInput, DetachInput, Unwind
  <2>. QED
    BY <1>3, <2>1, <2>2, <2>3, <2>4 DEF MainStep
<1>4. ASSUME NEW w \in Worker, WorkerStep(w) PROVE FileInv'
  <2>1. file' = file /\ settings' = settings /\ at'[Main] = at[Main]
    BY <1>4 DEF WorkerStep, TakeLock, Dequeue, LeaveRun, Callback, CheckRunning, Arm
  <2>. QED
    BY <1>2, <2>1
<1>5. CASE InputStep \/ ReadLine
  <2>1. file' = file /\ settings' = settings /\ at'[Main] = at[Main]
    BY <1>5 DEF InputStep, ReadLine, InputBegins, Prompt, OtherCommand, QuitCommand,
                InputCancelled, InputGoes
  <2>. QED
    BY <1>2, <2>1
<1>6. ASSUME NEW t \in Thread, Signal(t) \/ HandlerStep(t) PROVE FileInv'
  <2>1. file' = file /\ settings' = settings /\ at' = at
    BY <1>6 DEF Signal, HandlerStep, HandlerGoes, SignalStopIo, SignalStopConsole,
                SignalCancelInput, SignalDetachInput
  <2>. QED
    BY <1>2, <2>1
<1>7. ASSUME NEW l \in Loop, Completes(l) PROVE FileInv'
  BY <1>2, <1>7 DEF Completes
<1>8. CASE UNCHANGED vars
  BY <1>2, <1>8 DEF vars
<1>. QED
  BY <1>1, <1>3, <1>4, <1>5, <1>6, <1>7, <1>8 DEF Next, Finished

\* Whatever an INI file says, in any number of lines of the kinds it may have, main
\* works with the last number it gives for each key in the section, and with the
\* defaults where it gives none (ConfigManager::load, get_int).
THEOREM SettingsAreRead == Spec => []SettingsAsWritten
<1>1. LoopInv => Typing
  BY DEF LoopInv
<1>2. LoopInv /\ FileInv /\ [Next]_vars => FileInv'
  BY <1>1, FileLoaded, FileQuiet
<1>3. FileInv => SettingsAsWritten
  BY DEF FileInv
<1>. QED
  BY LoopInit, LoopNext, FileInit, <1>2, <1>3, PTL DEF Spec

----------------------------------------------------------------------------
(* The types.                                                              *)

\* What TypeOK says beyond the loops' and the settings' invariants.
Flags ==
  /\ running \in BOOLEAN /\ ioStopped \in BOOLEAN /\ timersRunning \in BOOLEAN
  /\ udpRunning \in BOOLEAN /\ udpOpen \in BOOLEAN /\ consoleRunning \in BOOLEAN
  /\ joinable \in BOOLEAN /\ inputKnown \in BOOLEAN /\ cancelled \in BOOLEAN
  /\ crashed \in BOOLEAN

Types ==
  /\ LabelsOK
  /\ signals \in 0 .. MaxSignals
  /\ ioLock \in Thread \cup {NoThread}

\* The initial state has the types.
LEMMA TypesInit == Init => Types
<1>. SUFFICES ASSUME Init PROVE Types
  OBVIOUS
<1>1. LabelsOK
  BY SafeInit DEF SafeInv
<1>2. signals \in 0 .. MaxSignals /\ ioLock \in Thread \cup {NoThread}
  BY ProcessAssumption DEF Init
<1>. QED
  BY <1>1, <1>2 DEF Types

\* Workers and operations.
LEMMA TypesWorker ==
  ASSUME Types, \/ \E w \in Worker : WorkerStep(w)
                \/ \E l \in Loop : Completes(l)
  PROVE  Types'
<1>. USE ProcessAssumption
     DEF Types, LabelsOK, Thread, WorkerLabel, Runs, Goes, signalVars, ioVars, loopVars, consoleVars
<1>1. ASSUME NEW w \in Worker, TakeLock(w) \/ LeaveRun(w) \/ Callback(w) \/ Arm(w) PROVE Types'
  BY <1>1 DEF TakeLock, LeaveRun, Callback, Arm
<1>2. ASSUME NEW w \in Worker, NEW l \in Loop, Dequeue(w, l) PROVE Types'
  <2>1. PICK place \in {"callback", "check", "run"} : Goes(w, place)
    BY <1>2 DEF Dequeue
  <2>. QED
    BY <1>2, <2>1 DEF Dequeue
<1>3. ASSUME NEW w \in Worker, CheckRunning(w) PROVE Types'
  BY <1>3 DEF CheckRunning
<1>4. ASSUME NEW l \in Loop, Completes(l) PROVE Types'
  BY <1>4 DEF Completes
<1>. QED
  BY <1>1, <1>2, <1>3, <1>4 DEF WorkerStep

\* main's own steps.
LEMMA TypesMain == ASSUME Types, LoadSettings \/ MainStep PROVE Types'
<1>. USE ProcessAssumption
     DEF Types, LabelsOK, Thread, MainLabel, StartLabel, StopLabel, ConsoleLabel,
         WorkerLabel, InputLabel, MainGoes, Runs, Goes, signalVars, ioVars, loopVars, consoleVars
<1>1. CASE LoadSettings \/ StartServers \/ StartFails \/ StartTimers
  BY <1>1 DEF LoadSettings, StartServers, StartFails, StartTimers
<1>2. CASE StartWorkers
  BY <1>2 DEF StartWorkers
<1>3. CASE StartInputLoop
  BY <1>3 DEF StartInputLoop
<1>4. CASE Wake \/ StopTimers \/ CancelTimers \/ StopTcp
  BY <1>4 DEF Wake, StopTimers, CancelTimers, StopTcp
<1>5. CASE StopUdp \/ CloseUdp \/ LockIo \/ StopIo
  BY <1>5 DEF StopUdp, CloseUdp, LockIo, StopIo
<1>6. CASE Join
  BY <1>6 DEF Join
<1>7. CASE StopConsole
  <2>1. PICK place \in {"cancelInput", "unwind"} : MainGoes("stopConsole", place)
    BY <1>7 DEF StopConsole
  <2>. QED
    BY <1>7, <2>1 DEF StopConsole
<1>8. CASE CancelInput
  BY <1>8 DEF CancelInput, Cancel
<1>9. CASE DetachInput
  BY <1>9 DEF DetachInput, Detach
<1>10. CASE Unwind
  BY <1>10 DEF Unwind
<1>. QED
  BY <1>1, <1>2, <1>3, <1>4, <1>5, <1>6, <1>7, <1>8, <1>9, <1>10 DEF MainStep

\* The input thread.
LEMMA TypesInput == ASSUME Types, InputStep \/ ReadLine PROVE Types'
<1>. USE ProcessAssumption
     DEF Types, LabelsOK, Thread, InputLabel, InputGoes, Runs, Goes, signalVars, ioVars,
         loopVars
<1>1. CASE InputBegins
  BY <1>1 DEF InputBegins
<1>2. CASE Prompt
  <2>1. PICK place \in {"read", "exited"} : InputGoes("prompt", place)
    BY <1>2 DEF Prompt
  <2>. QED
    BY <1>2, <2>1 DEF Prompt
<1>3. CASE ReadLine
  BY <1>3 DEF ReadLine
<1>4. CASE OtherCommand \/ QuitCommand
  BY <1>4 DEF OtherCommand, QuitCommand
<1>5. CASE InputCancelled
  BY <1>5 DEF InputCancelled
<1>. QED
  BY <1>1, <1>2, <1>3, <1>4, <1>5 DEF InputStep

\* A signal, wherever it reaches a thread, and its handler.
LEMMA TypesSignal ==
  ASSUME Types, NEW t \in Thread, Signal(t) \/ HandlerStep(t) PROVE Types'
<1>. USE ProcessAssumption
     DEF Types, LabelsOK, Thread, SignalLabel, HandlerGoes, ioVars, loopVars, consoleVars
<1>1. CASE Signal(t)
  BY <1>1 DEF Signal
<1>2. CASE SignalStopIo(t)
  BY <1>2 DEF SignalStopIo
<1>3. CASE SignalStopConsole(t)
  <2>1. PICK place \in {"cancelInput", "none"} : HandlerGoes(t, "stopConsole", place)
    BY <1>3 DEF SignalStopConsole
  <2>. QED
    BY <1>3, <2>1 DEF SignalStopConsole
<1>4. CASE SignalCancelInput(t)
  BY <1>4 DEF SignalCancelInput, Cancel
<1>5. CASE SignalDetachInput(t)
  BY <1>5 DEF SignalDetachInput, Detach
<1>. QED
  BY <1>1, <1>2, <1>3, <1>4, <1>5 DEF HandlerStep

\* Every step keeps the types.
LEMMA TypesNext == Types /\ [Next]_vars => Types'
<1>. SUFFICES ASSUME Types, [Next]_vars PROVE Types'
  OBVIOUS
<1>1. CASE UNCHANGED vars
  BY <1>1 DEF Types, LabelsOK, vars, fileVars, signalVars, ioVars, loopVars, consoleVars
<1>. QED
  BY <1>1, TypesWorker, TypesMain, TypesInput, TypesSignal DEF Next, Finished

\* The flags are set and cleared.
LEMMA FlagsNext == Flags /\ [Next]_vars => Flags'
<1>. SUFFICES ASSUME Flags, [Next]_vars PROVE Flags'
  OBVIOUS
<1>. USE DEF Flags
<1>1. CASE LoadSettings \/ StartServers \/ StartFails \/ StartTimers \/ StartWorkers
           \/ StartInputLoop
  BY <1>1, Zenon
     DEF LoadSettings, StartServers, StartFails, StartTimers, StartWorkers, StartInputLoop,
         ioVars, loopVars, consoleVars
<1>2. CASE Wake \/ StopTimers \/ CancelTimers \/ StopTcp \/ StopUdp \/ CloseUdp
  BY <1>2, Zenon
     DEF Wake, StopTimers, CancelTimers, StopTcp, StopUdp, CloseUdp, ioVars, loopVars, consoleVars
<1>3. CASE LockIo \/ StopIo \/ Join \/ StopConsole \/ CancelInput \/ DetachInput \/ Unwind
  BY <1>3, Zenon
     DEF LockIo, StopIo, Join, StopConsole, CancelInput, DetachInput, Unwind, Cancel, Detach,
         ioVars, loopVars, consoleVars
<1>4. ASSUME NEW w \in Worker, WorkerStep(w) PROVE Flags'
  <2>1. ASSUME NEW l \in Loop, Dequeue(w, l) PROVE Flags'
    BY <2>1, Zenon DEF Dequeue, consoleVars
  <2>2. CASE TakeLock(w) \/ LeaveRun(w) \/ Callback(w)
    BY <2>2, Zenon DEF TakeLock, LeaveRun, Callback, ioVars, loopVars, consoleVars
  <2>3. CASE CheckRunning(w) \/ Arm(w)
    BY <2>3, Zenon DEF CheckRunning, Arm, ioVars, consoleVars
  <2>. QED
    BY <1>4, <2>1, <2>2, <2>3, Zenon DEF WorkerStep
<1>5. CASE InputStep \/ ReadLine
  BY <1>5, Zenon
     DEF InputStep, ReadLine, InputBegins, Prompt, OtherCommand, QuitCommand, InputCancelled,
         InputGoes, ioVars, loopVars
<1>6. ASSUME NEW t \in Thread, Signal(t) \/ HandlerStep(t) PROVE Flags'
  BY <1>6, Zenon
     DEF Signal, HandlerStep, HandlerGoes, SignalStopIo, SignalStopConsole, SignalCancelInput,
         SignalDetachInput, Cancel, Detach, ioVars, loopVars, consoleVars
<1>7. ASSUME NEW l \in Loop, Completes(l) PROVE Flags'
  BY <1>7, Zenon DEF Completes, ioVars, consoleVars
<1>8. CASE UNCHANGED vars
  BY <1>8, Zenon DEF vars, ioVars, loopVars, consoleVars
<1>. QED
  BY <1>1, <1>2, <1>3, <1>4, <1>5, <1>6, <1>7, <1>8 DEF Next, MainStep, Finished

\* The invariants together give every variable its type.
LEMMA TypesSuffice == LoopInv /\ FileInv /\ Types /\ Flags => TypeOK
<1>. SUFFICES ASSUME LoopInv, FileInv, Types, Flags PROVE TypeOK
  OBVIOUS
<1>1. \A w \in Worker : at[w] \in {"callback", "check", "arm"} => cur[w] \in Loop
  BY DEF LoopInv, Typing, OneChain
<1>2. \A b \in {running, ioStopped, timersRunning, udpRunning, udpOpen, consoleRunning,
                joinable, inputKnown, cancelled, crashed} : b \in BOOLEAN
  BY Zenon DEF Flags
<1>. QED
  BY <1>1, <1>2 DEF TypeOK, LoopInv, Typing, FileInv, Types, LabelsOK

\* Every variable of the process keeps its type, wherever signals strike and
\* however long the file is.
THEOREM ProcessTypeOK == Spec => []TypeOK
<1>1. LoopInv => Typing
  BY DEF LoopInv
<1>2. LoopInv /\ FileInv /\ [Next]_vars => FileInv'
  BY <1>1, FileLoaded, FileQuiet
<1>3. Init => Flags
  BY DEF Init, Flags
<1>. QED
  BY LoopInit, LoopNext, FileInit, <1>2, TypesInit, TypesNext, <1>3, FlagsNext, TypesSuffice,
     PTL DEF Spec

=============================================================================
