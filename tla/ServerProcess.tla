---------------------------- MODULE ServerProcess ----------------------------
(***************************************************************************)
(* The life of the process (src/src/main.cpp): the configuration is read,   *)
(* the UDP receive loop and the timers are started, workers run io_context, *)
(* the console's thread reads commands, and a signal or the quit command    *)
(* makes main stop all of them (TimerManager.cpp, SocketManagerUdp.cpp,     *)
(* ConsoleInterface.cpp).  The TCP side's own stop is in SocketManager.     *)
(*                                                                         *)
(* A signal's handler runs on a thread that is in the middle of something:  *)
(* sig[t] says where the handler is, at[t] where the thread will go on.     *)
(***************************************************************************)
EXTENDS ConfigFile

CONSTANTS
  Worker, Main, Input,   \* the threads
  NoThread,              \* the owner of a mutex nobody holds
  Timer, Udp,            \* the loops: the timers and the UDP receive
  NoLoop,                \* what an idle worker runs
  MaxSignals,            \* bound: signals sent to the process
  SignalPlace            \* bound: where a thread may be when a signal reaches it

ASSUME ProcessAssumption ==
  /\ Main \notin Worker /\ Input \notin Worker /\ Main # Input
  /\ NoThread \notin Worker \cup {Main, Input}
  /\ Udp \notin Timer /\ NoLoop \notin Timer \cup {Udp}
  /\ MaxSignals \in Nat

Thread == Worker \cup {Main, Input}
Loop == Timer \cup {Udp}

StartLabel == {"load", "start", "startTimers", "startWorkers", "startInput", "wait"}
StopLabel == {"stopTimers", "cancelTimers", "stopTcp", "stopUdp", "closeUdp", "stopIo",
              "stoppingIo", "join"}
ConsoleLabel == {"stopConsole", "cancelInput", "detachInput", "unwind", "ended"}
MainLabel == StartLabel \cup StopLabel \cup ConsoleLabel
WorkerLabel == {"none", "run", "dequeue", "callback", "check", "arm", "exited"}
InputLabel == {"none", "begin", "prompt", "read", "command", "exited"}
SignalLabel == {"none", "stopIo", "stopConsole", "cancelInput", "detachInput"}

VARIABLES
  file, settings,            \* ConnectServer.ini, and main's three values
  at,                        \* where a thread is
  sig, signals,              \* where its signal handler is; signals sent
  running,                   \* g_running
  ioLock, ioStopped,         \* io_context's internal mutex; stop() was called
  op,                        \* the operation of a loop
  cur,                       \* the loop whose handler a worker runs
  timersRunning, udpRunning, \* running_ of TimerManager and of SocketManagerUdp
  udpOpen,                   \* socket_ of SocketManagerUdp is open
  late,                      \* history: callbacks of a loop begun after its stop
  consoleRunning,            \* running_ of ConsoleInterface
  joinable, inputKnown,      \* input_thread_.joinable(); input_pthread_ is set
  cancelled,                 \* pthread_cancel reached the input thread
  crashed                    \* std::terminate, or a fault

fileVars == <<file, settings>>
signalVars == <<sig, signals>>
ioVars == <<ioLock, ioStopped>>
loopVars == <<op, cur, timersRunning, udpRunning, udpOpen, late>>
consoleVars == <<consoleRunning, joinable, inputKnown, cancelled, crashed>>
vars == <<fileVars, at, signalVars, running, ioVars, loopVars, consoleVars>>

NoSettings == [port |-> 0, udp |-> 0, limit |-> 0]
NumberInFile == {0, 2, 22, DefaultPort, DefaultUdpPort}

TypeOK ==
  /\ settings \in [port : NumberInFile, udp : NumberInFile, limit : NumberInFile]
  /\ at \in [Thread -> MainLabel \cup WorkerLabel \cup InputLabel]
  /\ at[Main] \in MainLabel /\ at[Input] \in InputLabel
  /\ \A w \in Worker : at[w] \in WorkerLabel
  /\ sig \in [Thread -> SignalLabel] /\ signals \in 0 .. MaxSignals
  /\ ioLock \in Thread \cup {NoThread}
  /\ op \in [Loop -> {"none", "pending", "ok", "error"}]
  /\ cur \in [Worker -> Loop \cup {NoLoop}]
  /\ \A w \in Worker : at[w] \in {"callback", "check", "arm"} => cur[w] \in Loop
  /\ late \in [Loop -> 0 .. 2]
  /\ \A b \in {running, ioStopped, timersRunning, udpRunning, udpOpen, consoleRunning,
               joinable, inputKnown, cancelled, crashed} : b \in BOOLEAN

Init ==
  /\ file \in BoundedSeq(ConfigLine, MaxConfigLines)
  /\ settings = NoSettings
  /\ at = [t \in Thread |-> IF t = Main THEN "load" ELSE "none"]
  /\ sig = [t \in Thread |-> "none"] /\ signals = 0
  /\ running = TRUE
  /\ ioLock = NoThread /\ ioStopped = FALSE
  /\ op = [l \in Loop |-> "none"] /\ cur = [w \in Worker |-> NoLoop]
  /\ timersRunning = FALSE /\ udpRunning = FALSE /\ udpOpen = FALSE
  /\ late = [l \in Loop |-> 0]
  /\ consoleRunning = FALSE /\ joinable = FALSE /\ inputKnown = FALSE
  /\ cancelled = FALSE /\ crashed = FALSE

----------------------------------------------------------------------------
(* Threads.                                                                *)

Alive == ~crashed /\ at[Main] # "ended"

\* t is at a place of its own code, and no signal handler runs on it.
Runs(t, place) == Alive /\ at[t] = place /\ sig[t] = "none"
Goes(t, place) == at' = [at EXCEPT ![t] = place]

LoopRunning(l) == IF l = Udp THEN udpRunning ELSE timersRunning
LockFree == ioLock = NoThread

\* main moves on, and changes nothing of these.
MainGoes(from, to) ==
  /\ Runs(Main, from)
  /\ Goes(Main, to)
  /\ UNCHANGED signalVars

----------------------------------------------------------------------------
(* main, up to its wait.                                                   *)

\* A file that is missing is like an empty one.
LoadSettings ==
  /\ MainGoes("load", "start")
  /\ LET config == LoadConfig([i \in DOMAIN file |-> ConfigText(file[i])])
     IN  settings' = [port  |-> GetInt(config, Section, PortKey, DefaultPort),
                      udp   |-> GetInt(config, Section, UdpKey, DefaultUdpPort),
                      limit |-> GetInt(config, Section, LimitKey, DefaultLimit)]
  /\ consoleRunning' = TRUE
  /\ UNCHANGED <<file, running, ioVars, loopVars, joinable, inputKnown, cancelled, crashed>>

\* Both servers start; their configuration is not read again.
StartServers ==
  /\ MainGoes("start", "startTimers")
  /\ file' = <<>> /\ settings' = NoSettings
  /\ udpRunning' = TRUE /\ udpOpen' = TRUE
  /\ op' = [op EXCEPT ![Udp] = "pending"]
  /\ UNCHANGED <<running, ioVars, cur, timersRunning, late, consoleVars>>

\* A port that cannot be bound: main returns 1.
StartFails ==
  /\ MainGoes("start", "unwind")
  /\ file' = <<>> /\ settings' = NoSettings
  /\ UNCHANGED <<running, ioVars, loopVars, consoleVars>>

StartTimers ==
  /\ MainGoes("startTimers", "startWorkers")
  /\ timersRunning' = TRUE
  /\ op' = [l \in Loop |-> IF l \in Timer THEN "pending" ELSE op[l]]
  /\ UNCHANGED <<fileVars, running, ioVars, cur, udpRunning, udpOpen, late, consoleVars>>

StartWorkers ==
  /\ Runs(Main, "startWorkers")
  /\ at' = [t \in Thread |-> IF t = Main THEN "startInput" ELSE
                             IF t \in Worker THEN "run" ELSE at[t]]
  /\ UNCHANGED <<fileVars, signalVars, running, ioVars, loopVars, consoleVars>>

StartInputLoop ==
  /\ Runs(Main, "startInput")
  /\ at' = [at EXCEPT ![Main] = "wait", ![Input] = "begin"]
  /\ joinable' = TRUE
  /\ UNCHANGED <<fileVars, signalVars, running, ioVars, loopVars,
                 consoleRunning, inputKnown, cancelled, crashed>>

\* Mutant: main waits for the io_context to be stopped.
WakeWhenStopped ==
  /\ ioStopped
  /\ MainGoes("wait", "stopTimers")
  /\ UNCHANGED <<fileVars, running, ioVars, loopVars, consoleVars>>

\* The 100 ms poll of g_running.
Wake ==
  /\ ~running
  /\ MainGoes("wait", "stopTimers")
  /\ UNCHANGED <<fileVars, running, ioVars, loopVars, consoleVars>>

----------------------------------------------------------------------------
(* The workers, and the loops they run.                                    *)

Ready(l) == op[l] \in {"ok", "error"}

\* What a loop waits for happens; a receive may also fail.
Completes(l) ==
  /\ Alive /\ op[l] = "pending"
  /\ \E outcome \in IF l = Udp THEN {"ok", "error"} ELSE {"ok"} :
       op' = [op EXCEPT ![l] = outcome]
  /\ UNCHANGED <<fileVars, at, signalVars, running, ioVars, cur, timersRunning, udpRunning,
                 udpOpen, late, consoleVars>>

\* io_context::run takes the mutex when there is something to do.
TakeLock(w) ==
  /\ Runs(w, "run") /\ LockFree
  /\ ioStopped \/ \E l \in Loop : Ready(l)
  /\ ioLock' = w
  /\ Goes(w, "dequeue")
  /\ UNCHANGED <<fileVars, signalVars, running, ioStopped, loopVars, consoleVars>>

\* It takes a completed operation and lets go of the mutex.  A handler that is
\* given an error calls nobody, and only that of the receive goes on.
Dequeue(w, l) ==
  /\ Runs(w, "dequeue") /\ ~ioStopped /\ Ready(l)
  /\ ioLock' = NoThread
  /\ op' = [op EXCEPT ![l] = "none"]
  /\ IF op[l] = "ok" THEN Goes(w, "callback")
     ELSE Goes(w, IF l = Udp THEN "check" ELSE "run")
  /\ cur' = [cur EXCEPT ![w] = IF op[l] = "ok" \/ l = Udp THEN l ELSE NoLoop]
  /\ late' = [late EXCEPT ![l] =
                IF op[l] = "ok" /\ ~LoopRunning(l) /\ late[l] < 2 THEN @ + 1 ELSE @]
  /\ UNCHANGED <<fileVars, signalVars, running, ioStopped, timersRunning, udpRunning, udpOpen,
                 consoleVars>>

\* io_context::run returns, and the thread ends.
LeaveRun(w) ==
  /\ Runs(w, "dequeue") /\ ioStopped
  /\ ioLock' = NoThread
  /\ Goes(w, "exited")
  /\ UNCHANGED <<fileVars, signalVars, running, ioStopped, loopVars, consoleVars>>

\* MainProc, the empty callback of the other timer, or parse_udp_packets.
Callback(w) ==
  /\ Runs(w, "callback")
  /\ Goes(w, "check")
  /\ UNCHANGED <<fileVars, signalVars, running, ioVars, loopVars, consoleVars>>

\* Mutant: the timers and the receive are armed again without a look at running_.
CheckNothing(w) ==
  /\ Runs(w, "check")
  /\ Goes(w, "arm")
  /\ UNCHANGED <<fileVars, signalVars, running, ioVars, loopVars, consoleVars>>

\* Mutant: an error ends the receive loop.
CheckAfterError(w) ==
  /\ Runs(w, "check")
  /\ Goes(w, "run") /\ cur' = [cur EXCEPT ![w] = NoLoop]
  /\ UNCHANGED <<fileVars, signalVars, running, ioVars, op, timersRunning, udpRunning,
                 udpOpen, late, consoleVars>>

\* The look at running_, in schedule_..._timer and in start_receive.
CheckRunning(w) ==
  /\ Runs(w, "check")
  /\ IF LoopRunning(cur[w])
     THEN Goes(w, "arm") /\ UNCHANGED cur
     ELSE Goes(w, "run") /\ cur' = [cur EXCEPT ![w] = NoLoop]
  /\ UNCHANGED <<fileVars, signalVars, running, ioVars, op, timersRunning, udpRunning,
                 udpOpen, late, consoleVars>>

\* The next wait or receive; on a socket that was closed meanwhile it fails.
Arm(w) ==
  /\ Runs(w, "arm")
  /\ op' = [op EXCEPT ![cur[w]] = IF cur[w] = Udp /\ ~udpOpen THEN "error" ELSE "pending"]
  /\ cur' = [cur EXCEPT ![w] = NoLoop]
  /\ Goes(w, "run")
  /\ UNCHANGED <<fileVars, signalVars, running, ioVars, timersRunning, udpRunning, udpOpen,
                 late, consoleVars>>

----------------------------------------------------------------------------
(* main's shutdown.                                                        *)

\* TimerManager::stop clears running_ and then cancels; a handler that has been
\* queued, or looked at running_ before, is out of its reach.
StopTimers ==
  /\ MainGoes("stopTimers", "cancelTimers")
  /\ timersRunning' = FALSE
  /\ UNCHANGED <<fileVars, running, ioVars, op, cur, udpRunning, udpOpen, late, consoleVars>>

CancelTimers ==
  /\ LockFree
  /\ MainGoes("cancelTimers", "stopTcp")
  /\ op' = [l \in Loop |-> IF l \in Timer /\ op[l] = "pending" THEN "error" ELSE op[l]]
  /\ UNCHANGED <<fileVars, running, ioVars, cur, timersRunning, udpRunning, udpOpen, late,
                 consoleVars>>

\* SocketManager::stop.
StopTcp ==
  /\ MainGoes("stopTcp", "stopUdp")
  /\ UNCHANGED <<fileVars, running, ioVars, loopVars, consoleVars>>

StopUdp ==
  /\ MainGoes("stopUdp", "closeUdp")
  /\ udpRunning' = FALSE
  /\ UNCHANGED <<fileVars, running, ioVars, op, cur, timersRunning, udpOpen, late, consoleVars>>

CloseUdp ==
  /\ LockFree
  /\ MainGoes("closeUdp", "stopIo")
  /\ udpOpen' = FALSE
  /\ op' = [op EXCEPT ![Udp] = IF @ = "pending" THEN "error" ELSE @]
  /\ UNCHANGED <<fileVars, running, ioVars, cur, timersRunning, udpRunning, late, consoleVars>>

\* io_context::stop takes its mutex,
LockIo ==
  /\ LockFree
  /\ MainGoes("stopIo", "stoppingIo")
  /\ ioLock' = Main
  /\ UNCHANGED <<fileVars, running, ioStopped, loopVars, consoleVars>>

\* and lets go of it.
StopIo ==
  /\ MainGoes("stoppingIo", "join")
  /\ ioLock' = NoThread /\ ioStopped' = TRUE
  /\ UNCHANGED <<fileVars, running, loopVars, consoleVars>>

Join ==
  /\ \A w \in Worker : at[w] = "exited"
  /\ MainGoes("join", "stopConsole")
  /\ UNCHANGED <<fileVars, running, ioVars, loopVars, consoleVars>>

----------------------------------------------------------------------------
(* ConsoleInterface::stop, which main, its destructor and the signal        *)
(* handler call, and the input thread.                                     *)

\* pthread_cancel of an id that is not set, or that of a thread that is gone,
\* may do anything.
Cancel ==
  IF inputKnown /\ (joinable \/ at[Input] # "exited")
  THEN cancelled' = TRUE /\ UNCHANGED crashed
  ELSE crashed' \in BOOLEAN /\ UNCHANGED cancelled

\* std::thread::detach throws if there is nothing to detach, and nobody catches.
Detach == joinable' = FALSE /\ crashed' = ~joinable

\* Mutant: stop() does not ask whether the input thread is still there.
StopConsoleAlways ==
  /\ MainGoes("stopConsole", "cancelInput")
  /\ consoleRunning' = FALSE
  /\ UNCHANGED <<fileVars, running, ioVars, loopVars, joinable, inputKnown, cancelled, crashed>>

StopConsole ==
  /\ MainGoes("stopConsole", IF joinable THEN "cancelInput" ELSE "unwind")
  /\ consoleRunning' = FALSE
  /\ UNCHANGED <<fileVars, running, ioVars, loopVars, joinable, inputKnown, cancelled, crashed>>

CancelInput ==
  /\ MainGoes("cancelInput", "detachInput")
  /\ Cancel
  /\ UNCHANGED <<fileVars, running, ioVars, loopVars, consoleRunning, joinable, inputKnown>>

DetachInput ==
  /\ MainGoes("detachInput", "unwind")
  /\ Detach
  /\ UNCHANGED <<fileVars, running, ioVars, loopVars, consoleRunning, inputKnown, cancelled>>

\* The locals of main are destroyed.  A worker that still runs, or an input
\* thread that is still joinable, would end the process by std::terminate.
Unwind ==
  /\ MainGoes("unwind", "ended")
  /\ consoleRunning' = FALSE
  /\ crashed' = \/ joinable
                \/ \E w \in Worker : at[w] \notin {"none", "exited"}
  /\ UNCHANGED <<fileVars, running, ioVars, loopVars, joinable, inputKnown, cancelled>>

InputGoes(from, to) ==
  /\ Runs(Input, from)
  /\ Goes(Input, to)
  /\ UNCHANGED <<fileVars, signalVars, ioVars, loopVars, joinable, cancelled, crashed>>

InputBegins ==
  /\ InputGoes("begin", "prompt")
  /\ inputKnown' = TRUE
  /\ UNCHANGED <<running, consoleRunning>>

Prompt ==
  /\ InputGoes("prompt", IF consoleRunning THEN "read" ELSE "exited")
  /\ UNCHANGED <<running, consoleRunning, inputKnown>>

\* A line, an empty line, or the end of the input, after which nothing is read.
ReadLine ==
  /\ \E next \in {"command", "prompt", "exited"} : InputGoes("read", next)
  /\ UNCHANGED <<running, consoleRunning, inputKnown>>

OtherCommand ==
  /\ InputGoes("command", "prompt")
  /\ UNCHANGED <<running, consoleRunning, inputKnown>>

QuitCommand ==
  /\ InputGoes("command", "prompt")
  /\ running' = FALSE /\ consoleRunning' = FALSE
  /\ UNCHANGED inputKnown

\* Every one of these reads from or writes to the terminal, where a cancelled
\* thread ends.
InputCancelled ==
  /\ cancelled
  /\ \E place \in {"prompt", "read", "command"} : InputGoes(place, "exited")
  /\ UNCHANGED <<running, consoleRunning, inputKnown>>

----------------------------------------------------------------------------
(* signal_handler.                                                         *)

\* Main sleeps nearly always, and then it is main that a signal interrupts; but the
\* system may choose any moment and any thread, those of start-up, of the console's
\* stop and of the destructors too, where the code is not ready for it: SignalPlace
\* says which of them a run or a theorem is about.  "begin" in it says that the input
\* thread need not have stored its id.
MayInterrupt(t) ==
  /\ at[t] \in SignalPlace \ {"none", "exited", "ended"}
  /\ at[Input] = "begin" => "begin" \in SignalPlace

\* Before main has made them there is no io_context and no console to stop.
Signal(t) ==
  /\ Alive /\ signals < MaxSignals /\ sig[t] = "none" /\ MayInterrupt(t)
  /\ signals' = signals + 1
  /\ running' = FALSE
  /\ sig' = [sig EXCEPT ![t] = IF at[Main] = "load" THEN "none" ELSE "stopIo"]
  /\ UNCHANGED <<fileVars, at, ioVars, loopVars, consoleVars>>

HandlerGoes(t, from, to) ==
  /\ Alive /\ sig[t] = from
  /\ sig' = [sig EXCEPT ![t] = to]
  /\ UNCHANGED <<fileVars, at, signals, running, ioLock, loopVars, inputKnown>>

\* io_context::stop waits for the mutex, be it held by the very thread that was
\* interrupted.  After main's end the io_context is gone.
SignalStopIo(t) ==
  /\ LockFree
  /\ HandlerGoes(t, "stopIo", "stopConsole")
  /\ ioStopped' = TRUE
  /\ IF at[Main] = "unwind" THEN crashed' \in BOOLEAN ELSE UNCHANGED crashed
  /\ UNCHANGED <<consoleRunning, joinable, cancelled>>

\* Mutant: the handler does not ask whether the input thread is still there.
SignalStopConsoleAlways(t) ==
  /\ HandlerGoes(t, "stopConsole", "cancelInput")
  /\ consoleRunning' = FALSE
  /\ UNCHANGED <<ioStopped, joinable, cancelled, crashed>>

SignalStopConsole(t) ==
  /\ HandlerGoes(t, "stopConsole", IF joinable THEN "cancelInput" ELSE "none")
  /\ consoleRunning' = FALSE
  /\ UNCHANGED <<ioStopped, joinable, cancelled, crashed>>

SignalCancelInput(t) ==
  /\ HandlerGoes(t, "cancelInput", "detachInput")
  /\ Cancel
  /\ UNCHANGED <<ioStopped, consoleRunning, joinable>>

SignalDetachInput(t) ==
  /\ HandlerGoes(t, "detachInput", "none")
  /\ Detach
  /\ UNCHANGED <<ioStopped, consoleRunning, cancelled>>

----------------------------------------------------------------------------
(* The specification.                                                      *)

WorkerStep(w) ==
  \/ TakeLock(w) \/ \E l \in Loop : Dequeue(w, l)
  \/ LeaveRun(w) \/ Callback(w) \/ CheckRunning(w) \/ Arm(w)

MainStep ==
  \/ StartServers \/ StartFails \/ StartTimers \/ StartWorkers \/ StartInputLoop \/ Wake
  \/ StopTimers \/ CancelTimers \/ StopTcp \/ StopUdp \/ CloseUdp \/ LockIo \/ StopIo \/ Join
  \/ StopConsole \/ CancelInput \/ DetachInput \/ Unwind

InputStep == InputBegins \/ Prompt \/ OtherCommand \/ QuitCommand \/ InputCancelled

HandlerStep(t) ==
  SignalStopIo(t) \/ SignalStopConsole(t) \/ SignalCancelInput(t) \/ SignalDetachInput(t)

Finished == ~Alive /\ UNCHANGED vars

Next ==
  \/ LoadSettings \/ MainStep
  \/ \E w \in Worker : WorkerStep(w)
  \/ InputStep \/ ReadLine
  \/ \E t \in Thread : Signal(t) \/ HandlerStep(t)
  \/ \E l \in Loop : Completes(l)
  \/ Finished

Spec == Init /\ [][Next]_vars

\* The scheduler runs every thread, and who waits for the mutex gets it in the end
\* (strong fairness, since it may be found taken time and again).  A completed
\* operation does not wait for ever behind others: io_context's queue is first-in
\* first-out.  Nobody need type or send a signal, and nothing is promised of a
\* process that has not read its configuration.
Fairness ==
  /\ SF_vars(MainStep \/ HandlerStep(Main))
  /\ SF_vars(InputStep \/ HandlerStep(Input))
  /\ \A w \in Worker : SF_vars(WorkerStep(w) \/ HandlerStep(w))
  /\ \A l \in Loop : SF_vars(\E w \in Worker : Dequeue(w, l))

FairSpec == Spec /\ Fairness

----------------------------------------------------------------------------
(* Properties.                                                             *)

\* main works with the numbers the file gives last for its keys, in their
\* section, and with its defaults where the file gives none (load, get_int).
SettingsAsWritten ==
  at[Main] = "start" =>
    settings = [port |-> Written(file, PortKey, DefaultPort),
                udp   |-> Written(file, UdpKey, DefaultUdpPort),
                limit |-> Written(file, LimitKey, DefaultLimit)]

\* After a loop has been stopped its callback begins at most once more, though a
\* handler between its look at running_ and the next async operation is out of
\* reach of the cancel, and arms the loop again (TimerManager::stop,
\* SocketManagerUdp::stop, schedule_1s_timer, start_receive).
OneCallbackAfterStop == \A l \in Loop : late[l] <= 1

\* Signals that interrupt main in its wait or before, between and after the calls by
\* which it stops timers, sockets, io_context and workers, and a quit command at any
\* time, do not end the process by std::terminate: handler and main each stop the
\* console, but the input thread is cancelled and detached once, with an id that is
\* its own, and no thread object is destroyed while its thread may run
\* (ConsoleInterface::stop, signal_handler, main).  Nothing is claimed of the places
\* that SignalPlace leaves out.  The code does crash at some of them: a handler that
\* runs on main between joinable() and detach() (ConsoleInterface.cpp:84-88) detaches
\* first, and main's own detach then throws.
NeverTerminates == ~crashed

\* The server stops in good order: after a signal or the quit command main
\* returns, with the workers joined and every loop stopped (signal_handler,
\* process_command, main).
ShutdownCompletes == ~running ~> (at[Main] = "ended" /\ ~crashed)

\* While the server runs, its timers and its receive are armed again and again:
\* no error ends the loop of one (handle_receive, schedule_1s_timer).
LoopsGoOn == \A l \in Loop : []<>(at[Main] = "wait" /\ running => op[l] = "pending")

=============================================================================
