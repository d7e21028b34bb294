-------------------------- MODULE ServerListProofs --------------------------
(***************************************************************************)
(* Theorems about ServerList, for any number of workers and servers, any    *)
(* timeout and any clock width: its types, and that heartbeats and timeout  *)
(* scans are each one chain, whatever the interleaving.  For one worker,    *)
(* that the list implements HeartbeatMonitor.                               *)
(***************************************************************************)
EXTENDS ServerList, TLAPS

\* The places of the scan at which `it' stands at a server of the list.
AtServer(w) == at[w] \in {"compare", "offline", "offlineTime"}

\* The indices the handlers use are those of sources.
InRange ==
  /\ \A w \in Worker : InReceive(w) => packet \in Source
  /\ \A w \in Worker : AtServer(w) => it \in Source

Inv == TypeOK /\ InRange /\ OneReceiveChain /\ OneTimerChain

\* Nothing is running initially.
LEMMA InvInit == Init => Inv
<1>. SUFFICES ASSUME Init PROVE Inv
  OBVIOUS
<1>. USE ServerListAssumption DEF Init, Tick, Source, Unknown, MaxSilence
<1>1. TypeOK
  BY DEF TypeOK
<1>2. InRange
  BY DEF InRange, InReceive, AtServer
<1>3. OneReceiveChain /\ OneTimerChain
  BY DEF OneReceiveChain, OneTimerChain, InReceive, InMainProc
<1>. QED
  BY <1>1, <1>2, <1>3 DEF Inv

\* The clock, the network and the timer's expiry.
LEMMA InvEnvironment ==
  ASSUME Inv, TickClock \/ Receive \/ ReceiveFails \/ TimerExpires
  PROVE  Inv'
<1>. USE ServerListAssumption DEF Inv, clockVars, listVars
<1>1. CASE TickClock
  <2>. USE <1>1 DEF TickClock
  <2>1. now' \in Tick
    BY DEF TypeOK, Tick
  <2>2. elapsed' \in 0 .. Period + Late
    BY DEF TypeOK
  <2>3. silence' \in [Source -> 0 .. MaxSilence]
    BY DEF TypeOK, MaxSilence
  <2>4. TypeOK'
    BY <2>1, <2>2, <2>3 DEF TypeOK
  <2>5. InRange' /\ OneReceiveChain' /\ OneTimerChain'
    BY DEF InRange, OneReceiveChain, OneTimerChain, InReceive, InMainProc, AtServer
  <2>. QED
    BY <2>4, <2>5
<1>2. CASE Receive \/ ReceiveFails
  <2>. USE <1>2 DEF Receive, ReceiveFails
  <2>1. TypeOK'
    BY DEF TypeOK
  <2>2. InRange' /\ OneReceiveChain' /\ OneTimerChain'
    BY DEF InRange, OneReceiveChain, OneTimerChain, InReceive, InMainProc, AtServer
  <2>. QED
    BY <2>1, <2>2
<1>3. CASE TimerExpires
  <2>. USE <1>3 DEF TimerExpires
  <2>1. TypeOK'
    BY DEF TypeOK
  <2>2. InRange' /\ OneReceiveChain' /\ OneTimerChain'
    BY DEF InRange, OneReceiveChain, OneTimerChain, InReceive, InMainProc, AtServer
  <2>. QED
    BY <2>1, <2>2
<1>. QED
  BY <1>1, <1>2, <1>3

\* The receive handler.  It ends by arming the one next receive.
LEMMA InvUdp ==
  ASSUME Inv, NEW w \in Worker, UdpStep(w)
  PROVE  Inv'
<1>. USE ServerListAssumption DEF Inv, clockVars, listVars, Goto, UdpStep,
         HandleReceiveIgnored, HandleReceive, LiveState, LiveTick, LiveTime
<1>1. TypeOK'
  <2>1. at' \in [Worker -> {"idle", "live", "liveTick", "liveTime",
                            "check", "compare", "offline", "offlineTime"}]
    BY DEF TypeOK
  <2>2. silence' \in [Source -> 0 .. MaxSilence]
    BY DEF TypeOK, MaxSilence
  <2>3. tick' \in [Worker -> Tick]
    BY DEF TypeOK
  <2>4. serverState' \in [Source -> BOOLEAN] /\ stateTime' \in [Source -> Tick]
    BY DEF TypeOK
  <2>. QED
    BY <2>1, <2>2, <2>3, <2>4 DEF TypeOK
<1>2. InRange'
  BY DEF InRange, InReceive, AtServer, TypeOK, Unknown
<1>3. OneReceiveChain'
  BY DEF OneReceiveChain, InReceive, TypeOK
<1>4. OneTimerChain'
  BY DEF OneTimerChain, InMainProc, TypeOK
<1>. QED
  BY <1>1, <1>2, <1>3, <1>4

\* The timer's handler.  It ends by setting the timer.
LEMMA InvTimer ==
  ASSUME Inv, NEW w \in Worker, TimerStep(w)
  PROVE  Inv'
<1>. USE ServerListAssumption DEF Inv, clockVars, listVars, Goto, TimerStep,
         HandleTimer, CheckOffline, CheckOnline, CompareRecent, CompareExpired,
         Offline, OfflineTime, MainProcDone
<1>1. TypeOK'
  <2>1. at' \in [Worker -> {"idle", "live", "liveTick", "liveTime",
                            "check", "compare", "offline", "offlineTime"}]
    BY DEF TypeOK
  <2>2. it' \in 0 .. NumServers + 1
    BY DEF TypeOK, InRange, AtServer, Source
  <2>3. tick' \in [Worker -> Tick]
    BY DEF TypeOK
  <2>4. serverState' \in [Source -> BOOLEAN]
    BY DEF TypeOK
  <2>5. 0 \in Tick
    BY DEF Tick
  <2>6. stateTime' \in [Source -> Tick]
    BY <2>5 DEF TypeOK
  <2>7. elapsed' \in 0 .. Period + Late
    BY DEF TypeOK
  <2>. QED
    BY <2>1, <2>2, <2>3, <2>4, <2>6, <2>7 DEF TypeOK
<1>2. InRange'
  BY DEF InRange, InReceive, AtServer, TypeOK, OneTimerChain, InMainProc, Source
<1>3. OneReceiveChain'
  BY DEF OneReceiveChain, InReceive, TypeOK
<1>4. OneTimerChain'
  BY DEF OneTimerChain, InMainProc, TypeOK
<1>. QED
  BY <1>1, <1>2, <1>3, <1>4

\* Every step preserves the invariant.
LEMMA InvNext == Inv /\ [Next]_vars => Inv'
<1>. SUFFICES ASSUME Inv, [Next]_vars PROVE Inv'
  OBVIOUS
<1>1. CASE UNCHANGED vars
  BY <1>1 DEF Inv, TypeOK, InRange, OneReceiveChain, OneTimerChain, InReceive,
              InMainProc, AtServer, vars
<1>2. CASE Next
  BY <1>2, InvEnvironment, InvUdp, InvTimer DEF Next
<1>. QED
  BY <1>1, <1>2

\* The inductive invariant.
LEMMA Invariance == Spec => []Inv
  BY InvInit, InvNext, PTL DEF Spec

\* The server list's state stays well typed: the iterator within the list, the
\* times within the clock's range.
THEOREM ListTypeCorrect == Spec => []TypeOK
<1>1. Inv => TypeOK
  BY DEF Inv
<1>. QED
  BY Invariance, <1>1, PTL

\* With any number of workers one datagram is processed at a time, and the
\* receive loop never ends.
THEOREM ReceivesAreOneChain == Spec => []OneReceiveChain
<1>1. Inv => OneReceiveChain
  BY DEF Inv
<1>. QED
  BY Invariance, <1>1, PTL

\* With any number of workers MainProc never runs twice at once, and the timer
\* is always set again.
THEOREM ScansAreOneChain == Spec => []OneTimerChain
<1>1. Inv => OneTimerChain
  BY DEF Inv
<1>. QED
  BY Invariance, <1>1, PTL

----------------------------------------------------------------------------
(* With one worker the list is a heartbeat monitor.                        *)
(*                                                                         *)
(* A time stamp is as old as the silence of its source, but for the delay   *)
(* of the handler that stores it, and every scan that leaves a source       *)
(* online saw a stamp of at most Timeout.  Between two scans pass at most   *)
(* Period + Late, and the handler's delay is no longer, since the one       *)
(* worker that runs it runs the scans too.                                  *)

OneWorker == \A v, w \in Worker : v = w

\* Timer rounds are Period + Late apart; a scan and the handler of a heartbeat
\* each add a round, and a scan may be late for what it compares.
GraceCoversTwoRounds == 2 * (Period + Late) + Late <= Grace

\* The age of a source's time stamp.
Age(s) == Since(now, stateTime[s])

\* An online source whose time stamp is stored.
Settled(s) ==
  /\ serverState[s]
  /\ \A w \in Worker : at[w] \in {"liveTick", "liveTime"} => packet # s

\* A time stamp is no older than the heartbeat it stands for, at most a round
\* younger, and was recent when the last scan looked at it.
AgesBounded ==
  \A s \in Source : Settled(s) =>
    /\ Age(s) <= silence[s] /\ silence[s] <= Age(s) + Period + Late
    /\ Age(s) <= Timeout + Late + elapsed

\* The sources the running scan has passed were recent when it looked.
PassedIsRecent ==
  \A w \in Worker : InMainProc(w) =>
    \A s \in Source : Settled(s) /\ s < it => Age(s) + Period <= Timeout + elapsed

\* A heartbeat is stamped in the timer round it came in, after it came.
BeatInRound ==
  \A w \in Worker :
    /\ at[w] \in {"liveTick", "liveTime"} =>
         serverState[packet] /\ silence[packet] <= elapsed
    /\ at[w] = "liveTime" => Since(now, tick[w]) <= silence[packet]

\* A scan runs when its period is over.
ScanIsDue ==
  timer = "expired" \/ (\E w \in Worker : InMainProc(w)) => elapsed >= Period

\* The clock the scan compares with was read in this scan, after the stamp.
ComparesNow ==
  \A w \in Worker : at[w] = "compare" =>
    /\ serverState[it]
    /\ Since(now, tick[w]) <= Age(it) /\ Since(now, tick[w]) + Period <= elapsed

\* Who is marked offline has its time stamp cleared only then.
MarkedBeforeCleared ==
  \A w \in Worker : at[w] = "offlineTime" => ~serverState[it]

\* Who is marked offline has been silent for more than Timeout.
ExpiresTheSilent ==
  \A w \in Worker : at[w] = "offline" => serverState[it] /\ silence[it] > Timeout

HeartbeatInv ==
  /\ AgesBounded /\ PassedIsRecent /\ BeatInRound
  /\ ScanIsDue /\ ComparesNow /\ ExpiresTheSilent /\ MarkedBeforeCleared

\* The remainder of a difference of two clock values.
LEMMA SinceValue ==
  ASSUME NEW t \in Tick, NEW t0 \in Tick
  PROVE  Since(t, t0) = IF t >= t0 THEN t - t0 ELSE t - t0 + ClockMod
<1>. USE ServerListAssumption DEF Tick, Since
<1>1. CASE t >= t0
  <2>1. t - t0 \in 0 .. ClockMod - 1
    BY <1>1
  <2>. QED
    BY <1>1, <2>1
<1>2. CASE t < t0
  <2>1. t - t0 \in Int /\ -ClockMod <= t - t0 /\ t - t0 < 0 /\ ClockMod > 0
    BY <1>2
  <2>2. \A x \in Int : -ClockMod <= x /\ x < 0 => x % ClockMod = x + ClockMod
    BY <2>1
  <2>. QED
    BY <1>2, <2>1, <2>2
<1>. QED
  BY <1>1, <1>2

\* The clock moves on by one, and starts again.
LEMMA NextTick ==
  ASSUME NEW t \in Tick
  PROVE  (t + 1) % ClockMod = IF t + 1 < ClockMod THEN t + 1 ELSE 0
<1>. USE ServerListAssumption DEF Tick
<1>1. CASE t + 1 < ClockMod
  <2>1. t + 1 \in 0 .. ClockMod - 1
    BY <1>1
  <2>. QED
    BY <1>1, <2>1
<1>2. CASE t + 1 = ClockMod
  <2>1. ClockMod % ClockMod = 0
    OBVIOUS
  <2>. QED
    BY <1>2, <2>1
<1>. QED
  BY <1>1, <1>2

\* No time has passed since now.
LEMMA SinceItself == ASSUME NEW t \in Tick PROVE Since(t, t) = 0
  BY SinceValue DEF Tick

\* A tick of the clock makes a time stamp one older, however the clock wraps.
LEMMA SinceGrows ==
  ASSUME NEW t \in Tick, NEW t0 \in Tick, Since(t, t0) + 1 < ClockMod
  PROVE  Since((t + 1) % ClockMod, t0) = Since(t, t0) + 1
<1>1. (t + 1) % ClockMod \in Tick
  BY NextTick, ServerListAssumption DEF Tick
<1>. QED
  BY <1>1, SinceValue, NextTick, ServerListAssumption DEF Tick

\* The time between two stamps is the difference of their ages.
LEMMA SinceBetween ==
  ASSUME NEW t \in Tick, NEW t1 \in Tick, NEW t0 \in Tick,
         Since(t, t1) <= Since(t, t0)
  PROVE  Since(t1, t0) = Since(t, t0) - Since(t, t1)
  BY SinceValue, ServerListAssumption DEF Tick

\* The time since a stamp is a number.
LEMMA SinceType ==
  ASSUME NEW t \in Tick, NEW t0 \in Tick
  PROVE  Since(t, t0) \in Nat /\ Since(t, t0) < ClockMod
  BY SinceValue, ServerListAssumption DEF Tick

\* Nobody is online initially, nothing runs.
LEMMA HeartbeatInit == Init => HeartbeatInv
  BY DEF Init, HeartbeatInv, AgesBounded, PassedIsRecent, BeatInRound, ScanIsDue,
         ComparesNow, ExpiresTheSilent, MarkedBeforeCleared, Settled, InMainProc

\* The numbers the arithmetic below is about.
LEMMA HeartbeatTypes ==
  ASSUME Inv
  PROVE  /\ now \in Tick /\ elapsed \in Nat /\ elapsed <= Period + Late
         /\ Period \in Nat /\ Late \in Nat /\ Timeout \in Nat /\ Grace \in Nat
         /\ ClockMod \in Nat /\ MaxSilence = Timeout + Grace + 1
         /\ MaxSilence < ClockMod
         /\ \A s \in Source : /\ silence[s] \in Nat /\ silence[s] <= MaxSilence
                              /\ stateTime[s] \in Tick
                              /\ Age(s) \in Nat /\ Age(s) < ClockMod
         /\ \A w \in Worker : /\ tick[w] \in Tick
                              /\ Since(now, tick[w]) \in Nat
                              /\ Since(now, tick[w]) < ClockMod
  BY SinceType, ServerListAssumption DEF Inv, TypeOK, Age, MaxSilence

\* A tick of the clock: every bound moves with it, and nobody who is online has
\* been silent for too long.
LEMMA HeartbeatTick ==
  ASSUME Inv, HeartbeatInv, OneWorker, GraceCoversTwoRounds, TickClock
  PROVE  HeartbeatInv' /\ Monitor!Pass
<1>. USE DEF HeartbeatInv
<1>1. elapsed < Period + Late /\ elapsed' = elapsed + 1
  BY DEF TickClock, Inv, OneTimerChain
<1>2. /\ now' = (now + 1) % ClockMod
      /\ UNCHANGED <<serverState, stateTime, timer, it, at, tick, packet>>
  BY DEF TickClock, listVars
<1>3. \A s \in Source : Settled(s)' <=> Settled(s)
  BY <1>2 DEF Settled
<1>4. ASSUME NEW s \in Source, serverState[s]
      PROVE  silence[s] < Timeout + Grace
  <2>1. CASE Settled(s)
    BY <2>1, <1>1, <1>4, HeartbeatTypes DEF AgesBounded, GraceCoversTwoRounds
  <2>2. CASE ~Settled(s)
    <3>1. PICK w \in Worker : at[w] \in {"liveTick", "liveTime"} /\ packet = s
      BY <2>2, <1>4 DEF Settled
    <3>2. silence[s] <= elapsed
      BY <3>1 DEF BeatInRound
    <3>. QED
      BY <3>2, <1>1, HeartbeatTypes DEF GraceCoversTwoRounds
  <2>. QED
    BY <2>1, <2>2
<1>5. ASSUME NEW s \in Source, serverState[s]
      PROVE  silence'[s] = silence[s] + 1
  BY <1>4, <1>5, HeartbeatTypes DEF TickClock
<1>6. ASSUME NEW s \in Source, Settled(s)
      PROVE  Age(s)' = Age(s) + 1
  <2>1. Age(s) + 1 < ClockMod
    BY <1>1, <1>6, HeartbeatTypes DEF AgesBounded, GraceCoversTwoRounds
  <2>2. Since((now + 1) % ClockMod, stateTime[s]) = Since(now, stateTime[s]) + 1
    BY <2>1, SinceGrows, HeartbeatTypes DEF Age
  <2>. QED
    BY <2>2, <1>2 DEF Age
<1>7. ASSUME NEW w \in Worker, Since(now, tick[w]) + 1 < ClockMod
      PROVE  Since(now, tick[w])' = Since(now, tick[w]) + 1
  BY <1>7, <1>2, SinceGrows, HeartbeatTypes
<1>8. AgesBounded'
  BY <1>1, <1>3, <1>5, <1>6, HeartbeatTypes DEF AgesBounded, Settled
<1>9. PassedIsRecent'
  BY <1>1, <1>2, <1>3, <1>6, HeartbeatTypes DEF PassedIsRecent, InMainProc
<1>10. BeatInRound'
  <2>. SUFFICES ASSUME NEW w \in Worker, at[w] \in {"liveTick", "liveTime"}
                PROVE  /\ serverState[packet] /\ silence'[packet] <= elapsed'
                       /\ at[w] = "liveTime" =>
                            Since(now, tick[w])' <= silence'[packet]
    BY <1>2 DEF BeatInRound
  <2>1. packet \in Source /\ serverState[packet] /\ silence[packet] <= elapsed
    BY DEF BeatInRound, Inv, InRange, InReceive
  <2>2. silence'[packet] = silence[packet] + 1
    BY <2>1, <1>5
  <2>3. CASE at[w] = "liveTime"
    <3>1. Since(now, tick[w]) <= silence[packet]
      BY <2>3 DEF BeatInRound
    <3>2. Since(now, tick[w]) + 1 < ClockMod
      BY <3>1, <2>1, <1>1, HeartbeatTypes DEF GraceCoversTwoRounds
    <3>. QED
      BY <3>1, <3>2, <2>1, <2>2, <1>1, <1>7, HeartbeatTypes
  <2>. QED
    BY <2>1, <2>2, <2>3, <1>1, HeartbeatTypes
<1>11. ScanIsDue'
  BY <1>1, <1>2, HeartbeatTypes DEF ScanIsDue, InMainProc
<1>12. ComparesNow'
  <2>. SUFFICES ASSUME NEW w \in Worker, at[w] = "compare"
                PROVE  /\ serverState[it]
                       /\ Since(now, tick[w])' <= Age(it)'
                       /\ Since(now, tick[w])' + Period <= elapsed'
    BY <1>2 DEF ComparesNow
  <2>1. it \in Source /\ serverState[it] /\ Since(now, tick[w]) <= Age(it)
        /\ Since(now, tick[w]) + Period <= elapsed
    BY DEF ComparesNow, Inv, InRange, AtServer
  <2>2. Settled(it)
    BY <2>1 DEF Settled, OneWorker
  <2>3. Age(it)' = Age(it) + 1
    BY <2>1, <2>2, <1>2, <1>6 DEF Age
  <2>4. Since(now, tick[w]) + 1 < ClockMod
    BY <2>1, <1>1, HeartbeatTypes DEF GraceCoversTwoRounds
  <2>. QED
    BY <2>1, <2>3, <2>4, <1>1, <1>7, HeartbeatTypes
<1>13. ExpiresTheSilent'
  <2>. SUFFICES ASSUME NEW w \in Worker, at[w] = "offline"
                PROVE  serverState[it] /\ silence'[it] > Timeout
    BY <1>2 DEF ExpiresTheSilent
  <2>1. it \in Source /\ serverState[it] /\ silence[it] > Timeout
    BY DEF ExpiresTheSilent, Inv, InRange, AtServer
  <2>. QED
    BY <2>1, <1>5, HeartbeatTypes
<1>14. MarkedBeforeCleared'
  BY <1>2 DEF MarkedBeforeCleared
<1>15. Monitor!Pass
  <2>1. silence' \in [Source -> Nat]
    BY HeartbeatTypes DEF TickClock
  <2>. QED
    BY <2>1, <1>2, <1>4, <1>5 DEF Monitor!Pass
<1>. QED
  BY <1>8, <1>9, <1>10, <1>11, <1>12, <1>13, <1>14, <1>15

\* The network and the timer's expiry touch no time.
LEMMA HeartbeatEnvironment ==
  ASSUME Inv, HeartbeatInv, Receive \/ ReceiveFails \/ TimerExpires
  PROVE  HeartbeatInv' /\ UNCHANGED <<serverState, silence>>
<1>. USE DEF HeartbeatInv, clockVars, listVars
<1>1. /\ UNCHANGED <<now, elapsed, serverState, stateTime, silence, it, at, tick>>
      /\ \A w \in Worker : at[w] \in {"liveTick", "liveTime"} => packet' = packet
  BY DEF Receive, ReceiveFails, TimerExpires, Inv, OneReceiveChain, InReceive
<1>2. \A s \in Source : (Settled(s)' <=> Settled(s)) /\ Age(s)' = Age(s)
  BY <1>1 DEF Settled, Age
<1>3. AgesBounded' /\ PassedIsRecent'
  BY <1>1, <1>2 DEF AgesBounded, PassedIsRecent, InMainProc
<1>4. BeatInRound'
  BY <1>1 DEF BeatInRound
<1>5. ScanIsDue'
  BY <1>1 DEF ScanIsDue, InMainProc, Receive, ReceiveFails, TimerExpires
<1>6. ComparesNow' /\ ExpiresTheSilent' /\ MarkedBeforeCleared'
  BY <1>1 DEF ComparesNow, ExpiresTheSilent, MarkedBeforeCleared, Age
<1>. QED
  BY <1>1, <1>3, <1>4, <1>5, <1>6

\* What the steps of the UDP chain keep: no scan is running while the only
\* worker is at them.
LEMMA HeartbeatUdp ==
  ASSUME Inv, HeartbeatInv, OneWorker, NEW w \in Worker, UdpStep(w)
  PROVE  /\ HeartbeatInv'
         /\ \/ Monitor!Beat(packet) /\ packet \in Source
            \/ UNCHANGED <<serverState, silence>>
<1>. USE DEF HeartbeatInv
<1>1. /\ UNCHANGED <<now, elapsed, timer, it>>
      /\ at[w] \in {"idle", "live", "liveTick", "liveTime"}
      /\ at'[w] \in {"idle", "live", "liveTick", "liveTime"}
      /\ UNCHANGED packet
      /\ \A v \in Worker : v = w
  BY DEF UdpStep, HandleReceiveIgnored, HandleReceive, LiveState, LiveTick, LiveTime,
         Goto, clockVars, Inv, TypeOK, OneWorker
<1>2. PassedIsRecent' /\ ComparesNow' /\ ExpiresTheSilent' /\ MarkedBeforeCleared'
  BY <1>1 DEF PassedIsRecent, ComparesNow, ExpiresTheSilent, MarkedBeforeCleared, InMainProc
<1>3. ScanIsDue'
  BY <1>1 DEF ScanIsDue, InMainProc
<1>4. CASE HandleReceiveIgnored(w) \/ HandleReceive(w)
  <2>1. /\ UNCHANGED <<serverState, stateTime, silence>>
        /\ at[w] = "idle" /\ at'[w] \in {"idle", "live"}
    BY <1>4, <1>1 DEF HandleReceiveIgnored, HandleReceive, Goto, listVars, Inv, TypeOK
  <2>2. \A s \in Source : (Settled(s)' <=> Settled(s)) /\ Age(s)' = Age(s)
    BY <2>1, <1>1 DEF Settled, Age
  <2>3. AgesBounded' /\ BeatInRound'
    BY <2>1, <2>2, <1>1 DEF AgesBounded, BeatInRound
  <2>. QED
    BY <2>1, <2>3, <1>2, <1>3
<1>5. CASE LiveState(w)
  <2>1. /\ at[w] = "live" /\ at'[w] = "liveTick" /\ UNCHANGED stateTime
        /\ serverState' = [serverState EXCEPT ![packet] = TRUE]
        /\ silence' = [silence EXCEPT ![packet] = 0]
        /\ packet \in Source
    BY <1>5, <1>1 DEF LiveState, Goto, Inv, TypeOK, InRange, InReceive
  <2>2. \A s \in Source : Settled(s)' =>
          Settled(s) /\ silence'[s] = silence[s] /\ Age(s)' = Age(s)
    BY <2>1, <1>1, HeartbeatTypes DEF Settled, Age, Inv, TypeOK
  <2>3. AgesBounded'
    BY <2>2, <1>1 DEF AgesBounded
  <2>4. BeatInRound'
    BY <2>1, <1>1, HeartbeatTypes DEF BeatInRound, Inv, TypeOK
  <2>5. Monitor!Beat(packet)
    BY <2>1 DEF Monitor!Beat
  <2>. QED
    BY <2>1, <2>3, <2>4, <2>5, <1>2, <1>3
<1>6. CASE LiveTick(w)
  <2>1. /\ at[w] = "liveTick" /\ at'[w] = "liveTime"
        /\ UNCHANGED <<serverState, stateTime, silence>>
        /\ tick'[w] = now
    BY <1>6, <1>1 DEF LiveTick, Goto, listVars, Inv, TypeOK
  <2>2. \A s \in Source : (Settled(s)' <=> Settled(s)) /\ Age(s)' = Age(s)
    BY <2>1, <1>1 DEF Settled, Age
  <2>3. Since(now, tick[w])' = 0
    BY <2>1, <1>1, SinceItself, HeartbeatTypes
  <2>4. packet \in Source
    BY <2>1 DEF Inv, InRange, InReceive
  <2>5. AgesBounded' /\ BeatInRound'
    BY <2>1, <2>2, <2>3, <2>4, <1>1, HeartbeatTypes DEF AgesBounded, BeatInRound
  <2>. QED
    BY <2>1, <2>5, <1>2, <1>3
<1>7. CASE LiveTime(w)
  <2>1. /\ at[w] = "liveTime" /\ at'[w] = "idle" /\ UNCHANGED <<serverState, silence>>
        /\ stateTime' = [stateTime EXCEPT ![packet] = tick[w]]
        /\ packet \in Source
    BY <1>7, <1>1 DEF LiveTime, Goto, Inv, TypeOK, InRange, InReceive
  <2>2. ASSUME NEW s \in Source, s # packet, Settled(s)'
        PROVE  Settled(s) /\ Age(s)' = Age(s)
    BY <2>1, <2>2, <1>1, HeartbeatTypes DEF Settled, Age, Inv, TypeOK
  <2>3. /\ Age(packet)' = Since(now, tick[w])
        /\ Since(now, tick[w]) <= silence[packet] /\ silence[packet] <= elapsed
    BY <2>1, <1>1 DEF BeatInRound, Age, Inv, TypeOK
  <2>4. AgesBounded'
    <3>. SUFFICES ASSUME NEW s \in Source, Settled(s)'
                  PROVE  /\ Age(s)' <= silence[s]
                         /\ silence[s] <= Age(s)' + Period + Late
                         /\ Age(s)' <= Timeout + Late + elapsed
      BY <1>1, <2>1 DEF AgesBounded
    <3>1. CASE s = packet
      <4>1. Age(s)' = Since(now, tick[w])
        BY <3>1, <2>3, <1>1 DEF Age
      <4>. QED
        BY <4>1, <3>1, <2>1, <2>3, HeartbeatTypes
    <3>2. CASE s # packet
      BY <3>2, <2>2 DEF AgesBounded
    <3>. QED
      BY <3>1, <3>2
  <2>5. BeatInRound'
    BY <2>1, <1>1 DEF BeatInRound
  <2>. QED
    BY <2>1, <2>4, <2>5, <1>2, <1>3
<1>. QED
  BY <1>4, <1>5, <1>6, <1>7 DEF UdpStep

\* What the steps of the scan keep: no heartbeat is being handled while the only
\* worker is at them, so every online source's time stamp is stored.
LEMMA HeartbeatTimer ==
  ASSUME Inv, HeartbeatInv, OneWorker, NEW w \in Worker, TimerStep(w)
  PROVE  /\ HeartbeatInv'
         /\ \/ Monitor!Expire(it) /\ it \in Source
            \/ UNCHANGED <<serverState, silence>>
<1>. USE DEF HeartbeatInv
<1>1. /\ UNCHANGED <<now, silence, packet>>
      /\ at[w] \notin {"liveTick", "liveTime"}
      /\ at'[w] \notin {"live", "liveTick", "liveTime"}
      /\ \A v \in Worker : v = w
  BY DEF TimerStep, HandleTimer, CheckOffline, CheckOnline, CompareRecent, CompareExpired,
         Offline, OfflineTime, MainProcDone, Goto, clockVars, Inv, TypeOK, OneWorker
<1>2. BeatInRound'
  BY <1>1 DEF BeatInRound
<1>3. \A s \in Source : /\ Settled(s) <=> serverState[s]
                        /\ Settled(s)' <=> serverState'[s]
  BY <1>1 DEF Settled
<1>4. CASE HandleTimer(w)
  <2>1. /\ UNCHANGED <<serverState, stateTime, elapsed>> /\ timer = "expired"
        /\ timer' = "none" /\ it' = 0 /\ at'[w] = "check"
    BY <1>4, <1>1 DEF HandleTimer, Goto, listVars, clockVars, Inv, TypeOK
  <2>2. AgesBounded'
    BY <2>1, <1>1, <1>3 DEF AgesBounded, Age
  <2>3. PassedIsRecent'
    BY <2>1, ServerListAssumption DEF PassedIsRecent, Source
  <2>4. ScanIsDue' /\ ComparesNow' /\ ExpiresTheSilent' /\ MarkedBeforeCleared'
    BY <2>1, <1>1 DEF ScanIsDue, ComparesNow, ExpiresTheSilent, MarkedBeforeCleared
  <2>. QED
    BY <1>1, <1>2, <2>1, <2>2, <2>3, <2>4
<1>5. CASE CheckOffline(w)
  <2>1. /\ UNCHANGED <<serverState, stateTime, elapsed, timer>>
        /\ at[w] = "check" /\ at' = at
        /\ it \in Source /\ ~serverState[it] /\ it' = it + 1
    BY <1>5, <1>1, ServerListAssumption
    DEF CheckOffline, listVars, clockVars, Inv, TypeOK, Source
  <2>2. AgesBounded'
    BY <2>1, <1>1, <1>3 DEF AgesBounded, Age
  <2>3. PassedIsRecent'
    <3>. SUFFICES ASSUME NEW s \in Source, Settled(s)', s < it'
                  PROVE  Age(s)' + Period <= Timeout + elapsed
      BY <2>1 DEF PassedIsRecent
    <3>1. s < it /\ Settled(s)
      BY <2>1, <1>3 DEF Source
    <3>. QED
      BY <3>1, <2>1, <1>1 DEF PassedIsRecent, InMainProc, Age
  <2>4. ScanIsDue' /\ ComparesNow' /\ ExpiresTheSilent' /\ MarkedBeforeCleared'
    BY <2>1, <1>1 DEF ScanIsDue, ComparesNow, ExpiresTheSilent, MarkedBeforeCleared, InMainProc
  <2>. QED
    BY <1>1, <1>2, <2>1, <2>2, <2>3, <2>4
<1>6. CASE CheckOnline(w)
  <2>1. /\ UNCHANGED <<serverState, stateTime, elapsed, timer, it>>
        /\ at[w] = "check" /\ at'[w] = "compare" /\ tick'[w] = now
        /\ it \in Source /\ serverState[it]
    BY <1>6, <1>1, ServerListAssumption
    DEF CheckOnline, Goto, listVars, clockVars, Inv, TypeOK, Source
  <2>2. Since(now, tick[w])' = 0
    BY <2>1, <1>1, SinceItself, HeartbeatTypes
  <2>3. elapsed >= Period
    BY <2>1 DEF ScanIsDue, InMainProc
  <2>4. AgesBounded' /\ PassedIsRecent'
    BY <2>1, <1>1, <1>3 DEF AgesBounded, PassedIsRecent, InMainProc, Age
  <2>5. ComparesNow'
    BY <2>1, <2>2, <2>3, <1>1, HeartbeatTypes DEF ComparesNow, Age
  <2>6. ScanIsDue' /\ ExpiresTheSilent' /\ MarkedBeforeCleared'
    BY <2>1, <2>3, <1>1 DEF ScanIsDue, ExpiresTheSilent, MarkedBeforeCleared
  <2>. QED
    BY <1>1, <1>2, <2>1, <2>4, <2>5, <2>6
<1>7. CASE CompareRecent(w)
  <2>1. /\ UNCHANGED <<serverState, stateTime, elapsed, timer, tick>>
        /\ at[w] = "compare" /\ at'[w] = "check"
        /\ it \in Source /\ it' = it + 1 /\ ~Expired(tick[w], stateTime[it])
    BY <1>7, <1>1
    DEF CompareRecent, Goto, listVars, clockVars, Inv, TypeOK, InRange, AtServer
  <2>2. AgesBounded'
    BY <2>1, <1>1, <1>3 DEF AgesBounded, Age
  <2>3. Age(it) + Period <= Timeout + elapsed
    <3>1. /\ Since(now, tick[w]) <= Age(it)
          /\ Since(now, tick[w]) + Period <= elapsed
      BY <2>1 DEF ComparesNow
    <3>2. Since(tick[w], stateTime[it]) = Age(it) - Since(now, tick[w])
      BY <3>1, <2>1, SinceBetween, HeartbeatTypes DEF Age
    <3>3. Since(tick[w], stateTime[it]) <= Timeout
      BY <3>2, <2>1, HeartbeatTypes DEF Expired
    <3>. QED
      BY <3>1, <3>2, <3>3, <2>1, HeartbeatTypes
  <2>4. PassedIsRecent'
    <3>. SUFFICES ASSUME NEW s \in Source, Settled(s)', s < it'
                  PROVE  Age(s)' + Period <= Timeout + elapsed
      BY <2>1 DEF PassedIsRecent
    <3>1. Age(s)' = Age(s) /\ Settled(s) /\ (s < it \/ s = it)
      BY <2>1, <1>1, <1>3 DEF Age, Source
    <3>. QED
      BY <3>1, <2>1, <2>3 DEF PassedIsRecent, InMainProc
  <2>5. ScanIsDue' /\ ComparesNow' /\ ExpiresTheSilent' /\ MarkedBeforeCleared'
    BY <2>1, <1>1 DEF ScanIsDue, ComparesNow, ExpiresTheSilent, MarkedBeforeCleared, InMainProc
  <2>. QED
    BY <1>1, <1>2, <2>1, <2>2, <2>4, <2>5
<1>8. CASE CompareExpired(w)
  <2>1. /\ UNCHANGED <<serverState, stateTime, elapsed, timer, tick, it>>
        /\ at[w] = "compare" /\ at'[w] = "offline"
        /\ it \in Source /\ Expired(tick[w], stateTime[it])
    BY <1>8, <1>1
    DEF CompareExpired, Goto, listVars, clockVars, Inv, TypeOK, InRange, AtServer
  <2>2. AgesBounded' /\ PassedIsRecent'
    BY <2>1, <1>1, <1>3 DEF AgesBounded, PassedIsRecent, InMainProc, Age
  <2>3. serverState[it] /\ silence[it] > Timeout
    <3>1. serverState[it] /\ Since(now, tick[w]) <= Age(it)
      BY <2>1 DEF ComparesNow
    <3>2. Since(tick[w], stateTime[it]) = Age(it) - Since(now, tick[w])
      BY <3>1, <2>1, SinceBetween, HeartbeatTypes DEF Age
    <3>3. Age(it) <= silence[it]
      BY <3>1, <2>1, <1>3 DEF AgesBounded
    <3>. QED
      BY <3>1, <3>2, <3>3, <2>1, HeartbeatTypes DEF Expired
  <2>4. ScanIsDue' /\ ComparesNow' /\ ExpiresTheSilent' /\ MarkedBeforeCleared'
    BY <2>1, <2>3, <1>1 DEF ScanIsDue, ComparesNow, ExpiresTheSilent, MarkedBeforeCleared, InMainProc
  <2>. QED
    BY <1>1, <1>2, <2>1, <2>2, <2>4
<1>9. CASE Offline(w)
  <2>1. /\ UNCHANGED <<stateTime, elapsed, timer, tick, it>>
        /\ at[w] = "offline" /\ at'[w] = "offlineTime" /\ it \in Source
        /\ serverState' = [serverState EXCEPT ![it] = FALSE] /\ ~serverState'[it]
    BY <1>9, <1>1 DEF Offline, Goto, clockVars, Inv, TypeOK, InRange, AtServer
  <2>2. \A s \in Source : serverState'[s] => serverState[s]
    BY <2>1 DEF Inv, TypeOK
  <2>3. AgesBounded' /\ PassedIsRecent'
    BY <2>1, <2>2, <1>1, <1>3 DEF AgesBounded, PassedIsRecent, InMainProc, Age
  <2>4. ScanIsDue' /\ ComparesNow' /\ ExpiresTheSilent' /\ MarkedBeforeCleared'
    BY <2>1, <1>1 DEF ScanIsDue, ComparesNow, ExpiresTheSilent, MarkedBeforeCleared, InMainProc
  <2>5. Monitor!Expire(it)
    BY <2>1, <1>1 DEF Monitor!Expire, ExpiresTheSilent
  <2>. QED
    BY <1>2, <2>1, <2>3, <2>4, <2>5
<1>10. CASE OfflineTime(w)
  <2>1. /\ UNCHANGED <<serverState, elapsed, timer, tick>>
        /\ at[w] = "offlineTime" /\ at'[w] = "check" /\ it \in Source
        /\ stateTime' = [stateTime EXCEPT ![it] = 0] /\ it' = it + 1
    BY <1>10, <1>1 DEF OfflineTime, Goto, clockVars, Inv, TypeOK, InRange, AtServer
  <2>2. ~serverState[it]
    BY <2>1 DEF MarkedBeforeCleared
  <2>3. \A s \in Source : Settled(s)' => Settled(s) /\ s # it /\ Age(s)' = Age(s)
    BY <2>1, <2>2, <1>1, <1>3 DEF Age, Inv, TypeOK
  <2>4. AgesBounded'
    BY <2>1, <2>3, <1>1 DEF AgesBounded
  <2>5. PassedIsRecent'
    BY <2>1, <2>3, <1>1 DEF PassedIsRecent, InMainProc, Source
  <2>6. ScanIsDue' /\ ComparesNow' /\ ExpiresTheSilent' /\ MarkedBeforeCleared'
    BY <2>1, <1>1 DEF ScanIsDue, ComparesNow, ExpiresTheSilent, MarkedBeforeCleared, InMainProc
  <2>. QED
    BY <1>1, <1>2, <2>1, <2>4, <2>5, <2>6
<1>11. CASE MainProcDone(w)
  <2>1. /\ UNCHANGED <<serverState, stateTime, tick>>
        /\ at[w] = "check" /\ at'[w] = "idle" /\ it > NumServers
        /\ timer' = "armed" /\ elapsed' = 0
    BY <1>11, <1>1 DEF MainProcDone, Goto, listVars, Inv, TypeOK
  <2>2. AgesBounded'
    <3>. SUFFICES ASSUME NEW s \in Source, Settled(s)'
                  PROVE  /\ Age(s) <= silence[s] /\ silence[s] <= Age(s) + Period + Late
                         /\ Age(s) <= Timeout + Late
      BY <2>1, <1>1, HeartbeatTypes DEF AgesBounded, Age
    <3>1. Settled(s) /\ s < it
      BY <2>1, <1>3, ServerListAssumption DEF Source, Inv, TypeOK
    <3>2. Age(s) + Period <= Timeout + elapsed
      BY <3>1, <2>1 DEF PassedIsRecent, InMainProc
    <3>. QED
      BY <3>1, <3>2, HeartbeatTypes DEF AgesBounded
  <2>3. PassedIsRecent' /\ ScanIsDue' /\ ComparesNow' /\ ExpiresTheSilent' /\ MarkedBeforeCleared'
    BY <2>1, <1>1 DEF PassedIsRecent, ScanIsDue, ComparesNow, ExpiresTheSilent, MarkedBeforeCleared, InMainProc
  <2>. QED
    BY <1>1, <1>2, <2>1, <2>2, <2>3
<1>. QED
  BY <1>4, <1>5, <1>6, <1>7, <1>8, <1>9, <1>10, <1>11 DEF TimerStep

\* Every step keeps the bounds, and is a step of the monitor or a stutter.
LEMMA HeartbeatNext ==
  ASSUME OneWorker, GraceCoversTwoRounds
  PROVE  Inv /\ HeartbeatInv /\ [Next]_vars
           => HeartbeatInv' /\ [Monitor!Next]_(Monitor!vars)
<1>. SUFFICES ASSUME Inv, HeartbeatInv, [Next]_vars
              PROVE  HeartbeatInv' /\ [Monitor!Next]_(Monitor!vars)
  OBVIOUS
<1>. USE DEF Monitor!Next, Monitor!vars
<1>1. CASE UNCHANGED vars
  BY <1>1 DEF vars, HeartbeatInv, AgesBounded, PassedIsRecent, BeatInRound, ScanIsDue,
              ComparesNow, ExpiresTheSilent, MarkedBeforeCleared, Settled, Age,
              InMainProc
<1>2. CASE TickClock
  BY <1>2, HeartbeatTick
<1>3. CASE Receive \/ ReceiveFails \/ TimerExpires
  BY <1>3, HeartbeatEnvironment
<1>4. ASSUME NEW w \in Worker, UdpStep(w)
      PROVE  HeartbeatInv' /\ [Monitor!Next]_(Monitor!vars)
  BY <1>4, HeartbeatUdp
<1>5. ASSUME NEW w \in Worker, TimerStep(w)
      PROVE  HeartbeatInv' /\ [Monitor!Next]_(Monitor!vars)
  BY <1>5, HeartbeatTimer
<1>. QED
  BY <1>1, <1>2, <1>3, <1>4, <1>5 DEF Next

\* The initial states are the monitor's.
LEMMA HeartbeatMonitorInit == Init => Monitor!Init
  BY ServerListAssumption DEF Init, Monitor!Init, MaxSilence

\* With one worker the server list implements the heartbeat monitor: for any
\* timeout, timer period, clock width and lateness of the timer, a source is
\* marked offline only after more than Timeout of silence, and always before its
\* silence outgrows two timer rounds and the lateness of one (MainProc,
\* GCGameServerLiveRecv, JCJoinServerLiveRecv, schedule_1s_timer).
THEOREM ListMonitorsHeartbeats ==
  ASSUME OneWorker, GraceCoversTwoRounds
  PROVE  Spec => MonitorsHeartbeats
<1>1. Init => Inv /\ HeartbeatInv /\ Monitor!Init
  BY InvInit, HeartbeatInit, HeartbeatMonitorInit
<1>2. Inv /\ HeartbeatInv /\ [Next]_vars
        => Inv' /\ HeartbeatInv' /\ [Monitor!Next]_(Monitor!vars)
  BY InvNext, HeartbeatNext
<1>. QED
  BY <1>1, <1>2, PTL DEF Spec, MonitorsHeartbeats, Monitor!Spec

\* With one worker no source is marked offline that was heard from within the
\* timeout; with more one may be (MainProc, GCGameServerLiveRecv).
THEOREM OneWorkerNeverEarly ==
  ASSUME OneWorker, GraceCoversTwoRounds
  PROVE  Spec => NeverOfflineEarly
<1>1. Init => Inv /\ HeartbeatInv
  BY InvInit, HeartbeatInit
<1>2. Inv /\ HeartbeatInv /\ [Next]_vars
        => /\ Inv' /\ HeartbeatInv'
           /\ [\A s \in Source : serverState[s] /\ ~serverState'[s]
                 => silence[s] > Timeout]_vars
  <2>. SUFFICES ASSUME Inv, HeartbeatInv, [Monitor!Next]_(Monitor!vars)
                PROVE  \A s \in Source : serverState[s] /\ ~serverState'[s]
                         => silence[s] > Timeout
    BY InvNext, HeartbeatNext
  <2>. QED
    BY DEF Inv, TypeOK, Monitor!Next, Monitor!vars, Monitor!Pass, Monitor!Beat,
           Monitor!Expire
<1>. QED
  BY <1>1, <1>2, PTL DEF Spec, NeverOfflineEarly

=============================================================================
