----------------------------- MODULE ServerList -----------------------------
(***************************************************************************)
(* Which servers are up: CServerList's state, the heartbeats that           *)
(* SocketManagerUdp receives and the timeout scan MainProc that             *)
(* TimerManager's 1-second timer runs (src/src/ServerList.cpp,              *)
(* SocketManagerUdp.cpp, TimerManager.cpp, main.cpp).                       *)
(*                                                                         *)
(* Both handlers run on the worker threads of the io_context, and neither   *)
(* takes a lock: with one worker they alternate, with more they overlap.    *)
(* Source 0 is the JoinServer, whose state MainProc visits first; the       *)
(* others are the entries of m_ServerListInfo in the order of the map.      *)
(* The user counts a heartbeat also stores are left out: no decision reads  *)
(* them.                                                                   *)
(***************************************************************************)
EXTENDS Integers

CONSTANTS
  Worker,       \* the worker threads
  NumServers,   \* the number of game servers in ServerList.dat
  Timeout,      \* 10000 ms, in clock ticks
  Period,       \* the timer's 1000 ms
  Late,         \* bound: how late a timer round may come to its end
  Grace,        \* bound: how long an online server's silence may outlast Timeout
  ClockMod      \* GetTickCountCross() wraps around: 2^32 in the code

ASSUME ServerListAssumption ==
  /\ NumServers \in Nat
  /\ Timeout \in Nat /\ Period \in Nat \ {0} /\ Late \in Nat /\ Grace \in Nat
  /\ ClockMod \in Nat
  /\ Timeout + Grace + 1 < ClockMod

Source == 0 .. NumServers
Unknown == -1           \* a packet that is no heartbeat of a listed server
Tick == 0 .. ClockMod - 1

VARIABLES
  now,          \* GetTickCountCross()
  serverState,  \* ServerState, m_JoinServerState
  stateTime,    \* ServerStateTime, m_JoinServerStateTime
  receiveOp,    \* the UDP socket's receive operation
  packet,       \* whose heartbeat recv_buffer_ holds
  timer,        \* the 1-second timer
  elapsed,      \* the time since the timer was last set
  it,           \* MainProc's position in the list
  at,           \* where each worker is
  tick,         \* the clock value a worker has read
  silence       \* history: the time since each source's last heartbeat

vars == <<now, serverState, stateTime, receiveOp, packet, timer, elapsed, it,
          at, tick, silence>>

listVars == <<serverState, stateTime>>
clockVars == <<now, elapsed>>

MaxSilence == Timeout + Grace + 1

TypeOK ==
  /\ now \in Tick
  /\ serverState \in [Source -> BOOLEAN]
  /\ stateTime \in [Source -> Tick]
  /\ receiveOp \in {"none", "pending", "data", "err"}
  /\ packet \in Source \cup {Unknown}
  /\ timer \in {"none", "armed", "expired"}
  /\ elapsed \in 0 .. Period + Late
  /\ it \in 0 .. NumServers + 1
  /\ at \in [Worker -> {"idle", "live", "liveTick", "liveTime",
                        "check", "compare", "offline", "offlineTime"}]
  /\ tick \in [Worker -> Tick]
  /\ silence \in [Source -> 0 .. MaxSilence]

Goto(w, label) == at' = [at EXCEPT ![w] = label]

\* The timer's handler is running.
InMainProc(w) == at[w] \in {"check", "compare", "offline", "offlineTime"}

\* The receive handler holds recv_buffer_.
InReceive(w) == at[w] \in {"live", "liveTick", "liveTime"}

\* Mutant: the difference is taken as a signed number.
SinceSigned(t, t0) == t - t0

\* Unsigned 32-bit subtraction.
Since(t, t0) == (t - t0) % ClockMod

Expired(t, t0) == Since(t, t0) > Timeout

Init ==
  /\ now \in Tick
  /\ serverState = [s \in Source |-> FALSE]
  /\ stateTime = [s \in Source |-> 0]
  /\ receiveOp = "pending" /\ packet = Unknown
  /\ timer = "armed" /\ elapsed = 0 /\ it = 0
  /\ at = [w \in Worker |-> "idle"]
  /\ tick = [w \in Worker |-> 0]
  /\ silence = [s \in Source |-> MaxSilence]

----------------------------------------------------------------------------
(* Time and the network.                                                   *)

\* A tick of the clock.  A timer that is set, or whose handler runs, is served
\* within Late of its expiry.
TickClock ==
  /\ timer # "none" \/ (\E w \in Worker : InMainProc(w)) => elapsed < Period + Late
  /\ now' = (now + 1) % ClockMod
  /\ elapsed' = IF elapsed < Period + Late THEN elapsed + 1 ELSE elapsed
  /\ silence' = [s \in Source |-> IF silence[s] < MaxSilence THEN silence[s] + 1
                                  ELSE silence[s]]
  /\ UNCHANGED <<listVars, receiveOp, packet, timer, it, at, tick>>

\* A datagram arrives: a heartbeat, or anything else.  Heartbeats may be lost,
\* delayed or repeated; none of that is visible here.
Receive ==
  /\ receiveOp = "pending"
  /\ receiveOp' = "data"
  /\ packet' \in Source \cup {Unknown}
  /\ UNCHANGED <<clockVars, listVars, timer, it, at, tick, silence>>

ReceiveFails ==
  /\ receiveOp = "pending"
  /\ receiveOp' = "err"
  /\ UNCHANGED <<clockVars, listVars, packet, timer, it, at, tick, silence>>

TimerExpires ==
  /\ timer = "armed"
  /\ elapsed >= Period
  /\ timer' = "expired"
  /\ UNCHANGED <<clockVars, listVars, receiveOp, packet, it, at, tick, silence>>

----------------------------------------------------------------------------
(* handle_receive, parse_udp_packets, GCGameServerLiveRecv and              *)
(* JCJoinServerLiveRecv.                                                   *)

\* A receive error, a malformed packet, an unknown head and an unlisted server
\* code: receive again.
HandleReceiveIgnored(w) ==
  /\ at[w] = "idle"
  /\ \/ receiveOp = "err"
     \/ receiveOp = "data" /\ packet = Unknown
  /\ receiveOp' = "pending"
  /\ UNCHANGED <<clockVars, listVars, packet, timer, it, at, tick, silence>>

\* Mutant: the next receive is armed before the packet is processed.
HandleReceiveEarly(w) ==
  /\ at[w] = "idle"
  /\ receiveOp = "data" /\ packet # Unknown
  /\ receiveOp' = "pending"
  /\ Goto(w, "live")
  /\ UNCHANGED <<clockVars, listVars, packet, timer, it, tick, silence>>

HandleReceive(w) ==
  /\ at[w] = "idle"
  /\ receiveOp = "data" /\ packet # Unknown
  /\ receiveOp' = "none"
  /\ Goto(w, "live")
  /\ UNCHANGED <<clockVars, listVars, packet, timer, it, tick, silence>>

\* ServerState = true.
LiveState(w) ==
  /\ at[w] = "live"
  /\ serverState' = [serverState EXCEPT ![packet] = TRUE]
  /\ silence' = [silence EXCEPT ![packet] = 0]
  /\ Goto(w, "liveTick")
  /\ UNCHANGED <<clockVars, stateTime, receiveOp, packet, timer, it, tick>>

\* The call of GetTickCountCross(), and then the store of ServerStateTime.
LiveTick(w) ==
  /\ at[w] = "liveTick"
  /\ tick' = [tick EXCEPT ![w] = now]
  /\ Goto(w, "liveTime")
  /\ UNCHANGED <<clockVars, listVars, receiveOp, packet, timer, it, silence>>

\* After it the handler ends and start_receive arms the next receive.
LiveTime(w) ==
  /\ at[w] = "liveTime"
  /\ stateTime' = [stateTime EXCEPT ![packet] = tick[w]]
  /\ receiveOp' = "pending"
  /\ Goto(w, "idle")
  /\ UNCHANGED <<clockVars, serverState, packet, timer, it, tick, silence>>

----------------------------------------------------------------------------
(* The 1-second timer's handler: MainProc, then schedule_1s_timer.         *)

HandleTimer(w) ==
  /\ at[w] = "idle"
  /\ timer = "expired"
  /\ timer' = "none" /\ it' = 0
  /\ Goto(w, "check")
  /\ UNCHANGED <<clockVars, listVars, receiveOp, packet, tick, silence>>

CheckOffline(w) ==
  /\ at[w] = "check"
  /\ it <= NumServers
  /\ ~serverState[it]
  /\ it' = it + 1
  /\ UNCHANGED <<clockVars, listVars, receiveOp, packet, timer, at, tick, silence>>

\* ServerState != false, and the call of GetTickCountCross(); ServerStateTime
\* is loaded after the call returns.
CheckOnline(w) ==
  /\ at[w] = "check"
  /\ it <= NumServers
  /\ serverState[it]
  /\ tick' = [tick EXCEPT ![w] = now]
  /\ Goto(w, "compare")
  /\ UNCHANGED <<clockVars, listVars, receiveOp, packet, timer, it, silence>>

\* Mutant: the iterator moves twice.
CompareRecentSkips(w) ==
  /\ at[w] = "compare"
  /\ ~Expired(tick[w], stateTime[it])
  /\ it' = it + 2
  /\ Goto(w, "check")
  /\ UNCHANGED <<clockVars, listVars, receiveOp, packet, timer, tick, silence>>

CompareRecent(w) ==
  /\ at[w] = "compare"
  /\ ~Expired(tick[w], stateTime[it])
  /\ it' = it + 1
  /\ Goto(w, "check")
  /\ UNCHANGED <<clockVars, listVars, receiveOp, packet, timer, tick, silence>>

CompareExpired(w) ==
  /\ at[w] = "compare"
  /\ Expired(tick[w], stateTime[it])
  /\ Goto(w, "offline")
  /\ UNCHANGED <<clockVars, listVars, receiveOp, packet, timer, it, tick, silence>>

\* ServerState = false, then ServerStateTime = 0.
Offline(w) ==
  /\ at[w] = "offline"
  /\ serverState' = [serverState EXCEPT ![it] = FALSE]
  /\ Goto(w, "offlineTime")
  /\ UNCHANGED <<clockVars, stateTime, receiveOp, packet, timer, it, tick, silence>>

OfflineTime(w) ==
  /\ at[w] = "offlineTime"
  /\ stateTime' = [stateTime EXCEPT ![it] = 0]
  /\ it' = it + 1
  /\ Goto(w, "check")
  /\ UNCHANGED <<clockVars, serverState, receiveOp, packet, timer, tick, silence>>

\* Mutant: the handler does not set the timer again.
MainProcDoneForgets(w) ==
  /\ at[w] = "check"
  /\ it > NumServers
  /\ it' = 0
  /\ Goto(w, "idle")
  /\ UNCHANGED <<clockVars, listVars, receiveOp, packet, timer, tick, silence>>

\* The scan ends and the timer is set again.
MainProcDone(w) ==
  /\ at[w] = "check"
  /\ it > NumServers
  /\ timer' = "armed" /\ elapsed' = 0 /\ it' = 0
  /\ Goto(w, "idle")
  /\ UNCHANGED <<now, listVars, receiveOp, packet, tick, silence>>

----------------------------------------------------------------------------
UdpStep(w) ==
  \/ HandleReceiveIgnored(w) \/ HandleReceive(w)
  \/ LiveState(w) \/ LiveTick(w) \/ LiveTime(w)

TimerStep(w) ==
  \/ HandleTimer(w) \/ CheckOffline(w) \/ CheckOnline(w)
  \/ CompareRecent(w) \/ CompareExpired(w)
  \/ Offline(w) \/ OfflineTime(w) \/ MainProcDone(w)

Next ==
  \/ TickClock \/ Receive \/ ReceiveFails \/ TimerExpires
  \/ \E w \in Worker : UdpStep(w) \/ TimerStep(w)

Spec == Init /\ [][Next]_vars

----------------------------------------------------------------------------
(* Properties.                                                             *)

\* One datagram at a time: while a heartbeat is being processed no receive is
\* outstanding that would overwrite recv_buffer_, nor is another worker at it;
\* and when no receive is outstanding a worker is on its way to start the next,
\* so no error or malformed packet makes the server deaf (start_receive,
\* handle_receive, parse_udp_packets).
OneReceiveChain ==
  /\ \A v, w \in Worker : InReceive(v) /\ InReceive(w) => v = w
  /\ \A w \in Worker : InReceive(w) => receiveOp = "none"
  /\ receiveOp = "none" => \E w \in Worker : InReceive(w)

\* One scan at a time: the timer is not set while MainProc runs, and it is set
\* again after every run (schedule_1s_timer).
OneTimerChain ==
  /\ \A v, w \in Worker : InMainProc(v) /\ InMainProc(w) => v = w
  /\ \A w \in Worker : InMainProc(w) => timer = "none"
  /\ timer = "none" => \E w \in Worker : InMainProc(w)

\* The list is a heartbeat monitor: a source goes offline only after more than
\* Timeout without a heartbeat, however the 32-bit clock wraps, and an online
\* source is never silent for longer than Timeout + Grace (MainProc,
\* GCGameServerLiveRecv, JCJoinServerLiveRecv, schedule_1s_timer).
Monitor == INSTANCE HeartbeatMonitor WITH online <- serverState

MonitorsHeartbeats == Monitor!Spec

\* A server heard from within the timeout is not marked offline.
NeverOfflineEarly ==
  [][\A s \in Source :
       serverState[s] /\ ~serverState'[s] => silence[s] > Timeout]_vars

=============================================================================
