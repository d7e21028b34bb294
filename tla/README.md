# TLA+ verification of ConnectServer

ConnectServer tells game clients which game servers exist.  It accepts TCP
connections from clients, answers list and address requests, and listens on UDP
for the heartbeats of the game servers and of the JoinServer.  It is a
Boost.Asio program: one `io_context` run by one to eight worker threads
(`main.cpp:146`, the number of processors), plus the main thread, which waits
for a signal or the console's `quit` and then stops everything.

The modules here are translated from the C++ sources under `src/src`; the
markdown documents of the repository are used only where a run shows that code
and document disagree.

## 1. Inventory

| component | state | operations | interacts with |
|---|---|---|---|
| SocketManager | `running_`, `acceptor_`, `sessions_[MAX_CLIENT]` under `sessions_mutex_` | start, stop, start_accept, handle_accept, find_free_index, check_ip_limit, get_session | creates ClientSessions, calls IpManager, counts `gClientCount` |
| ClientSession | `connected_`, `index_`, `ip_address_`, receive buffer, send queue, `write_in_progress_` | start, start_read, handle_read, parse_packets, async_send, start_write, handle_write, close | strand per session; protocol; IpManager and `gClientCount` on close |
| IpManager | map from address to a `uint16_t` count, no lock | CheckIpAddress, InsertIpAddress, RemoveIpAddress | called by handle_accept and by close |
| ConnectServerProtocol | none (a 2048-byte buffer per answer) | Core (dispatch), InitSend, CustomServerListSend, ServerListRecv, ServerInfoRecv | finds the session by slot index, reads ServerList |
| ServerList | map of servers (state, time of last heartbeat, user counts), JoinServer state; no lock | Load, MainProc, ServerProtocolCore, the two heartbeat handlers, the two list generators, GetServerListInfo | UDP handler writes, timer scans, protocol reads |
| SocketManagerUdp | `running_`, socket, one receive buffer | start, stop, start_receive, handle_receive, parse_udp_packets, async_send (no caller) | calls ServerList |
| TimerManager | `running_`, two timers | start, stop, schedule_1s_timer, schedule_5s_timer | 1 s: ServerList::MainProc; 5 s: an empty callback |
| main | `g_running`, worker threads | signal_handler, start, shutdown order | all of the above |
| ConsoleInterface | `running_`, input thread and its pthread id | initialize, start_input_loop, process_command, stop | `quit` clears `g_running`; stop is called by main, the destructor and signal_handler |
| ConfigManager, ReadScript | parsed files | load, get_*, GetToken | read once at start |
| Queue, CriticalSection | bounded queue, recursive mutex | | compiled, used by nothing |

What is hard:

* **Interleavings.** The accept handler belongs to no strand; each session's
  read and write handlers belong to that session's strand, but `close()` is also
  called by `stop()` on the main thread, and `start()` runs in the accept handler.
  `connected_`, `gClientCount`, the address map and the whole server list are
  read and written by several threads without a lock.
* **Loops that keep themselves alive.** Accepting, receiving and the timer each
  continue only because every path of a handler starts the next operation.
* **Identity by index.** Replies are addressed by slot number.  Slots are reused
  as soon as `connected_` is false, while a handler of the old session may run.
* **Pairing.** A connection is counted in two places on accept and must be
  discounted once on every way out.
* **Failure between two steps** (`start()` after the session is counted), and
  **shutdown** while handlers run.
* **Signals.** `signal_handler` runs `io_context::stop`, `pthread_cancel` and
  `std::thread::detach` on whatever thread the signal interrupts.
* **Time**: an unsigned 32-bit millisecond clock that wraps, a scan that races
  the heartbeats.

What makes each component correct:

* SocketManager: one accept loop, never dead, never double; a live session owns
  its slot; limits hold; `stop()` ends, and at most one session outlives it.
* ClientSession: served until it is closed, closed when it fails; packets sent
  in order and written one at a time; answers reach the requester.
* IpManager and `gClientCount`: exact counts, nothing left after a disconnect.
* ServerList, UDP, timer: offline only after the timeout and soon after it;
  one datagram and one scan at a time.
* Framing and protocol: the same packets whatever the segmentation; room for
  the next read; a request is answered from its own bytes, in a buffer the answer
  fits.
* main, timers, UDP, console: the loops go on until they are stopped and then
  stop; shutdown ends, and signals between the steps of it do not make it end in
  `std::terminate` (at some moments within a step they do: see the bounds).
* ConfigManager, ReadScript: what is used is what the files say.

`PROJECT.json` lists every component with its status and every hazard at its
source line.

## 2. Modules

| module | what it is |
|---|---|
| `IpManager` | the address table as operators; each update is split at its map lookup |
| `SocketManager` | the TCP side: accept loop, slot table, session life, counters, `stop()`, threads |
| `MCSocketManager` | symmetry of the model values, for TLC |
| `SocketManagerProofs` | theorems about `SocketManager`, checked by TLAPS |
| `SocketCountProofs` | theorems about `stop()`, the counters and the address limit |
| `HeartbeatMonitor` | abstract specification: what the server list promises about a server it hears from |
| `ServerList` | heartbeats, timeout scan and the UDP and timer chains; implements `HeartbeatMonitor` |
| `ServerListProofs` | theorems about `ServerList`, the refinement among them |
| `PacketChannel` | abstract specification: a first-in first-out channel of packets |
| `SendQueue` | the sending side of one session; implements `PacketChannel` |
| `SendQueueProofs` | theorems about `SendQueue`, the refinement among them |
| `PacketFormat` | where packets lie in a sequence of bytes, as operators |
| `PacketStream` | abstract specification: a byte stream is cut by its own headers |
| `ReceiveBuffer` | the receiving side of one session; implements `PacketStream` |
| `ReceiveBufferProofs` | theorems about `ReceiveBuffer`, the refinement among them |
| `ReadScript` | the tokenizer of `ServerList.dat` as operators over texts |
| `ServerFile` | `CServerList::Load`, and the files it is given |
| `ListService` | the protocol: dispatch of requests, generated lists, info replies; composes `ServerFile`'s loading, heartbeats and requests |
| `MCListService` | the codes of servers and their numerals, for TLC |
| `ListServiceProofs` | theorems about `ListService`: the list that is served is the file's, and requests are answered from it |
| `ConfigFile` | `ConfigManager`'s `load` and `get_int` as operators, and the INI files they are given |
| `ServerProcess` | the life of the process: start, loops, workers, console thread, signals, shutdown; uses `ConfigFile` |
| `ServerProcessProofs` | theorems about `ServerProcess`: loops, signals, settings, types |
| `PrefixInduction` | induction up to a bound, least and greatest elements, for both proofs about files |

### SocketManager

An idle worker picks a completed operation (`HandleAccept`, `HandleAcceptDropped`,
`HandleRetry`, `HandleRead`, `HandleWrite`); from then on `at[w]` says where the
handler is, and it is cut wherever it reads or writes something another thread
can touch:

| code | actions |
|---|---|
| `handle_accept` (SocketManager.cpp:93) | `HandleAccept` (limit check) or `HandleAcceptDropped`; `Store` and `CountUp` (under the mutex; `gClientCount++` is a read and a write); `InsertFind`, `InsertWrite`; `Start` or `StartThrows`, `SendInit`, `StartRead` |
| `start_accept`, `find_free_index` (67, 142) | `RearmStopped` or `Rearm` (`running_`); `FindFreeIndex` (lock), `ScanNext`, `ScanFound`, `ScanNone`; `HandleRetry` |
| `handle_read`, `parse_packets`, protocol replies | `HandleRead`, `ParseReply` (one reply, routed by `index_`), `ParseDone`, `ParseFails` |
| `async_send`, `start_write`, `handle_write` | `Send` (in `SendInit` and `ParseReply`), `WriteCompletes`, `HandleWrite` |
| `close` (ClientSession.cpp:233) | `CloseCheckClosed` or `CloseCheckOpen`, `CloseMark`, `RemoveFind`, `RemoveWrite`, `CountDownRead`, `CountDown` (with `socket_.close`) |
| `signal_handler`, console `quit`, `stop`, end of `main` | `Signal`, `Quit`, `StopAccepting`, `StopLock`, `SweepEmpty`, `SweepSession` then `close`, `SweepDone`, `Join` |

`sessions_mutex_` is the variable `mutex`; a step that takes it is disabled while
another thread owns it, and a section with no visible intermediate state
(`get_session`) is one step.  The `shared_ptr`s are followed: a session object
may be made anew only when no slot, operation or thread refers to it
(`Unreferenced`), so a session that still has a handler running keeps its
identity, as in the code.  `cur` and `tmp` are the local variables of a handler.

Undefined behaviour is given as the outcomes a build can produce: an increment
of `gClientCount` or of an address's counter is a read and a write; `map::insert`
keeps an entry another thread has inserted since the lookup, and a write through
an iterator to an entry erased meanwhile reaches no entry (`AfterInsert`,
`AfterRemove`).  A torn `connected_` cannot be observed, so it is one variable.
Memory corruption inside `std::map` is not modelled.

Left out: the content of packets (a read is a number of replies, then success or
failure: `ReceiveBuffer`), the send queue (one operation: `SendQueue`), logging,
time stamps (`check_timeout` has no caller).

### ServerList

Source 0 is the JoinServer, which `MainProc` tests first; the others are the
entries of the map in order.  A heartbeat is `HandleReceive`, `LiveState`
(`ServerState = true`), `LiveTick` (the clock is read), `LiveTime`
(`ServerStateTime` is stored and the next receive armed).  `MainProc` is
`HandleTimer`, then for each source `CheckOffline` or `CheckOnline` (the clock is
read), `CompareRecent` or `CompareExpired`, `Offline`, `OfflineTime`, and at the
end `MainProcDone`, which sets the timer again.  The clock counts modulo
`ClockMod` and the timeout is an unsigned difference, as in the code.  `silence`
is a history variable: the true time since a source's last heartbeat, which the
program does not have and the specification speaks about.

`HeartbeatMonitor` is the abstract promise: a heartbeat puts a server online; it
goes offline only after a silence of more than `Timeout`; and time cannot pass
beyond `Timeout + Grace` with the server still online.  The last clause makes
"soon after the timeout" a safety property, so it can be refuted by a finite
behaviour.  `ServerList` is shown to implement it with `online <- serverState`.

### SendQueue

One connected session as its senders see it.  `async_send` is `BeginSend`, `Push`
(the section under `send_mutex_`) and `Post`; any worker may be in it, the one
that runs the session's read handler included.  `strand` is the worker that runs
a handler of the strand: the posted function (`RunPosted`, `RunPostedBusy`),
`start_write` (`StartWrite`, `StartWriteNothing`), `handle_write` (`HandleWrite`,
`Pop`, `HandleWriteError`), a read's handler, and `close`, which the main thread
runs too, outside the strand.  `wire` is a history variable, the packets the peer
was sent.  `connected_` is not guarded by the mutex; `start_write` reads it once,
in the step that arms the write.

`PacketChannel` is a backlog and what the peer was sent: packets enter at one
end and leave at the other.  Its backlog is `send_queue_`, less the front packet
while it is on the wire and not yet popped.

### ReceiveBuffer

The buffer is the sequence of its `recv_buffer_size_` valid bytes; what lies
beyond is left out, and so is what `process_packet` does with a packet.  One turn
of the loop is `ProcessPacket`, `BadPacket` or `NeedMore`; these three are the
outcomes `PacketFormat` names `Whole`, `Bad` and neither.  The loop looks at nothing
before it has three bytes, so a packet of two waits for a byte that is not its own,
and so does the rejection of a bad first byte; `PacketStream` says exactly that, and
that the session reads on only when the loop can neither cut nor reject.  The byte values, the
header values and the buffer size are constants.  `stream` (all bytes received),
`dropped` (how many the moves have removed) and `packets` (offset and size of
each packet processed) are history variables; they name packets by their place
in the stream, so that `PacketStream`, which never sees the buffer, can say which
packets there ought to be.

### ReadScript and ServerFile

`GetToken` is an operator over a text and a position; its do-while loop over
blanks and comments is a recursive function.  It keeps the code's particular
ways with the character after a token: a number consumes it, a word puts it back,
a quoted string puts back a newline only, and a word cut by the end of the file
is no string.  `ServerFile` has one action for each read of `Load` (`ReadCode` to
`ReadShow`, which inserts) and `Stop` for the end and for every read that throws.
A file is drawn as a sequence of lines (a server, a server with a comment, a
server line broken off or with an unquoted address, a `//` comment, a `#` comment,
a blank line, `end`) and written out as text, with and without a last newline;
`ServesTheFile` compares what was loaded with what the lines say.  The codes a file
may use, with the numeral it writes for each, and the number of its lines are
constants (`Numeral`, `MaxLines`).  A numeral has one to seven digits: up to there
`(float)atof` is exact, and far from the end of the 100 characters the tokenizer copies
a number into (ReadScript.cpp:120, 138).

The repository's README (README.md:131-132) shows a `ServerList.dat` with a `#`
comment and an unquoted address.  Both are kinds of line here ("hash" and
"unquoted"), and either ends the load: the tokenizer knows `//` comments only and
takes an address for a number.  The servers before such a line are served, those
after it are not.  (`config/ServerList.dat.example` is in the format that works.)

### ListService

`Load` is `ServerFile`'s; when it has returned, `Serve` lets the workers start.

| code | definitions |
|---|---|
| `process_packet`, `ConnectServerProtocolCore` | `Receive`, `Dispatch` |
| `CCServerInfoRecv`, `GetServerListInfo` | `CCServerInfoRecv`, `Info` |
| `CCCustomServerListSend`, `GenerateCustomServerList` | the action of that name; `CustomEntries`, `CustomSize`, `CustomList` |
| `CCServerListRecv`, `GenerateServerList` | the action of that name; `PlainEntries`, `PlainSize`, `PlainList` |
| `GCGameServerLiveRecv` | `GameServerLive`, on another worker, between the two lists too |
| the structures and their `set` | `CustomHeaderSize` to `InfoSize`, `LargeHeader` (16-bit size), `SmallHeader` (8-bit size) |

A request is what the dispatch reads at the places of the head, subhead and code
of the packet, and its size, which says how many of these bytes are the packet's
own.  (The codes clients ask for are the constant `RequestCode`.)  `ClientSession` lets packets pass that are shorter than that; what lies
beyond them is arbitrary, so every combination is drawn, and `AnswersTheRequest`
speaks of the packets that have the bytes their answer depends on.  `send[]` is
filled without a check: a list longer than the buffer leads to the place
"undefined", where nothing more is said of the thread.  Replies here are what is
handed to `async_send`; which client receives them is `SocketManager`'s matter.

### ConfigFile and ServerProcess

`ConfigFile` folds `LoadLine`, one turn of `ConfigManager::load`'s loop, over the
lines; its state is the current section and the map.  Lines are made of
characters, a name counting as one: sections and pairs with and without blanks
around them, values that are numbers, begin with a number, are no number, are
empty or too large for an int, comments, an unclosed section, a word.

| code | actions of `ServerProcess` |
|---|---|
| `main` up to the wait (main.cpp:68-186) | `LoadSettings`, `StartServers` or `StartFails`, `StartTimers`, `StartWorkers`, `StartInputLoop` |
| `while (g_running)` (189) | `Wake` |
| `io_context::run` in a worker | `TakeLock`, `Dequeue`, `LeaveRun` |
| the handlers of the timers and of the UDP receive | `Callback`, `CheckRunning` (the look at `running_`), `Arm` |
| `TimerManager::stop`, `SocketManager::stop`, `SocketManagerUdp::stop` | `StopTimers`, `CancelTimers`; `StopTcp`; `StopUdp`, `CloseUdp` |
| `io_context.stop()`, join (202-209) | `LockIo`, `StopIo`; `Join` |
| `ConsoleInterface::stop` in main | `StopConsole`, `CancelInput`, `DetachInput` |
| return of main, destructors | `Unwind` |
| the input thread | `InputBegins`, `Prompt`, `ReadLine`, `QuitCommand`, `OtherCommand`, `InputCancelled` |
| `signal_handler` | `Signal`, `SignalStopIo`, `SignalStopConsole`, `SignalCancelInput`, `SignalDetachInput` |

A signal handler runs on a thread that is in the middle of something: `sig[t]` is
where the handler is, `at[t]` where the thread goes on when it returns, and while
`sig[t]` is not "none" the thread itself does not move.  `ioLock` is
`io_context`'s internal mutex, which is not recursive; it is followed because
`signal_handler` may ask for it while the interrupted call holds it.  `late[l]`
counts the callbacks of loop `l` begun after the loop was stopped.  A second
`detach`, a `pthread_cancel` of an id that is not set, and a destroyed thread
object whose thread still runs set `crashed`, or may set it where the outcome is
undefined.

## 3. Runs

| run | instance | properties | what it shows |
|---|---|---|---|
| `sm_single` | 1 worker, 3 sessions, 2 slots, 2 addresses, limit 1 | `TypeOK`, `CountsExact`, `IpLimitHolds`, `OneSurvivesStop` | without concurrency between handlers the counters are exact on every path, up to `stop()`'s sweep, and the limit holds although the check and the count are far apart; at most one connection, accepted before the acceptor was closed and stored after the sweep, is left by `stop()` |
| `sm_workers` | 2 workers and main, 3 sessions, 1 slot, vanishing clients | `OneAcceptLoop`, `SlotOwnership`, `ConnectedIsServed` | with handlers overlapping, lost counter updates and `stop()` in between: one accept loop, slots owned, no session stranded |
| `sm_live` | 1 worker and main, 2 sessions, fairness | `StopCompletes`, `KeepsAccepting`, `FailedSessionCloses` | shutdown ends, the loop survives every error, failed sessions close |
| `server_list` | 1 worker, JoinServer and 1 server, clock mod 14 | `TypeOK`, `OneReceiveChain`, `OneTimerChain`, `MonitorsHeartbeats` | the refinement, over many wraps of the clock, with the smallest `Grace` for which it holds; the two chains |
| `send_queue` | 2 workers and main, 2 packets, 4 sends | `OneWriteAtATime`, `NoPacketLeftBehind`, `SendsInOrder` | the refinement of the channel, with sends, completions, failures and closes interleaved |
| `receive_buffer` | 4 byte values, one header of each kind, buffer of 5, streams of 10 | `RoomForRead`, `CutsTheStream` | every stream in every segmentation, the packets of each as soon as the loop can tell them |
| `list_service` | files of up to 3 lines with 3 codes, buffer of 80 bytes (two custom entries) | `ServesTheFile`, `AnswersTheRequest`, `ListsFit` | the file, the tokenizer, `Load` and the answers agree, both lists in order and alike; a request for the code 44 never gets the server 300; other packets get nothing; the buffer is exceeded by too many shown servers only |
| `process` | 2 workers, 1 timer and the UDP loop, configuration files of up to 3 lines, 2 signals, fairness | `TypeOK`, `SettingsAsWritten`, `OneCallbackAfterStop`, `NeverTerminates`, `ShutdownCompletes`, `LoopsGoOn` | the settings used, the loops until and after their stop, shutdown by quit, signals or both |
| `sm_ip_leak` | 1 worker | `CleanedUpOnDisconnect` violated | see below |
| `sm_stale_reply` | 2 workers | `ReplyReachesRequester` violated | see below |
| `server_list_race` | 2 workers | `NeverOfflineEarly` violated | see below |
| `process_signals` | as `process`, no configuration, a signal inside `io_context.stop()` | `ShutdownCompletes` violated | see below |

Each property of a passing run has a mutant in `PROJECT.json`: an operator
beside the original (marked "Mutant") that changes one definition the way a
plausible bug would, with which TLC finds the property violated.

The disagreements found:

* `sm_ip_leak`: a client that is gone when `start()` asks for its address leaves
  its entry in the address table and one too many in `gClientCount`: `start()`'s
  catch block calls `close()`, which does nothing for a session that is not yet
  connected.  With a limit configured the address is in the end refused.
* `sm_stale_reply`: a reply is routed by slot index.  A session's read has completed
  with a request when one of its writes fails; `handle_write` runs first on the
  strand and closes the session.  The slot is found free, a new client's session is
  stored in it and connected, and then `handle_read`, which was given no error and
  does not look at `connected_`, answers the request: to the new client.  No
  `stop()` is needed, and no two handlers of one session overlap; two workers make it
  likelier than one would.
* `server_list_race`: a heartbeat stores the state before the time.  `MainProc`
  on another worker in between sees an online server whose time is still 0 and
  marks it offline at once; the heartbeat's time then lands in an offline entry.
* `process_signals`: after `quit`, main is inside `io_context.stop()` when a Ctrl+C
  reaches it; the handler calls `stop()` again on the same thread and waits for the
  mutex that thread holds.  The window is a few instructions wide, but nothing
  excludes it: `io_context::stop` is not async-signal-safe.

`SocketManager.cpp:56` says of the sweep in `stop()` "Close all sessions".  That is
true but for one: a worker that has completed an accept before and is held up
until the sweep is over stores and starts its session then.  `OneSurvivesStop`
states what does hold.

Where code and documents disagree and the modules follow the code, without a run of
their own:

| documents | code |
|---|---|
| a packet has at least 3 bytes, and a smaller size disconnects the client (docs/PROTOCOL.md:16, 325, 370) | a size of 2 is accepted (ClientSession.cpp:129) and cut as a packet; it waits for a third byte (102), and the head that is handed on is the first byte behind it.  So it is for the large header: a size of 3 passes, with the head behind it |
| a JoinServer that is offline or has more than 100 in its queue has requests refused (docs/PROTOCOL.md:216, 242; docs/ARCHITECTURE.md:325) | `CheckJoinServerState` is always true, a TODO (ServerList.cpp:111-128); requests for one server do not call it.  `AnswersTheRequest` says that whoever asks is answered |
| a server that is offline affects the lists (docs/PROTOCOL.md:214-216) | the checks of `ServerState` are commented out (ServerList.cpp:142-144, ConnectServerProtocol.cpp:143-146): offline servers are listed and named |
| an entry of the plain list has 3 bytes (docs/PROTOCOL.md:130-143) | `PMSG_SERVER_LIST` (ConnectServerProtocol.h:49-53) is not packed and has 4: `PlainEntrySize` |
| graceful shutdown by Ctrl+C (main.cpp:56, PHASE2_COMPLETE.md:133) | besides `process_signals`, the moments that `SignalPlace` leaves out (see the bounds) |

### Bounds, and why they are enough

* Slots, sessions, workers: a property of the accept loop concerns one accept and
  at most two threads at a time; two workers and main already give every pair of
  handlers, and with one slot every accept competes with the session before it.
  Three sessions allow one in the slot, one still held by a handler, and one
  being accepted; `NameToSpare` keeps a client from connecting when there would
  be no name for the session after it (never a limit of the program).
  `sm_single` has two slots and two addresses for the counters.
* `CountCap`: no client connects once a counter has drifted that far (lost
  updates and leaks grow without bound).
* `CountMod` 4 in place of 2^16; `CountCap` keeps the address counters under it,
  so the wrap is only reached by a mutant.  The proofs hold for every modulus, but
  those of the counters need one above `MaxClient` + 1 (10001 and 65536 in the code).
* `MaxReplies` 1: one reply suffices to be misrouted, and the loop over the
  packets of a read has no memory.  It is 0 in `sm_workers`, where a reply would
  only touch the session's write operation, as `SendInit` does there anyway; the
  theorems about that run's first two properties hold for every value.
* `PeerMayVanish` says whether `remote_endpoint()` may fail right after an
  accept.  It is TRUE in `sm_workers`, `sm_live` and `sm_ip_leak`; `sm_single`
  sets it FALSE because `CountsExact` is false otherwise, which is what
  `sm_ip_leak` shows.
* `Timeout` 5, `Period` 2, `Late` 1, `ClockMod` 14 in place of 10000, 1000, the
  scheduling delay and 2^32.  `Late` bounds how long after its expiry a timer
  round ends; an online source whose silence outgrows the timeout just after it was
  looked at is noticed in the round after, so `Grace` is
  2 * (`Period` + `Late`) + `Late` = 7: TLC refutes the refinement with 6, and the
  proof needs no more than 7 (`GraceCoversTwoRounds`).  `server_list_race` has
  `Timeout` 3, `Grace` 6 and `ClockMod` 12; its property is violated whatever they are.
  `ClockMod` must exceed `Timeout + Grace + 1` for the unsigned difference to be
  meaningful (the assumption `ServerListAssumption`); the code's margin is vast.
* `MaxSends` 4, two workers: a write in flight, a packet behind it, and two
  threads queueing more.  The theorems hold for every value.
* `Base` 4, header values 3 (small) and 2 (large), buffer 5, `StreamCap` 10: a
  size byte can be 0 to 3, and a two-byte size 0 to 15, so sizes below the
  header, equal to it, equal to the buffer and beyond it all occur (2 of a small
  and 3 of a large packet among them, which the documents forbid), and a stream
  is twice the buffer.  The theorems hold for every value.
* `MaxLines` 3: two lines of the same code, and a line before, between or after
  them; two shown servers and a hidden one, or three shown.  A file whose last line ends in a bare word without a newline is left
  out (`Terminated`): the code drops that word, and its server.
* `Numeral`: the codes 0, 44 and 300: two that are a byte, and one that is none and
  ends in the other's byte.  `RequestCode` is 0 and 44; each may be in the file, shown
  or hidden, or not in it.  The theorems hold for any codes and numerals.
* `SendBuffer` 80 in place of 2048: two entries of 34 bytes after a header of 7 fit,
  three do not, as 60 entries fit 2048 bytes and 61 do not; with two, a list has an
  order to keep.  Neither the 8-bit count nor the 16-bit size can wrap in a list that
  fits 2048 bytes, so no property is about them.  The theorems hold for every buffer.
* `MaxConfigLines` 3: a section and the same key twice, or a section, its key and
  another section.
* `Timer` {t1}: the two timers differ in their periods and callbacks, not in their
  start, their stop or their handler; `LoopsStop` is proved for any set of timers.
  Two workers, so that one handler may be under way while another begins.
* `MaxSignals` 2: the second may come while the handler's effects of the first are
  still new to main, together with a quit.
* `SignalPlace` says where a thread may be when a signal reaches it.  In `process`
  it is main while it waits, which is nearly always, and before, between and after
  its calls of the stops.  `NeverTerminates` claims nothing of the other places, and
  with them in `SignalPlace` it or `ShutdownCompletes` fails, or TLC finds a
  deadlock, as the code does:
  - inside `io_context`'s mutex ("stoppingIo", or a worker's "dequeue") the handler may
    wait for ever; `process_signals` is one case;
  - inside main's own console stop, after its test of `joinable` ("cancelInput",
    "detachInput"; ConsoleInterface.cpp:84-88), a handler on main itself cancels and
    detaches the input thread first, and main's `detach` then throws
    `std::system_error`, which nobody catches; a handler on another thread can do the same;
  - during the start-up, and as long as "begin" is the input thread's place, the console
    may be stopped before the input thread has stored its id;
  - during main's destructors ("unwind") the handler finds dead objects.

### Fairness

`StopCompletes`, `KeepsAccepting` and `FailedSessionCloses` are checked under
`FairSpec`.  Weak fairness of the steps of a handler and of main: the operating
system runs every thread.  Strong fairness of a worker answering a packet: it
may find the mutex taken repeatedly but not for ever.  Strong fairness of taking
each completed operation: `io_context`'s queue is first-in first-out and
handlers end.  Nothing is assumed of clients or the network: an accept, a read
or a write may stay pending for ever.

`ShutdownCompletes` and `LoopsGoOn` are checked under `ServerProcess`'s `FairSpec`:
strong fairness of each thread, its own steps and those of a signal handler on it
taken together (the operating system runs every thread, and who waits for a
mutex that is taken time and again gets it in the end), and strong fairness of
dequeuing each completed operation.  Nothing is assumed of what is outside: no
line need be typed, no signal sent, no timer or datagram completed (`ReadLine`,
`Signal`, `Completes` have no fairness), and the configuration need not be read.

## 4. Proofs

`SocketManagerProofs` proves for any finite or infinite sets of workers,
sessions and addresses, any `MaxClient`, limit and counter width:

* `TypeCorrect`: `Spec => []TypeOK`.  `TypeOK` is not inductive: that `cur[w]`
  is a session, or that `cursor` is in range where a slot is indexed, follows
  from where the thread is.  `Typing` adds these facts.
* `AcceptLoopIsOneChain`: `Spec => []OneAcceptLoop`.  The strengthening
  `ChainInv` adds where the incoming session is and who owns the mutex.  Only
  accept steps, environment steps on `acceptOp` and `stop()` disturb it; for all
  the others one lemma (`QuietPreserves`) suffices.
* `SlotsAreOwned`: `Spec => []SlotOwnership`.  The inductive part says for each
  place of the accept handler what is known of its session: stored and not yet
  connected between `Store` and `Start`, while nobody else can touch its slot
  because the accept loop is one chain, and the slot found free remains free
  until it is filled because only the chain connects sessions.  The proof
  therefore rests on the previous two.

The assumptions are `IpAssumption` and `SocketAssumption`, which TLC evaluates
in every run.  The theorems cover the lost updates of the unlocked counters:
none of the three depends on the counters being right.

It also proves `SessionsAreServed`: `Spec => []ConnectedIsServed`.  The
invariant `ServedInv` needs more than the property: that a thread at rest holds
no session (`AtRest`), that a session stays unconnected once `close()` has cleared
`connected_` (`Marked`), and that the session of an accept is new and known to
nobody but `stop()` until `start()` connects it (`IncomingNew`, `StartingNew`).  It rests on the three invariants above.

`SocketCountProofs` is about what the slots, sessions and counters add up to:

* `AtMostOneSurvivesStop`: `Spec => []OneSurvivesStop`, for any number of workers.
  While the sweep is at a slot, at most one session is connected behind it
  (`OneBehindSweep`), because after the acceptor was closed only the accept that
  had completed before can still store a session, and a session that is about to
  be stored is that one; `ChainInv` says that there are no two.
* `OneWorkerCountsExactly` and `OneWorkerCleansUp`: `CountsExact`, and
  `CleanedUpOnDisconnect`, the promise `sm_ip_leak` refutes.  `CountInv` gives, for
  each place in the handlers that count, what the counters are there: one more than
  the connected sessions between the count and `start()`, or between `close()`'s
  mark and its decrement.  It needs three hypotheses, and each is needed: one
  worker (two of them lose updates of the unlocked counters), no peer that
  vanishes between its accept and `start()` (`sm_ip_leak`), and counters wider than
  `MaxClient` + 1.  They describe the server on one processor, with clients that
  stay for the few instructions `handle_accept` takes.
* `OneWorkerKeepsIpLimit`: `Spec => []IpLimitHolds`, under the same hypotheses.  The
  limit holds beyond `CountsExact`: also while `stop()`'s sweep runs beside the worker,
  when both may discount a session and the table is too low.  `LimitInv` bounds the
  connected sessions themselves.  After `stop()` has begun at most one accept is still
  to be checked, and it finds a count that was right when the acceptor was closed, or
  an address with room to spare (`LastCheckRefuses`).

`ServerListProofs`, for any number of workers and servers, any timeout and clock
width: `ListTypeCorrect`, `ReceivesAreOneChain`, `ScansAreOneChain`.  The
invariant joins the three with `InRange`: the packet a receive handler holds is a
heartbeat, and the scan's iterator is inside the list wherever it is used, which
needs that there is one scan.  For one worker it proves `ListMonitorsHeartbeats`,
that `ServerList` implements `HeartbeatMonitor` step by step, and
`OneWorkerNeverEarly`, the promise that `server_list_race` refutes for two.  The
invariant `HeartbeatInv` says that the unsigned difference of the clock and a stored
time is the true silence as long as the source is online, and how far the silence
of a source may have grown at each place of the timer's round, before and behind the
scan's iterator; its bound is `Grace`, and with it no silence reaches the clock's width.

`SendQueueProofs`, for any sets of workers and packets: `WritesDoNotOverlap`,
`PacketsAreNotForgotten`, and `SendQueueRefinesChannel`, that `SendQueue`
implements `PacketChannel`.  The inductive invariant ties the places of the
strand's handlers to `strand` (one at a time), `write_in_progress_` to an
outstanding write or a handler on its way to look at the queue again, and a
non-empty queue to somebody responsible for it.

`ReceiveBufferProofs`, for any byte values, headers and buffer size of at least
three: `ReadsHaveRoom` and `SegmentationDoesNotMatter`,
that `ReceiveBuffer` implements `PacketStream`.  The invariant is `Window`: the
buffer is the piece of the stream after the dropped bytes.  `SameBytes` says that
the loop's verdict depends on the bytes it sees alone, hence is the same in the
buffer and in the stream.  The room for the next read follows because an
incomplete packet is smaller than the largest packet, which is the buffer's size.

`ListServiceProofs`, for any file, heartbeats and requests, and any buffer:
`ListsFitBuffer`.  `ServiceInv` says that the servers
are a finite set of entries, and what was answered when a handler is at each of its
places, that it fitted the buffer included.  `RequestsAnswered`: `Spec =>
[]AnswersTheRequest`, for any files, codes, numerals and requests.  `FileInv` says that
the text is one, that every field `Load` holds is what it expects there (a number,
a string of characters) and that the entries are in the map under their codes; that
needs that the tokenizer's reads stay inside the text, whose recursive functions and
folds are proved to exist on every prefix of it by induction on the numbers up to
its length (`PrefixInduction`'s `UpTo`, from `WellFoundedInduction`'s theorem that the
numbers are well founded).  `SortedOf` says that a finite set of codes has an arrangement in order, and
`AnswerOK` relates what was sent to the entries at each place of the handler.

`FileIsServed`: `Spec => []ServesTheFile`, for files of any number of lines of
`Line`'s kinds in any order, with any codes and numerals, except one that ends in a
bare word without a newline (`Terminated`, see the bounds).  The file is one text, in
which a token may take the newline that ends its line, so the proof follows
positions:

* `FileLaid` finds where each line starts, `ServerLineWords` where each word of a
  server's line does (`Laid`, `LineWords`): both from what a concatenation has at
  each place (`FlattenPieces`).
* `ReadsNumber`, `ReadsQuoted`, `ReadsWord` and `SkipComment` say what the tokenizer
  makes of a word at a known place, whatever is around it; `ReadsCode` to `ReadsFlag`
  what each read of `Load` finds on a server's line and where it leaves the
  position, complete or broken off.  The port's token ends behind the newline of a
  line without a flag: `ReadsNoFlag` shows that no line behind it begins with
  something that could be taken for the flag.
* Between lines a position is known only up to what is skipped: `SkipQuiet` and
  `SkipRest` say that the code is looked for at the same place from there as from the
  start of the next line.
* `Reached`, the invariant, says that Load has taken the first m lines, all complete
  or to be skipped, that `servers` is their list, and for each of its reads the word
  it is at and the fields it holds.  `LoadAtLine` and `LoadInLine` carry it over every
  read, and when Load stops, `CountingIs` says that those lines are all that count.

It needs that a numeral is not empty (in `ServerFileAssumption`): a server's line
without its code would be read as another line.

`ServerProcessProofs`, for any sets of workers and timers and any number of
signals:

* `LoopsStop`: `Spec => []OneCallbackAfterStop`.  `LoopInv` says that a loop is one
  chain (`OneChain`: while a worker runs its handler it is the only one, and the loop
  has no other operation), that nobody runs before the workers are started
  (`NotYet`), and that a loop which has called back after its stop has no operation
  left and its handler has not got past the look at `running_` (`Spent`).
* `SignalsAreSafe`: if signals reach main in its wait or before, between and after its
  calls of the stops (`SignalPlace` is a subset of `BetweenCalls`), `Spec => []NeverTerminates`.  `SafeInv` says that only
  main has a handler (`SignalsOK`), that the input thread has stored its id before
  anything can stop the server (`InputOK`), that whoever is about to detach finds it joinable
  (`DetachOK`), and that the workers have been joined when main's locals go
  (`WorkersOK`).
* `SettingsAreRead`: `Spec => []SettingsAsWritten`, for files of any number of lines
  of `ConfigLine`'s kinds.  `PairLoads`, `SectionLoads` and `OthersLoad` say what one turn
  of `load`'s loop makes of the text of each kind of line, whatever blanks are around
  its parts; they rest on what `Trim` and the search for the first `=` find in a text
  of which only its ends are known to be no blanks (`TrimPadded`, `PairText`).
  `Loaded` relates the loop's state after k lines to those lines: the section, and for
  each key the value of its last line in the section.  `LoadedStep` carries it over one
  line, `FileIsRead` to the end of the file, by `UpTo`; the fold is taken
  apart turn by turn in `LoadByLine`.  `StoiOf` says that `Stoi` reads the number a
  value stands for.
* `ProcessTypeOK`: `Spec => []TypeOK`, wherever signals strike.  That a worker in a
  handler has a loop is `OneChain`, and that the settings are numbers of the file is
  `FileInv`, the invariant of the previous theorem.

The assumptions of these modules (`ServerListAssumption`, `SendAssumption`,
`FormatAssumption`, `StreamAssumption`, `ServerFileAssumption`, `ListAssumption`,
`ConfigAssumption`, `ProcessAssumption`) are evaluated by TLC in their runs.

Only model-checked: liveness, which TLAPS's provers do not reach.  Every invariant
and every action property of the passing runs is the subject of a theorem.

## 5. What is left

1. `SocketManager` with `SendQueue`'s view of a session in place of its one write
   operation, at least as a refinement between the two.
2. `ListService` over `ServerList`'s step-by-step heartbeats, should the code take
   up the checks of `ServerState` that it has commented out (ServerList.cpp:144).

## 6. Not modelled

* `Queue` is compiled and used by nothing: there is no caller whose calls or
  interleavings a model could follow.  The same holds for `CriticalSection`,
  `SocketManagerUdp::async_send`, `ClientSession::check_timeout`, and
  `ConfigManager`'s `get_string`, `has_section` and `has_key`.
* The idle timeout of docs/PROTOCOL.md:387 has no code: the 5-second timer's
  callback is empty.
* The commands other than `quit` print, or toggle what is logged
  (`gConsole.EnableOutput`); `reload` only says that it will be implemented.
* Which port is bound: the `int` of the configuration is cut to 16 bits by
  `start`, and what happens then is the socket library's matter.
* Console output, logging and formatting.
* The crash handlers (they write a report and exit), the phase test programs,
  which are stages of the port and not the server, the build files and scripts.
* In `ReadScript` the lengths of the C buffers, line counting and the float reads
  (without a caller); in `Util` everything but the client count and the clock.
* Memory corruption after undefined behaviour: the models stop there, or give the
  outcomes a build can produce where these can be named.
