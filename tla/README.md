# mds_gpsd3: specifications, model checking and proofs

`mds_gpsd3` is a daemon for an Android-based vehicle board. It runs at most one GPS session
on the board's location library at a time, starts and stops sessions as UDP commands ask,
restarts a session that died, and broadcasts the NMEA sentences of the session. This
directory holds TLA+ modules translated from `src/src` (the daemon) and `src/garden-src`
(the GPS session, derived from the vendor's test program), the TLC runs over them, and
proofs checked by TLAPS.

## 1. The system

| Part | Code | State | Operations | Talks to |
|---|---|---|---|---|
| GPS manager | `garden_tools.cpp`: `main`, `gps_start`, `gps_stop`, `_gps_start`, `garden_mgr_thread`, `msg_recv_proc_gps_tools`; `gps_ipc.h` | `gps_thread_stat`, `garden_mgr_tid`, `garden_force_stop`, all plain globals; main's `no_start_flag`, `gps_thread_invalid_chk_cnt` | start argument, watchdog poll, `set_start_*`, `set_stop`, `set_reset_*`, `get_stat` | a session by `pthread_create`/`pthread_join` and `garden_force_stop`; clients by the UDP server |
| GPS session and helper | `test_android_gps.cpp`: `garden_entry`, `test_main`, `test_thread`, callbacks | location library handle, `test_thread_action` and its mutex and condition, `sOptions.agpsData.apn` | a session from entry to `sleep(5)`; AGPS status and XTRA callbacks; the helper's switch | location library and XTRA client by calls and callbacks |
| Session options | `garden_tools.h` (six command lines), `garden_entry` | `_gps_default_type`, `sOptions`, getopt's `optind`, `/etc/gps.conf` | read a command line, read the file | the session, the download callback |
| XTRA download budget | `garden_tools.cpp:26-75`, `test_android_gps.cpp:414-444,685-717` | two counters, the XTRA file | request, answer, clear on a cold start | XTRA client |
| NMEA batches | `garden_tools.cpp:104-163`; `mds_udp_ipc_svr.cpp:172-241` | static buffer and size; a socket per poll | collect, discard, broadcast; `udp_ipc_data_recv_timeout` | applications that poll |
| UDP server | `mds_udp_ipc_svr.cpp` | table of message loops | start, end, the loop | the manager's handler |
| UDP client | `mds_upd_ipc_clnt.cpp` | tables of ports and sockets | send, send and wait | any server |
| Log client | `mds_logd.cpp` | one descriptor | `mds_logd` | the log daemon |

The remaining parts keep no state the others read: callbacks that only print, a string
filter nobody calls, `fork` and the redirection of stdio, the stack dump, the `loc_ext`
stubs, and the splitter of command lines (section 8).

### What is hard here

* Three kinds of thread (main, the server, a session) share the manager's globals without a
  lock, and test and set them in separate statements.
* `gps_stop` blocks the only server thread in `pthread_join`, on a session that ends only
  when it sees a flag that the session itself also writes.
* `pthread_create`'s result is ignored; a dead session the watchdog replaced is never joined.
* The helper thread waits on a condition variable without a predicate, has one slot for
  work, which each new session clears without the mutex, and does not live as long as the
  statics around it.
* The interface of the location library, the XTRA client and the helper may each be missing,
  and the session goes on without looking.
* Statics outlive sessions: options, getopt's position, the NMEA buffer, the counters.
* `lib_handle` guards what is to be done once and is assigned thirty lines later; only
  `gps_thread_stat` keeps sessions from meeting there.
* Message loops notice that their slot was cleared up to ten seconds later; slots are reused,
  and callers need not wait.
* Answers may come after the call that asked has given up, on a socket that is kept, and
  with more ports than slots on a socket that is shared.

`PROJECT.json` lists each hazard at its line with the property about it.

### What makes each part correct

* Manager: the status says what is there; only a thread that can be joined is joined; one
  session at a time; an answered command has been obeyed, and where not the reason is known;
  a stop returns; a dead session is restarted and one that was switched off is not.
* Session and helper: sessions never meet in `garden_entry`; library, interface, XTRA client
  and helper are made once, before they are used; work is only lost in known ways; no QUIT
  and no APN outlives its session; a session gets on, whatever the helper does.
* Options and budget: a session runs with its own command line's options; downloads stay
  within a budget and are refused only when it is spent.
* NMEA: batches are runs of consecutive sentences, with their true size; a poll hands over a
  whole batch, once, with a fix taken after the poll began.
* UDP server: an active port is served by its newest loop; a loop leaves when, and only when,
  its port is ended; no slot is lost or shared.
* UDP client: a call reads answers of its own port, in order and not too old, and returns.
* Log: the race on the descriptor costs a bounded number of descriptors and messages.

## 2. Modules

| Module | Models | Extends or instantiates |
|---|---|---|
| `GpsMgr` | the manager: one action per stretch of code between two accesses to a shared global | |
| `GpsService` | abstract: what the manager port promises (off, starting, on, ending) | |
| `GpsMgrService` | the refinement | `GpsMgr`, `GpsService` |
| `TestThread` | sessions, one per manager thread, callbacks, the helper and its slot | |
| `GpsDaemon` | the daemon: the manager's threads run the sessions | `TestThread`, `GpsMgr` |
| `GardenOptions` | the switch of `garden_entry` and its loop over a command line | |
| `XtraDownload` | download requests, answers and their absence | |
| `SessionStart`, `MCSessionStart` | `_gps_start` prepares both in one start | `GardenOptions`, `XtraDownload` |
| `NmeaBatch` | the NMEA callback and its buffer; sentences are records with a length | |
| `NmeaChannel` | the sender with an application that polls | `NmeaBatch` |
| `UdpIpcServer` | the table of servers and their loops | |
| `UdpIpcClient` | the client with the servers it calls | |
| `Logd` | the log client | |

Each of the seven `...Proofs` modules extends the module whose properties it proves:
`GpsMgrProofs`, `GpsDaemonProofs` (and `TestThread`'s), `SessionStartProofs` (and its two
parts'), `NmeaChannelProofs`, `UdpIpcServerProofs`, `UdpIpcClientProofs`, `LogdProofs`.
`Recursion` has lemmas about functions defined by recursion, which two of them use.

Definitions whose name has an underscore and a suffix (`Refused_Never`) are faulty variants
of the one they stand before, commented as mutants. No specification uses them: each shows
that a property notices the fault.

### How state and actions correspond to the code

**GpsMgr.** `mpc` is where `main` is: `boot` (start argument), `serve`
(`udp_ipc_server_start`), `poll` (the test of the status and `no_start_flag`), `chktid` (the
test of the handle and the count), `startchk` and `create` (the two halves of `gps_start`).
`spc` is where the server is inside the handler, in the order of the statements of `gps_start`
and `gps_stop`; `join` and `joining` are apart because `pthread_join`'s argument is a second
read of `garden_mgr_tid`. `thr[t]` is what the thread with handle `t` has done: `created`,
`marked` (status set), `armed` (`garden_force_stop` set by `_gps_start`), `nav` (in
`test_main`'s loop), `unwinding`, `ended` (status cleared, not joined), `free`. A failed
`location_init` goes from `armed` to `unwinding`. With no free handle `pthread_create` fails
and nothing changes, as in the code. `failed` is history: a `location_init` has failed since
the last command came. `AnswerTrue` needs it: after an OK there is a session unless it
failed, or, after a start, unless every handle is that of a dead session.

**TestThread.** `pc[t]` follows `garden_entry` and `test_main` in thread `t`. `lib_handle`,
`interface` and `xtra_engine_init_flag` are tested and assigned in steps of their own
(`CreateHelper`, `Load`, `MakeInterface`, `XtraInit`, `XtraFlag`), as the code does with other
calls in between; `dlopen` or `dlsym` failing is `exit(-1)`. `interface` is `null` when the
library has no `create` or it gives nothing: the session then ends the process at
`location_init` (`LocationInitDies`), unless the helper has before it (`ServeDies`). Without
an XTRA client `XtraInit` goes straight on; `CreateHelper` may leave no helper. The mutex is held by the helper
exactly while it is `serving`; `apn` names the thread on whose stack the APN string lies;
`early` and `fresh` are history. After a second `CreateHelper` a mutex in use has been
initialised again, which is undefined: the model records it and goes no further. `Spec` lets
one session follow another; it does not say why they do.

**GpsDaemon.** That is what it says: `Manager` is what `main`, the server and a thread
before `garden_entry` do; `Inside(t)` the steps of a session the manager takes no notice of;
starting to navigate, failing to and leaving the loop are one step of both modules
(`Thread`); and a thread clears `gps_thread_stat` (`MarkStopped`) only when `garden_entry` has
returned. `DaemonSpec` puts nothing between sessions: whether they overlap follows from
`gps_start`'s guard.

**SessionStart.** `StartSession` is `_gps_start` up to the point where options are read: the
type chooses one of six command lines, a cold one clears the counters and the file first.
The two modules share `starts`, and `enableXtra` is the `xtra` field of `sOptions`. A request
that is granted is `asked` of the XTRA client, or `missed` where there is none to ask.
`GardenOptions!Parse` is the `getopt` loop, a function over the places of the command line;
of the nine settings in `cfg_parameter_table` the two hosts stand for those that are forced
afterwards and those that are not.

**NmeaBatch and NmeaChannel.** `Nmea` is the callback after its `$GP` filter. The size
arithmetic is the code's, the carriage return included; what `sprintf` writes is abstracted to
the sentence. A poll is `Bind`, then `Receive` or `Fails`; a batch reaches the socket only
while a poll is bound, and may be lost; `recvfrom` cuts it to the receiver's buffer, and the
caller's buffer, of the length passed to this call, is left as it was if it is too small,
although the size is returned. `HandedOver` is what a caller can see of that: a size smaller
than its buffer.

**UdpIpcServer.** `Start` and `End` are each one action (one calling thread); each loop
thread copies its argument, binds, tests `thread_run` and receives in separate actions. A call
that does not wait for the loops to come to rest, or starts a port twice, is counted in
`hasty`; `Overrun` is the use of index -1 when the table is full.

**UdpIpcClient.** `Call` covers slot, socket and `sendto` with each failure path; waiting is
a state, ended by `RecvAnswer` or `RecvTimeout`. The servers answer in order, late, or never.
With the table full a port gets slot 0 and the socket that is there.

**Logd.** Test, `socket()`, store and send are four actions of each thread. `sendto` does not
wait and may fail, which nobody looks at (`refused`).

## 3. The runs

| Run | Question | Answer |
|---|---|---|
| `manager_race` | every interleaving, every start argument, three commands, two handles | the status is sound, joins are safe, and the watchdog always brings a dead tracked session back as long as handles last |
| `manager_service` | a daemon started with `nostart`, clients that leave time between commands, up to three failed sessions | one session, a true status, answers that are true but for a failed session or a start without a free thread, the abstract service is implemented, liveness included |
| `forced_off` | can the watchdog undo a stop? | **yes** (finding) |
| `stop_lost` | can a stop wait for ever? | **yes** (finding) |
| `daemon_sessions` | the same daemon with its real sessions, helper and callbacks, and with library, XTRA client or helper missing | sessions never overlap; set-up happens once and before use; the helper loses work in four ways only (below) and meets no old QUIT or APN; every session gets on |
| `sessions_overlap` | and if commands are not spaced? | helper and mutex **are** set up twice (finding) |
| `session_data` | is XTRA data that arrives in a later session injected? | **no** (finding) |
| `session_start` | three sessions of any type, every kind of daemon, nine requests, with and without a client, the file changing | options are those of the command line; refreshes and fetches each stay within their budget; refused only when one is spent |
| `nmea_channel` | two sessions, six sentences, polls with small and large buffers that miss and lose batches | batches are ordered and whole, handed over once, with a fresh fix, to a caller who looks at the size; only a first batch can carry old sentences |
| `udp_servers` | three ports in a table of two, four starts, two of the calls too early | active ports are served, no slot is lost; with patient callers no slot is shared and an end stops its loop |
| `udp_client` | three ports for two slots, five calls, two faults | answers are mixed up on slot 0 only; elsewhere they are in order, and a stale one is no older than what was given up on |
| `log_socket` | three threads, six messages, two failures of `socket()`, one of `sendto` | bounded leak; bounded loss beside what `sendto` refuses |

`WatchdogRevives` fails without the condition on handles, `CallReturns` without the one on
plain sends: those are the cases the hazards list describes.

The ways in which work a callback posted is lost (`WorkAccounted`): it came before the helper
first waited; the helper has ended, or was never created; a later post, or the QUIT, replaced
it while the helper was woken and had not yet taken the mutex; or it was an answer of the XTRA
client that came between two sessions, and the next one cleared the slot, at
`test_android_gps.cpp:851`, without the mutex. That no AGPS action falls to that clearing, and
that nothing else is lost or slept on, is what the property says.

### The disagreements found

1. **A stop undone by the watchdog** (`ForcedOffStaysOff`). `main` sees status 0 and a
   non-zero handle and passes its limit; the server runs the whole of `gps_stop` and answers;
   `main` goes on to `gps_start`. The test of the handle was added against exactly this
   (comment at `garden_tools.cpp:477-478`), but is not repeated.
2. **A lost stop** (`StopReturns`). A new thread sets the status, then `_gps_start` sets
   `garden_force_stop`. A stop whose clearing of the flag falls before is overwritten;
   `gps_stop` then joins a thread that loops for ever, and the manager port is dead.
3. **Lost XTRA data** (`DataInjected`). Each session ends the helper with QUIT; only the
   first creates it. From the second session on data callbacks signal nobody. The property
   leaves out data that comes before the helper first waits, which a first session loses too.
4. **Set-up that is not done once** (`HelperOnce` in `sessions_overlap`). A start from `main`
   and one from the server both see `gps_thread_stat` at 0; both sessions find `lib_handle`
   null at `test_android_gps.cpp:854`, and each initialises the mutexes and creates a helper.
   The comment at line 853 says it is done only the first time.

Met while reading, not a run: the first `udp_ipc_server_start` of a process claims its slot
before the table is cleared (`mds_udp_ipc_svr.cpp:245-247`), so the slot looks free
afterwards. `UdpIpcServer` models this, and its properties say what holds in spite of it:
they are about ports after the first. The comment at `garden_tools.h:41-42` says that no `-d`
means a warm reset, while `sOptions` starts with the mask that deletes everything; every
command line of the daemon passes `-d`, so nothing follows from it.

## 4. Bounds, and why they are enough

* Handles: two where safety is checked (a live session and one being replaced: the guard
  admits more only by repeating the same race), three where one dead session must be lost
  and the next still start.
* `ChkCnt` is 1 instead of 10: the watchdog passes through below, at and over the limit. No
  property depends on the value, and the theorems hold for any.
* Commands: three for races (a start or reset, a stop in its way, and one after it), four for
  the service. `MaxInitFail` one for races, three for the service: with its three handles all
  of them can be used up by dead sessions, so that a start is answered OK and there is none.
* The daemon: two threads, three sessions, so that what the first leaves reaches a second and
  what the second leaves a third; one failed `location_init`, so that a session may leave
  without a QUIT; two callbacks, the second of which may find the slot filled by the first;
  three commands start, stop or reset, and start again. `sessions_overlap` needs one command.
* `SessionStart`: a limit of 1 instead of 2, and nine requests, enough to exhaust both
  counters, clear them by a cold start and exhaust them again.
* `NmeaChannel`: `Cap` 9 with sentences of 2 and 3 characters (and one each for the carriage
  return) is a buffer that two long sentences nearly fill and three short ones overfill by the
  one character the test forgets. Six sentences allow a discard and three batches, two of them
  while polls come and go; a caller's buffer of 10 is just larger than the receiver's 9, and
  one of 8 is too small for some batches.
* `UdpIpcServer`: three ports for two slots meet a full table; four starts reuse a slot twice
  under a loop that still holds it; two hasty calls are an end and a start in its shadow.
  `UdpIpcClient`: five calls and two faults let two answers be late on one socket while
  another call waits; the third port shares slot 0.
* `Logd`: three threads, so a third can store over the second's descriptor; two failures of
  `socket()` and one of `sendto` (`MaxRefused`).

The runs without `CHECK_DEADLOCK FALSE` never stop: main polls for ever, an application
polls. Where it is set the bounded history ends: no session, start, call or message is left,
or the process has called `exit` or used index -1.

## 5. Assumptions

* **Fairness.** Threads that can run do run: weak fairness of main, of the server inside a
  command, of each session thread, of the helper, of each message loop. A session's loop and
  main's poll sleep a second and re-read; a receive has a timeout of ten seconds, or the
  first caller's. `pthread_join` is not assumed to return: its action is enabled only once
  the thread has ended. In `GpsDaemon` the steps of a session inside `garden_entry` are
  strongly fair: the helper holds the mutex now and again, each time for one call, so a
  session that wants it finds it free again and again, and `sleep(5)` outlasts the helper.
  No fairness is assumed of clients, of the library's callbacks, or of servers that answer.
* **Spaced clients** (`Spaced = TRUE`, runs `manager_service` and `daemon_sessions`): a client
  sends when the daemon polls and no session is between its creation and navigation or between
  the end of its loop and its exit; the daemon was started with `nostart`. `stop_lost` and
  `sessions_overlap` show what happens otherwise.
* A `pthread_create` sees the handle stored before the new thread runs; plain loads and
  stores of the globals are single accesses, in program order.
* `sleep(5)` at the end of a session is long enough for the helper, once signalled, to run
  (`SleepOver`), and for the AGPS callbacks of the location library to be over (`AgpsStatus`),
  as the comment at `test_android_gps.cpp:1110-1112` hopes. `NoStaleQuit` and `WorkAccounted`
  rest on the first, `ApnValid` and `WorkAccounted` on the second: a later callback would use
  an APN on a stack that is gone.
* **UDP server**: starts and ends come one at a time, and a loop does not run in the middle of
  one. `ActiveServed` and `OverrunOnlyWhenFull` are about any callers, `SlotsApart` and
  `EndStops` about patient ones, who start a port that is not started and call when every loop
  is at rest, as a caller does that waits ten seconds. The daemon starts one server and ends
  none.
* `UdpIpcClient`: one calling thread; datagrams of one host may be lost and are not reordered.
  One server per port: requests are broadcast to 127.255.255.255 and servers bind with
  `SO_REUSEADDR`, so that two processes on one port would both answer a request.
* `XtraDownload`: the counters are cleared in one step; a callback that falls between the two
  assignments is not modelled. The file test and the counting are one step of the one
  callback thread.
* `NmeaChannel`: the length the library passes is that of the string; one callback thread;
  both ends use buffers of one size (1024 in the code). The properties of a poll are about
  callers that hold the returned size against the length of their buffer (`HandedOver`): one
  that does not takes the batch it has for the one it was not given.
* `NmeaBatch`: the carriage return of a buffer that is filled too far, and the terminator
  `sprintf` writes after it, go one or two characters past the end of `send_buff`. They are
  taken to hit padding: the model goes on as if nothing were destroyed.

## 6. Proofs

Every theorem holds for all values of the constants that satisfy the named assumptions of the
modules. The proofs share one scheme: an inductive invariant, a lemma that the initial states
satisfy it, one step per action, and the theorems as its consequences.

* `GpsMgrProofs`: `TypeCorrect`. `StatusSoundness`: inductive with the types, because a
  thread sets the status as it enters the states `Marked` and clears it as it leaves them,
  and another thread's clearing only weakens the hypothesis. `JoinSafety`: the third part of
  `JoinSafe` (a non-zero handle is not free, except between join and clear) is what makes the
  second read of the handle safe, and the three parts carry each other as the handle goes
  from created to tracked, joined and cleared. `JoinInv` adds `ServerDown`: the server thread
  does not exist before main starts it, so starting it cannot cut a join short.
* `GpsMgrProofs`, second part. Under `Spaced` and `StartArgs \subseteq {"nostart"}` an inductive
  `SpacedInv`: `MainIdle` (main only boots and polls), `ServerDown`, `Tracked` (every live
  session is the one the handle denotes), `NoSession` (none where the server relies on it),
  `Reported` (a session that set the status is still reported), `Armed` (its flag stays set
  until `gps_stop` clears it), `Quiet` (a command meets no session in transit), `JoinsTracked`
  (the handle joined is the tracked one). From it `SpacedSingleSession`, `SpacedStatTruth`,
  `SpacedAnswerTrue` (with `AnswerInv`, which says what of the command in hand has been done,
  and that the session it made lives unless one has failed since)
  and `SpacedImplementsService`: every step of every thread is one of the service's or a
  stutter. `Leaving` (once the flag is cleared no session is left that could set it again)
  gives `SpacedStopUnderWay`, what a returning `gps_stop` needs besides fairness.
* `GpsMgrProofs`, between the two: `NostartStaysOff` needs no spacing. `ForcedOffStaysOff`,
  which `forced_off` refutes, holds of a daemon started with `nostart`, because `main` then
  never leaves its poll (`MainIdle`): the watchdog race is one of the automatic start.
* `GpsDaemonProofs`, first part: all six properties of sessions that follow one another, from
  `SessionInv`. `Created` and `Ready` say how far library, helper, interface and XTRA client
  have got, and that a half-done one belongs to the one session that is there; `ApnOwned`
  whose APN is in use; `SlotInv` what may lie in the slot and for whom. `WorkIsAccounted` goes
  through the actions that write the slot.
* `GpsDaemonProofs`, second part, composes the two, in both directions. `ThreadInv` (a thread
  is in `garden_entry` only in `armed`, `nav` or `unwinding`: `SessionWithinThread`) makes every
  step of the daemon one of `GpsMgr` or a stutter (`DaemonIsManager`), so that the theorems of
  `GpsMgrProofs`, instantiated, hold of the daemon: `DaemonManagerSafe` (status and joins,
  whatever the commands), `DaemonSingleSession` and `DaemonServes` (true answers, the service
  implemented, a stop waits only for a session on its way out). One session thread means one
  session in `garden_entry`, which is all `TestThread` took for granted
  (`DaemonRunsSessions`), so that its theorems hold too: `DaemonSessionsApart`,
  `DaemonHelperOnce`, `DaemonInterfaceReady`, `DaemonHelperSafe`, `DaemonQuitFresh`. But for
  `DaemonManagerSafe` they assume spaced commands and `nostart`, and nothing else.
* `UdpIpcServerProofs`: `ServerInv` for any number of slots, ports, starts and hasty calls.
  `SlotsOwned` (a taken slot is filled for its port, and every active port but the first has
  one), `FreeSlots` and `Started` (what the first start leaves behind), `NewestInPlace` (the
  last loop of an active port is in its slot, even if it copies its argument late),
  `PatientInv` (with patient callers every loop is in the slot it was made for, alone).
  From it `ServerTypes`, `ActivePortsServed`, `NoSlotLost`, `PatientApart`; with `Told` (a
  loop of an ended port was told to leave, one of an active port sits where an end will find
  it) also `EndedTold`, the safety half of `EndStops`.
* `NmeaChannelProofs`: `PollInv` for any capacity, lengths and calls. `Numbered` (the buffer
  is the newest run of sentences, and the last batch ended before it) gives order and, with
  what a waiting call may have in its socket (`Waiting`), receipt once and a fresh fix;
  `Sessions` gives `StaleFirst`; the capacity and one is in `ChannelTypes`. `Counted` (the
  counter beside the buffer, and the size sent with every batch that is on its way, is the sum
  of the lengths of the sentences) gives `WholeBatch`; what it needs of that sum, which is a
  recursive function, is `LengthOfEmpty` and `LengthOfAppend`.
* `UdpIpcClientProofs`: `ClientInv` for any number of ports, slots, calls and faults.
  `SlotsOwned` (a port has at most one slot, and one of its own unless the table was full) and
  `Waiting` (the call under way sits in the slot of its port or in the shared slot 0); a
  pigeonhole argument over the ports used makes a full table mean `Crowded`, which then stays.
  `Queues` bounds what one call may have under way. `Channels` is about a slot that is not
  shared: everything on its way from the server's queue to the socket to the caller is in the
  order of the requests, after the last answer returned, and no older than `Oldest`, the
  requests sent less the answers that came late. That counting is what makes `LagBounded`
  inductive. From it `ClientTypes`, `AnswersOfPort`, `AnswersOrdered`, `LagIsBounded`; with
  `SocksTimed` (the socket of a slot that is not shared was opened by a call of its own port)
  also `CallsTimed`, the safety half of `CallReturns`.
* `LogdProofs`: both bounds and the types by counting, next to what was spent (and what
  `sendto` refused), the threads
  that could still spend it (`Undecided`, `Openers`, `Doomed`) and the failures already stored
  (`Outages`).
* `SessionStartProofs`: `BudgetKept` (refreshes within the limit, fetches within twice the
  limit, between two cold starts) and `RefusalJustified` (a refusal means that one of the two
  was granted as often as it allows, asked of a client or not). `BudgetInv` makes what was
  granted of each kind equal its counter while neither is over its limit; once one is over,
  that kind has been granted as often as it allows, and nothing more is granted.
* `SessionStartProofs`, the options. `ParseFacts` turns the loop over any command line into
  its steps, `Applied` says what one option sets and leaves alone, and `ParseResult` adds up
  the six command lines: `Chosen` is all they decide. That is the whole of the options except
  the APN and the use of XTRA, which some command lines do not name; `OptionsInv` therefore
  carries that no session of such a daemon has ever set them. From it `StartTypes` and
  `CommandAlone`, for any contents of `gps.conf`, and `PartsImplemented`: starting sessions
  implements both parts' specifications.
* `Recursion`: TLAPS cannot instantiate the library's induction principle, which takes a
  predicate as a parameter. `Induction` states it of a set of numbers instead and proves it
  from the well-foundedness of strict inclusion on finite sets: the intervals `0..n` of the
  numbers outside the set would have no smallest one. `Iteration` (a function that takes given
  steps exists) and `Iterating` (one that takes them while its values are typed is typed)
  follow, and are what a recursive definition needs to be unfolded.

Every invariant and every action property of the passing runs is a theorem. Only
model-checked are the five liveness properties (`WatchdogRevives`, `SessionProgress`,
`EndStops`, `CallReturns`, and the fair part of `ServiceSpec`): fairness rests on `ENABLED`,
which TLAPS does not reason about here. For three of them, and for the stop of the daemon, the
safety they need is proved: `SpacedImplementsService`, `EndedTold`, `CallsTimed`,
`SpacedStopUnderWay`.

## 7. Plan

Done: the manager and its abstract service; sessions and helper, composed with the manager
and proved so; options and budget; the NMEA channel from callback to application; UDP server
with impatient callers; UDP client with crowded slots; the log client; and a theorem for every
invariant and action property of the passing runs.

Left:

1. End to end: `UdpIpcClient` with `GpsService` behind its port, and what a client may
   conclude from a late answer to `set_stop`.
2. The options of `test_main` that the daemon's command lines do not use, if one starts to.

## 8. Not modelled

The program itself is some 3300 lines in `src/src` and `src/garden-src`; nearly all other
lines of the repository are headers of libraries and of the kernel under
`src/pre-compile/include`, third-party declarations without behaviour of this program.

* `_devide_argument`: a pure function of six constant strings of at most 17 words, for an
  `argv` of 20; six tests settle it.
* Location, satellite and capability callbacks that print, or signal conditions nobody waits
  on with the daemon's options; the options of `garden_entry` no command line passes (`-f`,
  `-N`, `-k`, `-r 1`, `-E 1` and others).
* `fork`, `setsid`, stdio, `gps_tool_thread` (sleeps), `mds_api_remove_etc_char` (no caller),
  `mds_logd_open` and the dump functions of `mds_logd.cpp` (no caller), the stack dump (a
  signal handler: unwinding and file output), `fake_vzw_jni_bridage.cpp`.
* The location library, the XTRA client and the kernel: external, modelled by what they may
  answer and when.
* What a write outside the table of servers (index -1) destroys, and what two helpers on one
  re-initialised mutex do: undefined, so the models record the event and stop there.
