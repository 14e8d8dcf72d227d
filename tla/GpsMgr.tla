------------------------------- MODULE GpsMgr -------------------------------
(***************************************************************************)
(* The GPS manager of mds_gpsd3 (src/garden_tools.cpp): who may start and  *)
(* stop the thread that runs a GPS session.  Three kinds of thread share   *)
(* three plain globals without a lock:                                     *)
(*   main    starts the first session, then polls once a second and        *)
(*           restarts a session whose thread has died (mpc, count);        *)
(*   server  the UDP loop of the manager port; it runs one command at a    *)
(*           time and blocks in pthread_join while it stops a session      *)
(*           (spc, cmd, join_tid);                                         *)
(*   mgr     garden_mgr_thread, one per pthread_create (thr, gps_type).    *)
(* An action is the code between two accesses to a shared global.          *)
(***************************************************************************)
EXTENDS Naturals

CONSTANTS
  Tids,         \* the thread handles pthread_create can hand out
  NoTid,        \* garden_mgr_tid = 0
  StartArgs,    \* the start arguments main may be run with
  ClientCmds,   \* the set_* commands clients send
  ChkCnt,       \* GPS_THREAD_INVALID_CHK_CNT
  Spaced,       \* TRUE: clients send a command only when no session is in transit
  MaxCmds,      \* bound: set_* commands the server receives
  MaxInitFail   \* bound: location_init calls that fail

ASSUME ConstantsAssumption ==
  /\ NoTid \notin Tids
  /\ StartArgs \subseteq {"warm", "cold", "nostart", "other"}
  /\ ClientCmds \subseteq {"set_start_c", "set_start_w", "set_stop",
                            "set_reset_c", "set_reset_w"}
  /\ ChkCnt \in Nat
  /\ Spaced \in BOOLEAN
  /\ MaxCmds \in Nat /\ MaxInitFail \in Nat

VARIABLES
  gps_thread_stat, garden_mgr_tid, garden_force_stop,   \* the shared globals
  no_start_flag, mpc, count,                            \* main
  spc, cmd, join_tid, run_flag, cmds,                   \* server
  thr, gps_type, fails,                                 \* mgr threads
  failed      \* history: a location_init has failed since the last command

globals == <<gps_thread_stat, garden_mgr_tid, garden_force_stop>>
mainVars == <<no_start_flag, mpc, count>>
srvVars == <<spc, cmd, join_tid, run_flag, cmds>>
thrVars == <<thr, gps_type, fails, failed>>
vars == <<globals, mainVars, srvVars, thrVars>>

StartCmds == {"set_start_c", "set_start_w"}
ResetCmds == {"set_reset_c", "set_reset_w"}
SetCmds == StartCmds \cup ResetCmds \cup {"set_stop"}
TypeOf(c) == IF c \in {"set_start_c", "set_reset_c"} THEN "cold" ELSE "warm"

\* A session in one of these states has set gps_thread_stat and will clear it.
Marked == {"marked", "armed", "nav", "unwinding"}
Live == Marked \cup {"created"}
ThreadStates == Live \cup {"free", "ended"}   \* ended: exited, not yet joined

TypeOK ==
  /\ gps_thread_stat \in {0, 1} /\ garden_force_stop \in {0, 1}
  /\ garden_mgr_tid \in Tids \cup {NoTid}
  /\ no_start_flag \in {0, 1} /\ count \in 0..ChkCnt
  /\ mpc \in {"boot", "serve", "poll", "chktid", "startchk", "create"}
  /\ spc \in {"down", "recv", "startchk", "create", "stopchk", "flag", "join",
              "joining", "cleartid", "clearstat"}
  /\ cmd \in SetCmds \cup {"none"} /\ join_tid \in Tids \cup {NoTid}
  /\ run_flag \in {0, 1} /\ cmds \in 0..MaxCmds
  /\ fails \in 0..MaxInitFail /\ failed \in {0, 1}
  /\ thr \in [Tids -> ThreadStates]
  /\ gps_type \in [Tids -> {"warm", "cold"}]

Init ==
  /\ gps_thread_stat = 0 /\ garden_mgr_tid = NoTid /\ garden_force_stop = 0
  /\ no_start_flag = 0 /\ mpc = "boot" /\ count = 0
  /\ spc = "down" /\ cmd = "none" /\ join_tid = NoTid /\ run_flag = 0 /\ cmds = 0
  /\ thr = [t \in Tids |-> "free"]
  /\ gps_type = [t \in Tids |-> "warm"] /\ fails = 0 /\ failed = 0

-----------------------------------------------------------------------------
(* gps_start: the test of gps_thread_stat and the pthread_create are two   *)
(* steps of the calling thread.  The result of pthread_create is ignored.  *)

Refused_Never == FALSE   \* mutant: gps_start does not refuse a second session
Refused == gps_thread_stat # 0

\* pthread_create stores the handle before the thread runs; with no handle
\* left it fails and leaves garden_mgr_tid as it was.
PthreadCreate(type) ==
  \/ \E t \in Tids :
       /\ thr[t] = "free"
       /\ thr' = [thr EXCEPT ![t] = "created"]
       /\ gps_type' = [gps_type EXCEPT ![t] = type]
       /\ garden_mgr_tid' = t
  \/ /\ \A t \in Tids : thr[t] # "free"
     /\ UNCHANGED <<thr, gps_type, garden_mgr_tid>>

-----------------------------------------------------------------------------
(* garden_mgr_thread.                                                      *)

MarkRunning(t) ==
  /\ thr[t] = "created"
  /\ thr' = [thr EXCEPT ![t] = "marked"]
  /\ gps_thread_stat' = 1
  /\ UNCHANGED <<garden_mgr_tid, garden_force_stop, mainVars, srvVars, gps_type, fails,
                 failed>>

FlagAtStart_Kept == garden_force_stop   \* mutant: not set for a new session
FlagAtStart == 1

\* _gps_start builds the argument vector and sets garden_force_stop.
Arm(t) ==
  /\ thr[t] = "marked"
  /\ thr' = [thr EXCEPT ![t] = "armed"]
  /\ garden_force_stop' = FlagAtStart
  /\ UNCHANGED <<gps_thread_stat, garden_mgr_tid, mainVars, srvVars, gps_type, fails,
                 failed>>

\* test_main: location_init succeeds and navigation starts ...
StartNavigation(t) ==
  /\ thr[t] = "armed"
  /\ thr' = [thr EXCEPT ![t] = "nav"]
  /\ UNCHANGED <<globals, mainVars, srvVars, gps_type, fails, failed>>

\* ... or location_init returns -1 and so does test_main.
InitFails(t) ==
  /\ thr[t] = "armed" /\ fails < MaxInitFail
  /\ thr' = [thr EXCEPT ![t] = "unwinding"]
  /\ fails' = fails + 1 /\ failed' = 1
  /\ UNCHANGED <<globals, mainVars, srvVars, gps_type>>

\* while (garden_force_stop) sleep(1) ends; the session is shut down.
LeaveLoop(t) ==
  /\ thr[t] = "nav" /\ garden_force_stop = 0
  /\ thr' = [thr EXCEPT ![t] = "unwinding"]
  /\ UNCHANGED <<globals, mainVars, srvVars, gps_type, fails, failed>>

StatAtExit_Kept == gps_thread_stat   \* mutant: an exiting thread leaves it set
StatAtExit == 0

MarkStopped(t) ==
  /\ thr[t] = "unwinding"
  /\ thr' = [thr EXCEPT ![t] = "ended"]
  /\ gps_thread_stat' = StatAtExit
  /\ UNCHANGED <<garden_mgr_tid, garden_force_stop, mainVars, srvVars, gps_type, fails,
                 failed>>

MgrThread(t) ==
  \/ MarkRunning(t) \/ Arm(t) \/ StartNavigation(t)
  \/ InitFails(t) \/ LeaveLoop(t) \/ MarkStopped(t)

-----------------------------------------------------------------------------
(* main.                                                                   *)

\* The start argument: with anything but warm, cold and nostart (or with more
\* than three arguments) no session is started and no_start_flag stays 0.
Boot(arg) ==
  /\ mpc = "boot" /\ mpc' = "serve"
  /\ no_start_flag' = IF arg = "nostart" THEN 1 ELSE 0
  /\ IF arg \in {"warm", "cold"} THEN PthreadCreate(arg)
                                 ELSE UNCHANGED <<thr, gps_type, garden_mgr_tid>>
  /\ UNCHANGED <<gps_thread_stat, garden_force_stop, count, srvVars, fails, failed>>

ServerStart ==
  /\ mpc = "serve" /\ mpc' = "poll"
  /\ spc' = "recv"
  /\ UNCHANGED <<globals, no_start_flag, count, cmd, join_tid, run_flag, cmds, thrVars>>

Poll ==
  /\ mpc = "poll"
  /\ mpc' = IF gps_thread_stat = 0 /\ no_start_flag = 0 THEN "chktid" ELSE "poll"
  /\ UNCHANGED <<globals, no_start_flag, count, srvVars, thrVars>>

HandleSet_Not == garden_mgr_tid = NoTid   \* mutant: the dead handle is taken for a stop
HandleSet == garden_mgr_tid # NoTid
CountAfter_Kept(seen) == seen   \* mutant: not reset when the limit is passed
CountAfter(seen) == IF seen > ChkCnt THEN 0 ELSE seen

\* count is local to main, so counting and testing it is one step.
ChkTid ==
  /\ mpc = "chktid"
  /\ LET seen == IF HandleSet THEN count + 1 ELSE count
     IN  /\ count' = CountAfter(seen)
         /\ mpc' = IF seen > ChkCnt THEN "startchk" ELSE "poll"
  /\ UNCHANGED <<globals, no_start_flag, srvVars, thrVars>>

MainStartChk ==
  /\ mpc = "startchk"
  /\ mpc' = IF Refused THEN "poll" ELSE "create"
  /\ UNCHANGED <<globals, no_start_flag, count, srvVars, thrVars>>

MainCreate ==
  /\ mpc = "create" /\ mpc' = "poll"
  /\ PthreadCreate("warm")
  /\ UNCHANGED <<gps_thread_stat, garden_force_stop, no_start_flag, count, srvVars, fails,
                 failed>>

Main ==
  \/ \E arg \in StartArgs : Boot(arg)
  \/ ServerStart \/ Poll \/ ChkTid \/ MainStartChk \/ MainCreate

-----------------------------------------------------------------------------
(* The server: msg_recv_proc_gps_tools, gps_start and gps_stop.            *)

InTransit(t) == thr[t] \in Live \ {"nav"}
Settled == mpc = "poll" /\ \A t \in Tids : ~InTransit(t)
MayArrive == spc = "recv" /\ (Spaced => Settled)

GetStat ==
  /\ MayArrive
  /\ run_flag' = IF gps_thread_stat = 0 THEN 0 ELSE 1
  /\ UNCHANGED <<globals, mainVars, spc, cmd, join_tid, cmds, thrVars>>

RecvCmd(c) ==
  /\ MayArrive /\ cmds < MaxCmds
  /\ cmd' = c /\ cmds' = cmds + 1 /\ failed' = 0
  /\ spc' = IF c \in StartCmds THEN "startchk" ELSE "stopchk"
  /\ UNCHANGED <<globals, mainVars, join_tid, run_flag, thr, gps_type, fails>>

\* A refused start is answered OK like any other: its result is ignored.
SrvStartChk ==
  /\ spc = "startchk"
  /\ spc' = IF Refused THEN "recv" ELSE "create"
  /\ UNCHANGED <<globals, mainVars, cmd, join_tid, run_flag, cmds, thrVars>>

SrvCreate ==
  /\ spc = "create" /\ spc' = "recv"
  /\ PthreadCreate(TypeOf(cmd))
  /\ UNCHANGED <<gps_thread_stat, garden_force_stop, mainVars, cmd, join_tid,
                 run_flag, cmds, fails, failed>>

\* What follows gps_stop: a reset goes on to gps_start, a stop is answered.
AfterStop_NoStart == "recv"   \* mutant: the reset does not start a new session
AfterStop == IF cmd \in ResetCmds THEN "startchk" ELSE "recv"

SrvStopChk ==
  /\ spc = "stopchk"
  /\ spc' = IF garden_mgr_tid = NoTid THEN AfterStop ELSE "flag"
  /\ UNCHANGED <<globals, mainVars, cmd, join_tid, run_flag, cmds, thrVars>>

FlagAtStop_Kept == garden_force_stop   \* mutant: _gps_stop does not clear it
FlagAtStop == 0

SrvStopFlag ==
  /\ spc = "flag" /\ spc' = "join"
  /\ garden_force_stop' = FlagAtStop
  /\ UNCHANGED <<gps_thread_stat, garden_mgr_tid, mainVars, cmd, join_tid, run_flag,
                 cmds, thrVars>>

\* pthread_join reads garden_mgr_tid a second time ...
SrvJoin ==
  /\ spc = "join" /\ spc' = "joining"
  /\ join_tid' = garden_mgr_tid
  /\ UNCHANGED <<globals, mainVars, cmd, run_flag, cmds, thrVars>>

\* ... and blocks until that thread has exited, whose handle it releases.
SrvJoined ==
  /\ spc = "joining" /\ spc' = "cleartid"
  /\ thr[join_tid] = "ended"
  /\ thr' = [thr EXCEPT ![join_tid] = "free"]
  /\ join_tid' = NoTid
  /\ UNCHANGED <<globals, mainVars, cmd, run_flag, cmds, gps_type, fails, failed>>

TidAfterJoin_Kept == garden_mgr_tid   \* mutant: the joined handle is kept
TidAfterJoin == NoTid

SrvClearTid ==
  /\ spc = "cleartid" /\ spc' = "clearstat"
  /\ garden_mgr_tid' = TidAfterJoin
  /\ UNCHANGED <<gps_thread_stat, garden_force_stop, mainVars, cmd, join_tid, run_flag,
                 cmds, thrVars>>

SrvClearStat ==
  /\ spc = "clearstat" /\ spc' = AfterStop
  /\ gps_thread_stat' = 0
  /\ UNCHANGED <<garden_mgr_tid, garden_force_stop, mainVars, cmd, join_tid, run_flag,
                 cmds, thrVars>>

ServerStep ==
  \/ SrvStartChk \/ SrvCreate \/ SrvStopChk \/ SrvStopFlag
  \/ SrvJoin \/ SrvJoined \/ SrvClearTid \/ SrvClearStat

Next ==
  \/ Main
  \/ GetStat \/ \E c \in ClientCmds : RecvCmd(c)
  \/ ServerStep
  \/ \E t \in Tids : MgrThread(t)

\* The scheduler runs every thread that can run; clients need not send anything.
Fairness ==
  /\ WF_vars(Main)
  /\ WF_vars(ServerStep)
  /\ \A t \in Tids : WF_vars(MgrThread(t))

Spec == Init /\ [][Next]_vars
FairSpec == Spec /\ Fairness
-----------------------------------------------------------------------------
(* Properties of every interleaving.                                       *)

\* gps_thread_stat (what get_stat answers and both gps_start guards read) is
\* only ever 1 while some manager thread is between its two assignments to it:
\* a dead session is never reported as running, whatever overlaps.
StatusSound == gps_thread_stat = 1 => \E t \in Tids : thr[t] \in Marked

\* gps_stop always hands pthread_join a handle that was created and not yet
\* joined, although main may replace garden_mgr_tid between the test for 0 and
\* the join, and although the handle is released before it is cleared.
JoinSafe ==
  /\ spc \in {"flag", "join"} => garden_mgr_tid # NoTid
  /\ spc = "joining" => join_tid # NoTid /\ thr[join_tid] # "free"
  /\ spc # "cleartid" /\ garden_mgr_tid # NoTid => thr[garden_mgr_tid] # "free"

\* Main's watchdog, which nostart leaves out: a tracked session never stays dead.
\* Again and again some session reports running, or a stop has cleared the handle, or
\* the handles of dead sessions nobody joined have used up what pthread_create can give.
WatchdogRevives ==
  []<>(\/ gps_thread_stat = 1 \/ garden_mgr_tid = NoTid \/ no_start_flag = 1
       \/ \A t \in Tids : thr[t] # "free")

\* set_stop and set_reset get their answer: gps_stop never waits for ever in
\* pthread_join, so the only server thread keeps serving.
StopReturns == spc = "joining" ~> spc = "recv"

\* garden_tools.cpp:477-478: the watchdog leaves a GPS that was switched off by
\* set_stop alone; no thread is created between the stop's answer and the next
\* command.
ForcedOffStaysOff ==
  [][spc = "recv" /\ cmd = "set_stop" =>
       \A t \in Tids : thr'[t] = "created" => thr[t] = "created"]_vars

(* Properties of a daemon started with nostart whose clients leave time     *)
(* between commands (Spaced).                                              *)

\* gps_start's guard does its work: at most one session exists at a time.
SingleSession == \A t, u \in Tids : thr[t] \in Live /\ thr[u] \in Live => t = u

\* What the OK answer to the last command says is true, though the server looks at no
\* result of gps_start.  After set_stop no session is left.  After set_reset there is a
\* session, and it is of the type asked for, unless its location_init has failed: the join
\* always leaves pthread_create a handle.  After set_start there is a session, the old one
\* or a new one, unless location_init has failed or pthread_create had no handle to give,
\* all of them being those of dead sessions that later starts forgot and nobody joined.
SessionThere == garden_mgr_tid \in Tids /\ thr[garden_mgr_tid] \in Live
AnswerTrue ==
  spc = "recv" =>
    /\ cmd = "set_stop" => \A t \in Tids : thr[t] \notin Live
    /\ cmd \in ResetCmds =>
         failed = 1 \/ (SessionThere /\ gps_type[garden_mgr_tid] = TypeOf(cmd))
    /\ cmd \in StartCmds =>
         failed = 1 \/ SessionThere \/ \A t \in Tids : thr[t] = "ended"

\* get_stat answers 1 exactly when a session is navigating.
StatTruth == [][GetStat => (run_flag' = 1 <=> \E t \in Tids : thr[t] = "nav")]_vars
=============================================================================
