------------------------------ MODULE GpsDaemon ------------------------------
(***************************************************************************)
(* The daemon: GpsMgr's threads run TestThread's sessions.  _gps_start     *)
(* calls garden_entry once it has set garden_force_stop; the session starts *)
(* navigating, fails or leaves its loop in a step of both; the thread      *)
(* clears gps_thread_stat when garden_entry has returned.  A session takes *)
(* many more steps than GpsMgr sees, some of which wait for the mutex the  *)
(* helper holds while it calls the library.                                *)
(***************************************************************************)
EXTENDS TestThread

CONSTANTS NoTid, StartArgs, ClientCmds, ChkCnt, Spaced, MaxCmds, MaxInitFail   \* as in GpsMgr

VARIABLES
  gps_thread_stat, garden_mgr_tid, garden_force_stop, no_start_flag, mpc, count,
  spc, cmd, join_tid, run_flag, cmds, thr, gps_type, fails, failed   \* as in GpsMgr

Mgr == INSTANCE GpsMgr

ASSUME DaemonConstants == Mgr!ConstantsAssumption

mgrVars == <<gps_thread_stat, garden_mgr_tid, garden_force_stop, no_start_flag, mpc, count,
             spc, cmd, join_tid, run_flag, cmds, thr, gps_type, fails, failed>>
DaemonVars == <<vars, mgrVars>>
DaemonInit == Init /\ Mgr!Init

\* main, the server and what a manager thread does before garden_entry.
Manager ==
  /\ \/ Mgr!Main \/ Mgr!GetStat \/ Mgr!ServerStep
     \/ \E c \in ClientCmds : Mgr!RecvCmd(c)
     \/ \E t \in Tids : Mgr!MarkRunning(t) \/ Mgr!Arm(t)
  /\ UNCHANGED vars

\* garden_entry, as far as the manager takes no notice.
Inside(t) ==
  /\ \/ thr[t] = "armed" /\ Enter(t)
     \/ CreateHelper(t) \/ Load(t) \/ MakeInterface(t) \/ XtraInit(t) \/ XtraFlag(t)
     \/ LocationInitDies(t) \/ PostQuit(t) \/ SleepOver(t)
  /\ UNCHANGED mgrVars

Thread(t) ==
  \/ Inside(t)
  \/ Navigate(t) /\ Mgr!StartNavigation(t)
  \/ LocationInitFails(t) /\ Mgr!InitFails(t)
  \/ StopNavigation(t) /\ Mgr!LeaveLoop(t)
  \/ pc[t] = "idle" /\ Mgr!MarkStopped(t) /\ UNCHANGED vars

HelperSide == (Helper \/ Callback \/ SpuriousWakeup) /\ UNCHANGED mgrVars

DaemonNext == Running /\ (Manager \/ (\E t \in Tids : Thread(t)) \/ HelperSide)

\* Strong fairness of a session: the mutex it takes at its end is free again and again,
\* and sleep(5) outlasts the helper.
DaemonSpec == DaemonInit /\ [][DaemonNext]_DaemonVars
DaemonFairSpec ==
  /\ DaemonSpec
  /\ WF_DaemonVars(Running /\ Mgr!Main /\ UNCHANGED vars)
  /\ WF_DaemonVars(Running /\ Mgr!ServerStep /\ UNCHANGED vars)
  /\ WF_DaemonVars(Running /\ Helper /\ UNCHANGED mgrVars)
  /\ \A t \in Tids :
       /\ WF_DaemonVars(Running /\ (Mgr!MarkRunning(t) \/ Mgr!Arm(t)) /\ UNCHANGED vars)
       /\ SF_DaemonVars(Running /\ Thread(t))
-----------------------------------------------------------------------------
(* Properties of a daemon started with nostart and driven by spaced         *)
(* commands, beside those of TestThread.                                   *)

\* What TestThread takes for granted: a session is out of garden_entry before the
\* next one is in, although only gps_thread_stat keeps them apart; and a thread the
\* server joined, or that has ended, is out of it.
WithinThread == \A t \in Tids : pc[t] # "idle" => thr[t] \in {"armed", "nav", "unwinding"}
SessionsApart == Alone /\ WithinThread

\* What GpsMgr takes for granted: a session thread gets on.  No session is held up for
\* ever by the mutex or by a helper that serves callbacks, so that a stop returns.
SessionProgress == (\A t \in Tids : WF_mgrVars(Mgr!MgrThread(t))) \/ <>exited
=============================================================================
