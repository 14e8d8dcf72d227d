--------------------------- MODULE GpsDaemonProofs --------------------------
(***************************************************************************)
(* Proofs about the daemon, for any number of threads, sessions, callbacks *)
(* and commands.  First TestThread by itself, where sessions follow one    *)
(* another: what is set up or initialised once is so, what becomes of work *)
(* the helper does not do, and neither an APN nor a QUIT outlives its      *)
(* session.  Then the composition: what the manager's threads do to a      *)
(* session is a step of TestThread and, leaving the sessions aside, of     *)
(* GpsMgr, so that the theorems about both hold of the daemon.             *)
(* GpsMgrProofs gives one session at a time, for spaced commands after     *)
(* nostart; that is what TestThread takes for granted.                     *)
(***************************************************************************)
EXTENDS GpsDaemon, TLAPS

-----------------------------------------------------------------------------
(* Sessions that follow one another.                                       *)

\* The first session to get to CreateHelper sets everything up, whether it gets a helper
\* or not; until the library is loaded it has not left.
Created ==
  /\ creations \in 0..1 /\ (helper # "none" => creations = 1)
  /\ creations = 0 => ~lib_handle /\ \A t \in Tids : pc[t] \in {"idle", "create"}
  /\ creations = 1 /\ ~lib_handle => \E t \in Tids : pc[t] = "load"
  /\ \A t \in Tids : pc[t] = "create" => creations = 0

\* Library, interface and XTRA client are made in this order, and a session that finds
\* one half done would be a second one.
Ready ==
  /\ ~lib_handle => xtra_inits = 0
  /\ lib_handle /\ interface = "unmade" =>
       xtra_inits = 0 /\ \E t \in Tids : pc[t] = "interface"
  /\ xtra_engine_init_flag => xtra_inits = 1
  /\ ~xtra_engine_init_flag => \/ xtra_inits = 0
                               \/ xtra_inits = 1 /\ \E t \in Tids : pc[t] = "xtraflag"
  /\ \A t \in Tids :
       /\ pc[t] = "interface" => lib_handle
       /\ pc[t] \in {"xtrainit", "xtraflag"} \cup Initialised =>
            lib_handle /\ interface # "unmade"
       /\ pc[t] = "xtraflag" => xtra_inits = 1

\* The APN in use is that of the session in test_main, if the arguments carry one.
ApnOwned ==
  /\ ~Agps => apn = "static"
  /\ Agps => \A t \in Tids : pc[t] # "idle" => apn = t

\* What may be in the slot: work the helper was not told of is from before its first
\* wait, an AGPS action is the present session's, a QUIT that of one that has ended.
SlotInv ==
  /\ helper \in {"none", "starting", "waiting"} /\ test_thread_action \in Work => early
  /\ test_thread_action \in AtlActions =>
       \A t \in Tids : pc[t] \in {"idle", "nav", "quit", "sleep"}
  /\ test_thread_action \in Work => interface # "unmade"
  /\ helper \in {"woken", "serving"} /\ test_thread_action \in AtlActions /\ ~early =>
       \E t \in Tids : pc[t] # "idle"
  /\ test_thread_action = "QUIT" => \A t \in Tids : pc[t] \in {"sleep", "idle"}

SessionInv == TypeOK /\ Alone /\ Created /\ Ready /\ ApnOwned /\ SlotInv

LEMMA SessionInit == Init => SessionInv
<1> USE SessionConstants DEF Init, Initialised, Work, AtlActions, XtraActions, PcStates
<1>1. Init => TypeOK
  <2> SUFFICES ASSUME Init PROVE TypeOK
    OBVIOUS
  <2>1. pc \in [Tids -> PcStates]
    OBVIOUS
  <2>2. sessions \in 0..MaxSessions /\ posts \in 0..MaxPosts /\ xtra_inits \in Nat
        /\ creations \in 0..1
    OBVIOUS
  <2>3. QED  BY <2>1, <2>2, Zenon DEF TypeOK
<1> HIDE DEF PcStates
<1>2. Init => Created /\ ApnOwned /\ Alone
  BY DEF Created, ApnOwned, Alone
<1>3. Init => Ready
  BY DEF Ready
<1>4. Init => SlotInv
  BY DEF SlotInv
<1>5. QED  BY <1>1, <1>2, <1>3, <1>4 DEF SessionInv

\* A step of one session: its own thread moves, the others do not.
LEMMA SessionStep ==
  ASSUME SessionInv, Alone', Running, NEW t \in Tids, Session(t)
  PROVE  SessionInv'
<1> USE SessionConstants
    DEF SessionInv, Alone, Goto, Move, Running, sessVars, libVars, xtraVars, helperVars,
        slotVars, cbVars, Initialised
<1>1. CASE Enter(t)
  BY <1>1 DEF Enter, SlotAtStart, ApnOf, FirstTime, TypeOK, Created, Ready, ApnOwned,
              SlotInv, PcStates, Work, AtlActions, XtraActions
<1>2. CASE CreateHelper(t)
  BY <1>2 DEF CreateHelper, TypeOK, Created, Ready, ApnOwned, SlotInv, PcStates, Work,
              AtlActions, XtraActions
<1>3. CASE Load(t)
  <2> USE <1>3 DEF Load, Exit, TypeOK, Created, Ready, ApnOwned, SlotInv, PcStates, Work,
                   AtlActions, XtraActions
  <2>1. CASE exited' = TRUE /\ UNCHANGED pc
    BY <2>1
  <2>2. CASE lib_handle /\ Goto(t, "xtrainit") /\ UNCHANGED <<lib_handle, exited>>
    BY <2>2
  <2>3. CASE ~lib_handle /\ lib_handle' /\ Goto(t, "interface") /\ UNCHANGED exited
    BY <2>3
  <2>4. QED  BY <2>1, <2>2, <2>3
<1>4. CASE MakeInterface(t)
  <2> USE <1>4 DEF MakeInterface, Exit, TypeOK, Created, Ready, ApnOwned, SlotInv,
                   PcStates, Work, AtlActions, XtraActions
  <2>1. CASE exited' = TRUE /\ UNCHANGED <<pc, interface>>
    BY <2>1
  <2>2. CASE interface' \in {"made", "null"} /\ Goto(t, "xtrainit") /\ UNCHANGED exited
    BY <2>2
  <2>3. QED  BY <2>1, <2>2
<1>5. CASE XtraInit(t)
  BY <1>5 DEF XtraInit, XtraDone, TypeOK, Created, Ready, ApnOwned, SlotInv, PcStates,
              Work, AtlActions, XtraActions
<1>6. CASE XtraFlag(t)
  BY <1>6 DEF XtraFlag, TypeOK, Created, Ready, ApnOwned, SlotInv, PcStates, Work,
              AtlActions, XtraActions
<1>7. CASE Navigate(t)
  BY <1>7 DEF Navigate, HaveInterface, TypeOK, Created, Ready, ApnOwned, SlotInv, PcStates, Work,
              AtlActions, XtraActions
<1>8. CASE LocationInitFails(t)
  BY <1>8 DEF LocationInitFails, TypeOK, Created, Ready, ApnOwned, SlotInv, PcStates,
              Work, AtlActions, XtraActions
<1>9. CASE LocationInitDies(t)
  BY <1>9 DEF LocationInitDies, Exit, TypeOK, Created, Ready, ApnOwned, SlotInv, PcStates,
              Work, AtlActions, XtraActions
<1>10. CASE StopNavigation(t)
  BY <1>10 DEF StopNavigation, TypeOK, Created, Ready, ApnOwned, SlotInv, PcStates, Work,
               AtlActions, XtraActions
<1>11. CASE PostQuit(t)
  BY <1>11 DEF PostQuit, Post, MutexFree, TypeOK, Created, Ready, ApnOwned, SlotInv,
               PcStates, Work, AtlActions, XtraActions
<1>12. CASE SleepOver(t)
  BY <1>12 DEF SleepOver, TypeOK, Created, Ready, ApnOwned, SlotInv, PcStates, Work,
               AtlActions, XtraActions
<1>13. QED
  BY <1>1, <1>2, <1>3, <1>4, <1>5, <1>6, <1>7, <1>8, <1>9, <1>10, <1>11, <1>12 DEF Session

\* A step of a callback or of the helper.
LEMMA SlotStep ==
  ASSUME SessionInv, Running, Callback \/ Helper \/ SpuriousWakeup
  PROVE  SessionInv'
<1> USE SessionConstants
    DEF SessionInv, Alone, sessVars, libVars, xtraVars, helperVars, slotVars, cbVars,
        Initialised, TypeOK, Created, Ready, ApnOwned, SlotInv, PcStates, Work,
        AtlActions, XtraActions
<1>1. ASSUME NEW a \in Posts, AgpsStatus(a) PROVE SessionInv'
  BY <1>1 DEF AgpsStatus, Post, MutexFree
<1>2. ASSUME NEW a \in Posts, XtraAnswer(a) PROVE SessionInv'
  BY <1>2 DEF XtraAnswer, Post, MutexFree
<1>3. CASE HelperStart
  BY <1>3 DEF HelperStart, Idle
<1>4. CASE SpuriousWakeup
  BY <1>4 DEF SpuriousWakeup, Idle
<1>5. CASE Wake
  BY <1>5 DEF Wake, Idle
<1>6. CASE Serve
  BY <1>6 DEF Serve, SlotAfter
<1>7. CASE ServeDies
  BY <1>7 DEF ServeDies
<1>8. QED  BY <1>1, <1>2, <1>3, <1>4, <1>5, <1>6, <1>7 DEF Callback, Helper

LEMMA SessionInvStep == SessionInv /\ [Next /\ Alone']_vars => SessionInv'
<1> SUFFICES ASSUME SessionInv, [Next /\ Alone']_vars PROVE SessionInv'
  OBVIOUS
<1>1. CASE Next /\ Alone'
  BY <1>1, SessionStep, SlotStep DEF Next
<1>2. CASE UNCHANGED vars
  BY <1>2 DEF SessionInv, TypeOK, Alone, Created, Ready, ApnOwned, SlotInv, vars,
              sessVars, libVars, xtraVars, helperVars, slotVars, cbVars
<1>3. QED  BY <1>1, <1>2

\* The strengthened invariant holds of every reachable state.
THEOREM SessionInvariant == Spec => []SessionInv
BY SessionInit, SessionInvStep, PTL DEF Spec

\* The variables keep their types, and at most one helper is ever created.
THEOREM SessionTypes == Spec => []TypeOK
<1>1. SessionInv => TypeOK
  BY DEF SessionInv
<1>2. QED  BY <1>1, SessionInvariant, PTL

\* The mutexes are initialised and the helper is created once, before anything that
\* uses them, by however many sessions.
THEOREM CreatedOnce == Spec => HelperOnce
<1>1. SessionInv /\ [Next /\ Alone']_vars
        => [creations' # creations => creations = 0 /\ xtra_inits = 0]_vars
  <2> SUFFICES ASSUME SessionInv, Next, creations' # creations
               PROVE  creations = 0 /\ xtra_inits = 0
    OBVIOUS
  <2> USE DEF sessVars, libVars, helperVars, slotVars, cbVars, Move
  <2>1. ~Callback
    BY DEF Callback, AgpsStatus, XtraAnswer, Post
  <2>2. ~Helper /\ ~SpuriousWakeup
    BY DEF Helper, HelperStart, SpuriousWakeup, Wake, Serve, ServeDies, Idle
  <2>3. PICK t \in Tids : Session(t)
    BY <2>1, <2>2 DEF Next
  <2>4. CreateHelper(t)
    BY <2>3 DEF Session, Enter, Load, MakeInterface, XtraInit, XtraFlag, Navigate,
                LocationInitFails, LocationInitDies, StopNavigation, PostQuit, Post,
                SleepOver
  <2>5. QED  BY <2>4 DEF CreateHelper, SessionInv, Created, Ready
<1>2. QED  BY <1>1, SessionInvariant, PTL DEF Spec, HelperOnce

\* Neither a session nor the helper calls through an interface that is yet to be made, and
\* the XTRA client is initialised once at most, also where the library gives no interface
\* or no client.
THEOREM InterfaceIsReady == Spec => []InterfaceReady
<1>1. SessionInv => InterfaceReady
  BY DEF SessionInv, TypeOK, Ready, SlotInv, InterfaceReady
<1>2. QED  BY <1>1, SessionInvariant, PTL

\* Work that is taken out of the slot unserved was nobody's, was replaced before the woken
\* helper ran, or was an answer of the XTRA client between two sessions; and the helper
\* sleeps on none that came after its first wait.
THEOREM WorkIsAccounted == Spec => WorkAccounted
<1> USE DEF SessionInv, SlotInv, TypeOK
<1>1. ASSUME SessionInv, Next, Alone', Lost
      PROVE  \/ early \/ helper = "exited"
             \/ helper = "woken" /\ test_thread_action' # "NONE"
             \/ test_thread_action \in XtraActions /\ \A t \in Tids : pc[t] = "idle"
  <2> USE DEF sessVars, libVars, helperVars, slotVars, cbVars, Move, Lost
  <2>1. ASSUME NEW a \in Work \cup {"QUIT"}, Post(a)
        PROVE  \/ early \/ helper = "exited"
               \/ helper = "woken" /\ test_thread_action' # "NONE"
    BY <1>1, <2>1 DEF Post, MutexFree, Work, AtlActions, XtraActions
  <2>2. CASE Callback
    BY <2>1, <2>2, SessionConstants DEF Callback, AgpsStatus, XtraAnswer
  <2>3. CASE Helper \/ SpuriousWakeup
    BY <1>1, <2>3 DEF Helper, HelperStart, SpuriousWakeup, Wake, Serve, ServeDies, Idle
  <2>4. ASSUME NEW t \in Tids, Session(t)
        PROVE  \/ early \/ helper = "exited"
               \/ helper = "woken" /\ test_thread_action' # "NONE"
               \/ test_thread_action \in XtraActions /\ \A u \in Tids : pc[u] = "idle"
    <3>1. CASE Enter(t)
      <4>1. \A u \in Tids : pc[u] = "idle"
        BY <1>1, <3>1 DEF Enter, Goto, Alone
      <4>2. helper \in {"woken", "serving"} /\ ~early => test_thread_action \notin AtlActions
        BY <1>1, <4>1
      <4>3. QED  BY <1>1, <4>1, <4>2 DEF Work
    <3>2. CASE PostQuit(t)
      BY <2>1, <3>2 DEF PostQuit
    <3>3. QED
      BY <1>1, <2>4, <3>1, <3>2
         DEF Session, CreateHelper, Load, MakeInterface, XtraInit, XtraFlag, Navigate,
             LocationInitFails, LocationInitDies, StopNavigation, SleepOver
  <2>5. QED  BY <1>1, <2>2, <2>3, <2>4 DEF Next
<1>2. SessionInv /\ SessionInv' /\ [Next /\ Alone']_vars
        => [/\ Lost => \/ early \/ helper = "exited"
                       \/ helper = "woken" /\ test_thread_action' # "NONE"
                       \/ test_thread_action \in XtraActions /\ \A t \in Tids : pc[t] = "idle"
            /\ helper' = "waiting" /\ test_thread_action' \in Work => early']_vars
  BY <1>1
<1>3. QED  BY <1>2, SessionInvariant, PTL DEF Spec, WorkAccounted

\* The APN the helper passes on lies in memory that is still there.
THEOREM ApnOutlivesUse == Spec => []ApnValid
<1>1. SessionInv => ApnValid
  BY DEF SessionInv, TypeOK, ApnOwned, SlotInv, ApnValid, AtlActions
<1>2. QED  BY <1>1, SessionInvariant, PTL

\* The helper ends only by the QUIT of a session that is over.
THEOREM QuitIsFresh == Spec => NoStaleQuit
<1>1. SessionInv /\ [Next /\ Alone']_vars
        => [helper' = "exited" /\ helper # "exited"
              => \A t \in Tids : pc[t] \in {"sleep", "idle"}]_vars
  <2> SUFFICES ASSUME SessionInv, Next, helper' = "exited", helper # "exited"
               PROVE  \A t \in Tids : pc[t] \in {"sleep", "idle"}
    OBVIOUS
  <2> USE DEF sessVars, libVars, helperVars, slotVars, cbVars, Move
  <2>1. ~Callback
    BY DEF Callback, AgpsStatus, XtraAnswer, Post
  <2>2. \A t \in Tids : ~Session(t)
    BY DEF Session, Enter, CreateHelper, Load, MakeInterface, XtraInit, XtraFlag,
           Navigate, LocationInitFails, LocationInitDies, StopNavigation, PostQuit, Post,
           SleepOver
  <2>3. Wake
    BY <2>1, <2>2 DEF Next, Helper, HelperStart, SpuriousWakeup, Serve, ServeDies
  <2>4. test_thread_action = "QUIT"
    BY <2>3 DEF Wake
  <2>5. QED  BY <2>4 DEF SessionInv, SlotInv
<1>2. QED  BY <1>1, SessionInvariant, PTL DEF Spec, NoStaleQuit

-----------------------------------------------------------------------------
(* The threads that run them.                                              *)

ThreadInv ==
  /\ thr \in [Tids -> Mgr!ThreadStates] /\ pc \in [Tids -> PcStates]
  /\ WithinThread

\* One of garden_entry's steps.
LEMMA SessionKeeps ==
  ASSUME ThreadInv, NEW t \in Tids, Session(t)
  PROVE  /\ pc' \in [Tids -> PcStates]
         /\ \A u \in Tids \ {t} : pc'[u] = pc[u]
         /\ Enter(t) \/ pc[t] # "idle"
BY DEF ThreadInv, Session, Enter, CreateHelper, Load, Exit, MakeInterface, XtraInit,
       XtraFlag, Navigate, LocationInitFails, LocationInitDies, StopNavigation, PostQuit,
       SleepOver, Move, Goto, PcStates, Initialised

LEMMA InsideIsSession == ASSUME NEW t \in Tids, Inside(t) PROVE Session(t)
BY DEF Inside, Session

LEMMA CreateThr ==
  ASSUME ThreadInv, NEW type, Mgr!PthreadCreate(type)
  PROVE  /\ thr' \in [Tids -> Mgr!ThreadStates]
         /\ \A t \in Tids : thr[t] # "free" => thr'[t] = thr[t]
BY DEF ThreadInv, Mgr!PthreadCreate, Mgr!ThreadStates, Mgr!Live, Mgr!Marked

\* The manager leaves a thread that is in garden_entry where it is.
LEMMA ManagerKeeps == ASSUME ThreadInv, Manager PROVE ThreadInv'
<1> USE DEF Mgr!thrVars, Mgr!globals
<1>1. UNCHANGED pc
  BY DEF Manager, vars, sessVars
<1>2. SUFFICES /\ thr' \in [Tids -> Mgr!ThreadStates]
               /\ \A t \in Tids : thr[t] \in {"armed", "nav", "unwinding"} =>
                                    thr'[t] \in {"armed", "nav", "unwinding"}
  BY <1>1 DEF ThreadInv, WithinThread
<1>3. CASE Mgr!Main
  <2>1. (\E type : Mgr!PthreadCreate(type)) \/ UNCHANGED thr
    BY <1>3 DEF Mgr!Main, Mgr!Boot, Mgr!ServerStart, Mgr!Poll, Mgr!ChkTid,
                Mgr!MainStartChk, Mgr!MainCreate
  <2>2. QED  BY <2>1, CreateThr DEF ThreadInv
<1>4. CASE Mgr!GetStat \/ \E c \in ClientCmds : Mgr!RecvCmd(c)
  BY <1>4 DEF Mgr!GetStat, Mgr!RecvCmd, ThreadInv
<1>5. CASE Mgr!ServerStep
  <2>1. (\E type : Mgr!PthreadCreate(type)) \/ UNCHANGED thr \/ Mgr!SrvJoined
    BY <1>5 DEF Mgr!ServerStep, Mgr!SrvStartChk, Mgr!SrvCreate, Mgr!SrvStopChk,
                Mgr!SrvStopFlag, Mgr!SrvJoin, Mgr!SrvClearTid, Mgr!SrvClearStat
  <2>2. CASE Mgr!SrvJoined
    BY <2>2 DEF Mgr!SrvJoined, ThreadInv, Mgr!ThreadStates
  <2>3. QED  BY <2>1, <2>2, CreateThr DEF ThreadInv
<1>6. CASE \E t \in Tids : Mgr!MarkRunning(t) \/ Mgr!Arm(t)
  BY <1>6 DEF Mgr!MarkRunning, Mgr!Arm, ThreadInv, Mgr!ThreadStates, Mgr!Live, Mgr!Marked
<1>7. QED  BY <1>3, <1>4, <1>5, <1>6 DEF Manager

LEMMA ThreadKeepsWithin == ASSUME ThreadInv, NEW t \in Tids, Thread(t) PROVE ThreadInv'
<1> USE DEF Mgr!ThreadStates, Mgr!Live, Mgr!Marked
<1>1. CASE Inside(t)
  <2>1. UNCHANGED thr
    BY <1>1 DEF Inside, mgrVars
  <2>2. Session(t)
    BY <1>1, InsideIsSession
  <2>3. thr[t] \in {"armed", "nav", "unwinding"}
    BY <1>1 DEF Inside, ThreadInv, WithinThread, CreateHelper, Load, MakeInterface,
                XtraInit, XtraFlag, LocationInitDies, PostQuit, SleepOver, Move
  <2>4. QED  BY <2>1, <2>2, <2>3, SessionKeeps DEF ThreadInv, WithinThread
<1>2. CASE Navigate(t) /\ Mgr!StartNavigation(t)
  BY <1>2 DEF Navigate, Move, Goto, Mgr!StartNavigation, ThreadInv, WithinThread,
              PcStates, Initialised
<1>3. CASE LocationInitFails(t) /\ Mgr!InitFails(t)
  BY <1>3 DEF LocationInitFails, Move, Goto, Mgr!InitFails, ThreadInv, WithinThread,
              PcStates
<1>4. CASE StopNavigation(t) /\ Mgr!LeaveLoop(t)
  BY <1>4 DEF StopNavigation, Move, Goto, Mgr!LeaveLoop, ThreadInv, WithinThread,
              PcStates, Initialised
<1>5. CASE pc[t] = "idle" /\ Mgr!MarkStopped(t) /\ UNCHANGED vars
  BY <1>5 DEF Mgr!MarkStopped, ThreadInv, WithinThread, vars, sessVars
<1>6. QED  BY <1>1, <1>2, <1>3, <1>4, <1>5 DEF Thread

LEMMA ThreadInvStep == ThreadInv /\ [DaemonNext]_DaemonVars => ThreadInv'
<1> SUFFICES ASSUME ThreadInv, [DaemonNext]_DaemonVars PROVE ThreadInv'
  OBVIOUS
<1>1. CASE HelperSide
  <2>1. UNCHANGED <<pc, thr>>
    BY <1>1 DEF HelperSide, mgrVars, Helper, Callback, HelperStart, Wake, Serve,
                ServeDies, SpuriousWakeup, AgpsStatus, XtraAnswer, Idle, sessVars
  <2>2. QED  BY <2>1 DEF ThreadInv, WithinThread
<1>2. CASE UNCHANGED DaemonVars
  BY <1>2 DEF DaemonVars, vars, sessVars, mgrVars, ThreadInv, WithinThread
<1>3. QED  BY <1>1, <1>2, ManagerKeeps, ThreadKeepsWithin DEF DaemonNext

LEMMA DaemonInitial == DaemonInit => ThreadInv
BY DEF DaemonInit, Init, Mgr!Init, ThreadInv, WithinThread, PcStates, Mgr!ThreadStates

\* However sessions overlap, a thread the server may join or release is out of
\* garden_entry: gps_stop never pulls a session's stack away.
THEOREM SessionWithinThread == DaemonSpec => []WithinThread
<1>1. ThreadInv => WithinThread
  BY DEF ThreadInv
<1>2. QED  BY <1>1, DaemonInitial, ThreadInvStep, PTL DEF DaemonSpec

LEMMA SingleIsAlone == ThreadInv /\ Mgr!SingleSession => SessionsApart
BY DEF ThreadInv, WithinThread, Mgr!SingleSession, Mgr!Live, Mgr!Marked, SessionsApart,
       Alone

\* Every step of the daemon is one of TestThread, or none of it.
LEMMA DaemonStep == ASSUME [DaemonNext]_DaemonVars PROVE [Next]_vars
<1>1. CASE DaemonNext
  <2>1. CASE Manager
    BY <2>1 DEF Manager
  <2>2. ASSUME NEW t \in Tids, Running, Thread(t) PROVE [Next]_vars
    BY <2>2, InsideIsSession DEF Thread, Session, Next
  <2>3. CASE Running /\ HelperSide
    BY <2>3 DEF HelperSide, Next
  <2>4. QED  BY <1>1, <2>1, <2>2, <2>3 DEF DaemonNext
<1>2. CASE UNCHANGED DaemonVars
  BY <1>2 DEF DaemonVars
<1>3. QED  BY <1>1, <1>2

\* Where the manager keeps to one session, the sessions it runs follow one another: the
\* daemon implements TestThread.
THEOREM DaemonRunsSessions == DaemonSpec /\ []Mgr!SingleSession => Spec
<1>1. DaemonInit => Init
  BY DEF DaemonInit
<1>2. ThreadInv' /\ Mgr!SingleSession' /\ [DaemonNext]_DaemonVars => [Next /\ Alone']_vars
  <2>1. ThreadInv' /\ Mgr!SingleSession' => Alone'
    BY DEF ThreadInv, WithinThread, Mgr!SingleSession, Mgr!Live, Mgr!Marked, Alone
  <2>2. QED  BY <2>1, DaemonStep
<1>3. QED  BY <1>1, <1>2, DaemonInitial, ThreadInvStep, PTL DEF DaemonSpec, Spec

\* The sessions' own steps and waits only slow the manager down: with them it makes the
\* steps of GpsMgr and no others.
THEOREM DaemonIsManager == DaemonSpec => Mgr!Spec
<1>1. DaemonInit => Mgr!Init
  BY DEF DaemonInit
<1>2. [DaemonNext]_DaemonVars => [Mgr!Next]_(Mgr!vars)
  <2> SUFFICES ASSUME [DaemonNext]_DaemonVars PROVE [Mgr!Next]_(Mgr!vars)
    OBVIOUS
  <2>1. UNCHANGED mgrVars => UNCHANGED Mgr!vars
    BY DEF mgrVars, Mgr!vars, Mgr!globals, Mgr!mainVars, Mgr!srvVars, Mgr!thrVars
  <2>2. CASE Manager
    BY <2>2 DEF Manager, Mgr!Next, Mgr!MgrThread
  <2>3. ASSUME NEW t \in Tids, Thread(t) PROVE [Mgr!Next]_(Mgr!vars)
    BY <2>1, <2>3 DEF Thread, Inside, Mgr!Next, Mgr!MgrThread
  <2>4. CASE HelperSide
    BY <2>1, <2>4 DEF HelperSide
  <2>5. CASE UNCHANGED DaemonVars
    BY <2>1, <2>5 DEF DaemonVars
  <2>6. QED  BY <2>2, <2>3, <2>4, <2>5 DEF DaemonNext
<1>3. QED  BY <1>1, <1>2, PTL DEF DaemonSpec, Mgr!Spec

-----------------------------------------------------------------------------
(* GpsMgr as GpsMgrProofs knows it is the daemon's.                        *)

SpacedMgr == INSTANCE GpsMgrProofs

LEMMA SameManager ==
  /\ Mgr!Init => SpacedMgr!Init
  /\ [Mgr!Next]_(Mgr!vars) => [SpacedMgr!Next]_(SpacedMgr!vars)
  /\ SpacedMgr!SingleSession => Mgr!SingleSession
<1> USE DEF Mgr!vars, SpacedMgr!vars, Mgr!globals, SpacedMgr!globals, Mgr!mainVars,
            SpacedMgr!mainVars, Mgr!srvVars, SpacedMgr!srvVars, Mgr!thrVars,
            SpacedMgr!thrVars
<1>1. Mgr!Init => SpacedMgr!Init
  BY DEF Mgr!Init, SpacedMgr!Init
<1>2. \A type : Mgr!PthreadCreate(type) => SpacedMgr!PthreadCreate(type)
  BY DEF Mgr!PthreadCreate, SpacedMgr!PthreadCreate
<1>3. Mgr!Main => SpacedMgr!Main
  BY <1>2 DEF Mgr!Main, SpacedMgr!Main, Mgr!Boot, SpacedMgr!Boot, Mgr!ServerStart,
              SpacedMgr!ServerStart, Mgr!Poll, SpacedMgr!Poll, Mgr!HandleSet,
              SpacedMgr!HandleSet, Mgr!CountAfter, SpacedMgr!CountAfter, Mgr!ChkTid,
              SpacedMgr!ChkTid, Mgr!Refused, SpacedMgr!Refused, Mgr!MainStartChk,
              SpacedMgr!MainStartChk, Mgr!MainCreate, SpacedMgr!MainCreate
<1>4. Mgr!MayArrive => SpacedMgr!MayArrive
  BY DEF Mgr!InTransit, SpacedMgr!InTransit, Mgr!Settled, SpacedMgr!Settled,
         Mgr!MayArrive, SpacedMgr!MayArrive, Mgr!Marked, SpacedMgr!Marked, Mgr!Live,
         SpacedMgr!Live
<1>5. Mgr!GetStat \/ (\E c \in ClientCmds : Mgr!RecvCmd(c)) =>
      SpacedMgr!GetStat \/ (\E c \in ClientCmds : SpacedMgr!RecvCmd(c))
  BY <1>4 DEF Mgr!GetStat, SpacedMgr!GetStat, Mgr!RecvCmd, SpacedMgr!RecvCmd,
              Mgr!StartCmds, SpacedMgr!StartCmds
<1>6. Mgr!ServerStep => SpacedMgr!ServerStep
  <2>1. Mgr!AfterStop = SpacedMgr!AfterStop /\ \A c : Mgr!TypeOf(c) = SpacedMgr!TypeOf(c)
    BY DEF Mgr!AfterStop, SpacedMgr!AfterStop, Mgr!ResetCmds, SpacedMgr!ResetCmds,
           Mgr!TypeOf, SpacedMgr!TypeOf
  <2>2. QED  BY <1>2, <2>1 DEF Mgr!ServerStep, SpacedMgr!ServerStep, Mgr!SrvStartChk,
                               SpacedMgr!SrvStartChk, Mgr!Refused, SpacedMgr!Refused,
                               Mgr!SrvCreate, SpacedMgr!SrvCreate, Mgr!SrvStopChk,
                               SpacedMgr!SrvStopChk, Mgr!FlagAtStop, SpacedMgr!FlagAtStop,
                               Mgr!SrvStopFlag, SpacedMgr!SrvStopFlag, Mgr!SrvJoin,
                               SpacedMgr!SrvJoin, Mgr!SrvJoined, SpacedMgr!SrvJoined,
                               Mgr!TidAfterJoin, SpacedMgr!TidAfterJoin, Mgr!SrvClearTid,
                               SpacedMgr!SrvClearTid, Mgr!SrvClearStat,
                               SpacedMgr!SrvClearStat
<1>7. ASSUME NEW t \in Tids, Mgr!MgrThread(t) PROVE SpacedMgr!MgrThread(t)
  BY <1>7 DEF Mgr!MgrThread, SpacedMgr!MgrThread, Mgr!MarkRunning, SpacedMgr!MarkRunning,
              Mgr!FlagAtStart, SpacedMgr!FlagAtStart, Mgr!Arm, SpacedMgr!Arm,
              Mgr!StartNavigation, SpacedMgr!StartNavigation, Mgr!InitFails,
              SpacedMgr!InitFails, Mgr!LeaveLoop, SpacedMgr!LeaveLoop, Mgr!StatAtExit,
              SpacedMgr!StatAtExit, Mgr!MarkStopped, SpacedMgr!MarkStopped
<1>8. Mgr!Next => SpacedMgr!Next
  BY <1>3, <1>5, <1>6, <1>7 DEF Mgr!Next, SpacedMgr!Next
<1>9. SpacedMgr!SingleSession => Mgr!SingleSession
  BY DEF Mgr!SingleSession, SpacedMgr!SingleSession, Mgr!Live, SpacedMgr!Live, Mgr!Marked,
         SpacedMgr!Marked
<1>10. [Mgr!Next]_(Mgr!vars) => [SpacedMgr!Next]_(SpacedMgr!vars)
  BY <1>8
<1>11. QED  BY <1>1, <1>9, <1>10

LEMMA DaemonIsSpacedManager == DaemonSpec => SpacedMgr!Spec
BY SameManager, DaemonIsManager, PTL DEF Mgr!Spec, SpacedMgr!Spec

\* gps_start's guard does its work in the daemon too: the manager keeps to one session,
\* however long the sessions it runs take and whatever the helper does.
THEOREM DaemonSingleSession ==
  ASSUME Spaced, StartArgs \subseteq {"nostart"} PROVE DaemonSpec => []Mgr!SingleSession
<1>1. SpacedMgr!Spec => []SpacedMgr!SingleSession
  BY DaemonConstants, SpacedMgr!SpacedSingleSession DEF Mgr!ConstantsAssumption
<1>2. QED  BY <1>1, SameManager, DaemonIsSpacedManager, PTL

\* Whatever the commands, no dead session is reported as running and gps_stop joins only
\* threads there are, with real sessions in the threads too.
THEOREM DaemonManagerSafe == DaemonSpec => []SpacedMgr!StatusSound /\ []SpacedMgr!JoinSafe
<1>1. SpacedMgr!Spec => []SpacedMgr!StatusSound /\ []SpacedMgr!JoinSafe
  BY DaemonConstants, SpacedMgr!StatusSoundness, SpacedMgr!JoinSafety
     DEF Mgr!ConstantsAssumption
<1>2. QED  BY <1>1, DaemonIsSpacedManager, PTL

\* What a client is told is true of the daemon with its sessions, the service its
\* manager port promises is kept, and a stop waits only for a session on its way out.
THEOREM DaemonServes ==
  ASSUME Spaced, StartArgs \subseteq {"nostart"}, Tids # {}
  PROVE  DaemonSpec => /\ []SpacedMgr!AnswerTrue /\ SpacedMgr!ServiceSafety
                       /\ []SpacedMgr!StopUnderWay
<1>1. SpacedMgr!Spec => []SpacedMgr!AnswerTrue
  BY DaemonConstants, SpacedMgr!SpacedAnswerTrue DEF Mgr!ConstantsAssumption
<1>2. SpacedMgr!Spec => SpacedMgr!ServiceSafety
  BY DaemonConstants, SpacedMgr!SpacedImplementsService DEF Mgr!ConstantsAssumption
<1>3. SpacedMgr!Spec => []SpacedMgr!StopUnderWay
  BY DaemonConstants, SpacedMgr!SpacedStopUnderWay DEF Mgr!ConstantsAssumption
<1>4. QED  BY <1>1, <1>2, <1>3, DaemonIsSpacedManager, PTL

\* So a session is out of garden_entry before the next one is in ...
THEOREM DaemonSessionsApart ==
  ASSUME Spaced, StartArgs \subseteq {"nostart"} PROVE DaemonSpec => []SessionsApart
BY DaemonSingleSession, SingleIsAlone, DaemonInitial, ThreadInvStep, PTL DEF DaemonSpec

\* ... the helper and its mutexes are made once ...
THEOREM DaemonHelperOnce ==
  ASSUME Spaced, StartArgs \subseteq {"nostart"} PROVE DaemonSpec => HelperOnce
BY DaemonSingleSession, DaemonRunsSessions, CreatedOnce, PTL

\* ... no session of the manager, and no helper, calls through an interface that is yet to
\* be made, nor is the XTRA client initialised again ...
THEOREM DaemonInterfaceReady ==
  ASSUME Spaced, StartArgs \subseteq {"nostart"}
  PROVE  DaemonSpec => []TypeOK /\ []InterfaceReady
BY DaemonSingleSession, DaemonRunsSessions, SessionTypes, InterfaceIsReady, PTL

\* ... the manager's stops and restarts lose the helper no work but what WorkAccounted
\* lists, and it uses no APN that lay on the stack of a thread the manager has joined ...
THEOREM DaemonHelperSafe ==
  ASSUME Spaced, StartArgs \subseteq {"nostart"}
  PROVE  DaemonSpec => WorkAccounted /\ []ApnValid
BY DaemonSingleSession, DaemonRunsSessions, WorkIsAccounted, ApnOutlivesUse, PTL

\* ... and no helper ends in the middle of a session.
THEOREM DaemonQuitFresh ==
  ASSUME Spaced, StartArgs \subseteq {"nostart"} PROVE DaemonSpec => NoStaleQuit
BY DaemonSingleSession, DaemonRunsSessions, QuitIsFresh, PTL
=============================================================================
