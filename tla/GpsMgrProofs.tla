---------------------------- MODULE GpsMgrProofs ----------------------------
(***************************************************************************)
(* Proofs about the GPS manager, for any number of thread handles and any  *)
(* bounds.  The first part holds for any start arguments and commands:     *)
(* TypeOK, StatusSound and JoinSafe are each inductive relative to TypeOK. *)
(* The second is about a manager started with nostart whose clients leave  *)
(* time between commands: one session at a time, a true get_stat, and the  *)
(* implementation of GpsService, all resting on the inductive SpacedInv.   *)
(***************************************************************************)
EXTENDS GpsMgrService, TLAPS

\* What pthread_create does to the thread table, whoever calls it: one free
\* handle becomes a created thread and the tracked one, or nothing changes.
LEMMA CreateTyped ==
  ASSUME TypeOK, NEW type \in {"warm", "cold"}, PthreadCreate(type)
  PROVE  /\ thr' \in [Tids -> ThreadStates]
         /\ gps_type' \in [Tids -> {"warm", "cold"}]
         /\ garden_mgr_tid' \in Tids \cup {NoTid}
BY DEF TypeOK, PthreadCreate, ThreadStates, Live

\* The type a command asks for is one gps_start knows.
LEMMA TypeOfTyped == ASSUME NEW c PROVE TypeOf(c) \in {"warm", "cold"}
BY DEF TypeOf

\* Every variable keeps its type: the watchdog's count never passes ChkCnt, and
\* the bounds on commands and failures hold.
THEOREM TypeCorrect == Spec => []TypeOK
<1>1. Init => TypeOK
  BY ConstantsAssumption DEF Init, TypeOK, ThreadStates, Live, Marked
<1>2. TypeOK /\ [Next]_vars => TypeOK'
  <2> SUFFICES ASSUME TypeOK, [Next]_vars PROVE TypeOK'
    OBVIOUS
  <2> USE ConstantsAssumption
  <2>1. CASE Main
    <3>1. ASSUME NEW arg \in StartArgs, Boot(arg) PROVE TypeOK'
      <4>1. CASE arg \in {"warm", "cold"}
        <5>1. PthreadCreate(arg)
          BY <3>1, <4>1 DEF Boot
        <5>2. QED  BY <3>1, <4>1, <5>1, CreateTyped DEF Boot, TypeOK, srvVars
      <4>2. CASE arg \notin {"warm", "cold"}
        BY <3>1, <4>2 DEF Boot, TypeOK, srvVars
      <4>3. QED  BY <4>1, <4>2
    <3>2. CASE ServerStart
      BY <3>2 DEF ServerStart, TypeOK, globals, thrVars
    <3>3. CASE Poll
      BY <3>3 DEF Poll, TypeOK, globals, srvVars, thrVars
    <3>4. CASE ChkTid
      BY <3>4 DEF ChkTid, TypeOK, globals, srvVars, thrVars, HandleSet, CountAfter
    <3>5. CASE MainStartChk
      BY <3>5 DEF MainStartChk, TypeOK, globals, srvVars, thrVars, Refused
    <3>6. CASE MainCreate
      <4>1. PthreadCreate("warm")
        BY <3>6 DEF MainCreate
      <4>2. QED  BY <3>6, <4>1, CreateTyped DEF MainCreate, TypeOK, srvVars
    <3>7. QED  BY <2>1, <3>1, <3>2, <3>3, <3>4, <3>5, <3>6 DEF Main
  <2>2. CASE GetStat
    BY <2>2 DEF GetStat, TypeOK, globals, mainVars, thrVars
  <2>3. ASSUME NEW c \in ClientCmds, RecvCmd(c) PROVE TypeOK'
    BY <2>3 DEF RecvCmd, TypeOK, SetCmds, StartCmds, ResetCmds, globals, mainVars, thrVars
  <2>4. CASE ServerStep
    <3> USE DEF globals, mainVars, thrVars
    <3>1. CASE SrvStartChk
      BY <3>1 DEF SrvStartChk, TypeOK, Refused
    <3>2. CASE SrvCreate
      <4>1. PthreadCreate(TypeOf(cmd))
        BY <3>2 DEF SrvCreate
      <4>2. QED  BY <3>2, <4>1, CreateTyped, TypeOfTyped DEF SrvCreate, TypeOK
    <3>3. CASE SrvStopChk
      BY <3>3 DEF SrvStopChk, AfterStop, TypeOK
    <3>4. CASE SrvStopFlag
      BY <3>4 DEF SrvStopFlag, TypeOK, FlagAtStop
    <3>5. CASE SrvJoin
      BY <3>5 DEF SrvJoin, TypeOK
    <3>6. CASE SrvJoined
      BY <3>6 DEF SrvJoined, TypeOK, ThreadStates
    <3>7. CASE SrvClearTid
      BY <3>7 DEF SrvClearTid, TypeOK, TidAfterJoin
    <3>8. CASE SrvClearStat
      BY <3>8 DEF SrvClearStat, AfterStop, TypeOK
    <3>9. QED
      BY <2>4, <3>1, <3>2, <3>3, <3>4, <3>5, <3>6, <3>7, <3>8 DEF ServerStep
  <2>5. ASSUME NEW t \in Tids, MgrThread(t) PROVE TypeOK'
    <3> USE DEF globals, mainVars, srvVars, ThreadStates, Live, Marked
    <3>1. CASE MarkRunning(t)   BY <3>1 DEF MarkRunning, TypeOK
    <3>2. CASE Arm(t)           BY <3>2 DEF Arm, TypeOK, FlagAtStart
    <3>3. CASE StartNavigation(t)  BY <3>3 DEF StartNavigation, TypeOK
    <3>4. CASE InitFails(t)     BY <3>4 DEF InitFails, TypeOK
    <3>5. CASE LeaveLoop(t)     BY <3>5 DEF LeaveLoop, TypeOK
    <3>6. CASE MarkStopped(t)   BY <3>6 DEF MarkStopped, TypeOK, StatAtExit
    <3>7. QED  BY <2>5, <3>1, <3>2, <3>3, <3>4, <3>5, <3>6 DEF MgrThread
  <2>6. CASE UNCHANGED vars
    BY <2>6 DEF TypeOK, vars, globals, mainVars, srvVars, thrVars
  <2>7. QED  BY <2>1, <2>2, <2>3, <2>4, <2>5, <2>6 DEF Next
<1>3. QED  BY <1>1, <1>2, PTL DEF Spec

-----------------------------------------------------------------------------
(* A dead session is never reported as running.                            *)

\* pthread_create takes a free handle, so it cannot disturb a session that has
\* already set gps_thread_stat, nor one that is being joined.
LEMMA CreateKeeps ==
  ASSUME TypeOK, NEW type, PthreadCreate(type), NEW t \in Tids, thr[t] # "free"
  PROVE  thr'[t] = thr[t]
BY DEF TypeOK, PthreadCreate

\* gps_thread_stat is 1 only while some session is between its two assignments:
\* the assignment of 0 is every session's last, and nothing but a session sets 1.
THEOREM StatusSoundness == Spec => []StatusSound
<1>1. Init => StatusSound
  BY DEF Init, StatusSound
<1>2. TypeOK /\ StatusSound /\ [Next]_vars => StatusSound'
  <2> SUFFICES ASSUME TypeOK, StatusSound, [Next]_vars PROVE StatusSound'
    OBVIOUS
  <2> USE DEF globals, mainVars, srvVars, thrVars
  <2>1. ASSUME gps_thread_stat' = gps_thread_stat,
               \A t \in Tids : thr[t] \in Marked => thr'[t] \in Marked
        PROVE  StatusSound'
    BY <2>1 DEF StatusSound
  <2>2. ASSUME NEW type, PthreadCreate(type), gps_thread_stat' = gps_thread_stat
        PROVE  StatusSound'
    BY <2>1, <2>2, CreateKeeps DEF Marked
  <2>3. CASE Main
    <3>1. ASSUME NEW arg \in StartArgs, Boot(arg) PROVE StatusSound'
      BY <3>1, <2>1, <2>2 DEF Boot
    <3>2. CASE ServerStart \/ Poll \/ ChkTid \/ MainStartChk
      BY <3>2, <2>1 DEF ServerStart, Poll, ChkTid, MainStartChk, HandleSet, CountAfter,
                        Refused
    <3>3. CASE MainCreate
      BY <3>3, <2>2 DEF MainCreate
    <3>4. QED  BY <2>3, <3>1, <3>2, <3>3 DEF Main
  <2>4. CASE GetStat \/ \E c \in ClientCmds : RecvCmd(c)
    BY <2>4, <2>1 DEF GetStat, RecvCmd
  <2>5. CASE ServerStep
    <3>1. CASE SrvStartChk \/ SrvStopChk \/ SrvStopFlag \/ SrvJoin \/ SrvClearTid
      BY <3>1, <2>1 DEF SrvStartChk, SrvStopChk, SrvStopFlag, SrvJoin, SrvClearTid,
                        Refused, FlagAtStop, TidAfterJoin
    <3>2. CASE SrvCreate
      BY <3>2, <2>2 DEF SrvCreate
    <3>3. CASE SrvJoined
      <4>1. \A t \in Tids : thr[t] \in Marked => thr'[t] = thr[t]
        BY <3>3 DEF SrvJoined, TypeOK, Marked
      <4>2. QED  BY <3>3, <4>1, <2>1 DEF SrvJoined
    <3>4. CASE SrvClearStat
      BY <3>4 DEF SrvClearStat, StatusSound
    <3>5. QED  BY <2>5, <3>1, <3>2, <3>3, <3>4 DEF ServerStep
  <2>6. ASSUME NEW t \in Tids, MgrThread(t) PROVE StatusSound'
    <3>1. CASE MarkRunning(t)
      BY <3>1 DEF MarkRunning, StatusSound, TypeOK, Marked
    <3>2. CASE Arm(t) \/ StartNavigation(t) \/ InitFails(t) \/ LeaveLoop(t)
      BY <3>2, <2>1 DEF Arm, StartNavigation, InitFails, LeaveLoop, TypeOK, Marked,
                        FlagAtStart
    <3>3. CASE MarkStopped(t)
      BY <3>3 DEF MarkStopped, StatusSound, StatAtExit
    <3>4. QED  BY <2>6, <3>1, <3>2, <3>3 DEF MgrThread
  <2>7. CASE UNCHANGED vars
    BY <2>7, <2>1 DEF vars
  <2>8. QED  BY <2>3, <2>4, <2>5, <2>6, <2>7 DEF Next
<1>3. QED  BY <1>1, <1>2, TypeCorrect, PTL DEF Spec

-----------------------------------------------------------------------------
(* gps_stop joins only threads that were created and not yet joined.       *)

\* The server thread does not exist before main starts it: without this, main's
\* ServerStart could cut a join short.
ServerDown == mpc \in {"boot", "serve"} => spc = "down"
JoinInv == JoinSafe /\ ServerDown

\* The handle changes hands four times (created, tracked, joined, cleared); the
\* three parts of JoinSafe carry each other from one to the next.
THEOREM JoinSafety == Spec => []JoinSafe
<1>1. Init => JoinInv
  BY DEF Init, JoinInv, JoinSafe, ServerDown
<1>2. TypeOK /\ JoinInv /\ [Next]_vars => JoinSafe'
  <2> SUFFICES ASSUME TypeOK, JoinSafe, ServerDown, [Next]_vars PROVE JoinSafe'
    BY DEF JoinInv
  <2> USE DEF globals, mainVars, srvVars, thrVars
  <2> USE ConstantsAssumption
  <2>1. ASSUME UNCHANGED <<spc, garden_mgr_tid, join_tid>>,
               \A t \in Tids : thr[t] # "free" => thr'[t] # "free"
        PROVE  JoinSafe'
    BY <2>1 DEF JoinSafe, TypeOK
  <2>2. ASSUME NEW type, PthreadCreate(type), join_tid' = join_tid,
               \/ spc' = spc
               \/ spc' = "recv" /\ spc # "cleartid"
        PROVE  JoinSafe'
    BY <2>2, CreateKeeps DEF JoinSafe, TypeOK, PthreadCreate
  <2>3. CASE Main
    <3>1. ASSUME NEW arg \in StartArgs, Boot(arg) PROVE JoinSafe'
      <4>1. UNCHANGED <<spc, join_tid>>
        BY <3>1 DEF Boot
      <4>2. CASE PthreadCreate(arg)
        BY <4>1, <4>2, <2>2
      <4>3. CASE UNCHANGED <<thr, garden_mgr_tid>>
        BY <4>1, <4>3, <2>1
      <4>4. QED  BY <3>1, <4>2, <4>3 DEF Boot
    <3>2. CASE ServerStart
      BY <3>2 DEF ServerStart, ServerDown, JoinSafe
    <3>3. CASE Poll \/ ChkTid \/ MainStartChk
      BY <3>3, <2>1 DEF Poll, ChkTid, MainStartChk, HandleSet, CountAfter, Refused
    <3>4. CASE MainCreate
      <4>1. PthreadCreate("warm") /\ UNCHANGED <<spc, join_tid>>
        BY <3>4 DEF MainCreate
      <4>2. QED  BY <4>1, <2>2
    <3>5. QED  BY <2>3, <3>1, <3>2, <3>3, <3>4 DEF Main
  <2>4. CASE GetStat
    BY <2>4, <2>1 DEF GetStat
  <2>5. ASSUME NEW c \in ClientCmds, RecvCmd(c) PROVE JoinSafe'
    BY <2>5 DEF RecvCmd, MayArrive, JoinSafe
  <2>6. CASE ServerStep
    <3>1. CASE SrvStartChk
      BY <3>1 DEF SrvStartChk, JoinSafe, Refused
    <3>2. CASE SrvCreate
      <4>1. PthreadCreate(TypeOf(cmd))
        BY <3>2 DEF SrvCreate
      <4>2. QED  BY <3>2, <4>1, <2>2 DEF SrvCreate
    <3>3. CASE SrvStopChk
      BY <3>3 DEF SrvStopChk, AfterStop, JoinSafe
    <3>4. CASE SrvStopFlag
      BY <3>4 DEF SrvStopFlag, JoinSafe, FlagAtStop
    <3>5. CASE SrvJoin
      BY <3>5 DEF SrvJoin, JoinSafe
    <3>6. CASE SrvJoined
      BY <3>6 DEF SrvJoined, JoinSafe
    <3>7. CASE SrvClearTid
      BY <3>7 DEF SrvClearTid, JoinSafe, TidAfterJoin
    <3>8. CASE SrvClearStat
      BY <3>8 DEF SrvClearStat, AfterStop, JoinSafe
    <3>9. QED
      BY <2>6, <3>1, <3>2, <3>3, <3>4, <3>5, <3>6, <3>7, <3>8 DEF ServerStep
  <2>7. ASSUME NEW t \in Tids, MgrThread(t) PROVE JoinSafe'
    BY <2>7, <2>1 DEF MgrThread, MarkRunning, Arm, StartNavigation, InitFails, LeaveLoop,
                      MarkStopped, TypeOK, FlagAtStart, StatAtExit
  <2>8. CASE UNCHANGED vars
    BY <2>8, <2>1 DEF vars
  <2>9. QED  BY <2>3, <2>4, <2>5, <2>6, <2>7, <2>8 DEF Next
<1>3. ServerDown /\ [Next]_vars => ServerDown'
  BY DEF ServerDown, Next, vars, globals, mainVars, srvVars, thrVars, Main, Boot,
         ServerStart, Poll, ChkTid, MainStartChk, MainCreate, GetStat, RecvCmd, MayArrive,
         ServerStep, SrvStartChk, SrvCreate, SrvStopChk, SrvStopFlag, SrvJoin, SrvJoined,
         SrvClearTid, SrvClearStat, MgrThread, MarkRunning, Arm, StartNavigation,
         InitFails, LeaveLoop, MarkStopped, HandleSet, CountAfter, Refused, FlagAtStop,
         TidAfterJoin, FlagAtStart, StatAtExit
<1>4. QED  BY <1>1, <1>2, <1>3, TypeCorrect, PTL DEF Spec, JoinInv

-----------------------------------------------------------------------------
(* A manager started with nostart, whenever its commands come.             *)

\* Main does not start sessions: the start argument was nostart.
MainIdle ==
  /\ mpc \in {"boot", "serve", "poll"}
  /\ mpc # "boot" => no_start_flag = 1

LEMMA MainIdleStep ==
  ASSUME StartArgs \subseteq {"nostart"}, MainIdle, [Next]_vars PROVE MainIdle'
<1> USE DEF MainIdle, globals, mainVars, srvVars, thrVars
<1>1. CASE Main
  BY <1>1 DEF Main, Boot, ServerStart, Poll, ChkTid, MainStartChk, MainCreate
<1>2. CASE UNCHANGED mainVars
  BY <1>2
<1>3. QED
  BY <1>1, <1>2 DEF Next, vars, GetStat, RecvCmd, ServerStep, SrvStartChk, SrvCreate,
                    SrvStopChk, SrvStopFlag, SrvJoin, SrvJoined, SrvClearTid,
                    SrvClearStat, MgrThread, MarkRunning, Arm, StartNavigation, InitFails,
                    LeaveLoop, MarkStopped

\* The comment on the watchdog is right of a daemon started with nostart, however commands
\* and sessions overlap: what set_stop has switched off stays off until the next command.
THEOREM NostartStaysOff ==
  ASSUME StartArgs \subseteq {"nostart"}
  PROVE  Spec => ForcedOffStaysOff
<1>1. Init => MainIdle
  BY DEF Init, MainIdle
<1>2. MainIdle /\ [Next]_vars => MainIdle'
  BY MainIdleStep
<1>3. TypeOK /\ MainIdle /\ [Next]_vars =>
        [spc = "recv" /\ cmd = "set_stop" =>
           \A t \in Tids : thr'[t] = "created" => thr[t] = "created"]_vars
  <2> SUFFICES ASSUME TypeOK, MainIdle, Next, spc = "recv"
               PROVE  \A t \in Tids : thr'[t] = "created" => thr[t] = "created"
    OBVIOUS
  <2> USE DEF globals, mainVars, srvVars, thrVars
  <2>1. CASE Main
    BY <2>1 DEF Main, Boot, ServerStart, Poll, ChkTid, MainStartChk, MainCreate, MainIdle
  <2>2. CASE GetStat \/ (\E c \in ClientCmds : RecvCmd(c))
    BY <2>2 DEF GetStat, RecvCmd
  <2>3. ~ServerStep
    BY DEF ServerStep, SrvStartChk, SrvCreate, SrvStopChk, SrvStopFlag, SrvJoin,
           SrvJoined, SrvClearTid, SrvClearStat
  <2>4. ASSUME NEW u \in Tids, MgrThread(u)
        PROVE  \A t \in Tids : thr'[t] = "created" => thr[t] = "created"
    BY <2>4 DEF MgrThread, MarkRunning, Arm, StartNavigation, InitFails, LeaveLoop,
                MarkStopped, TypeOK
  <2>5. QED  BY <2>1, <2>2, <2>3, <2>4 DEF Next
<1>4. QED  BY <1>1, <1>2, <1>3, TypeCorrect, PTL DEF Spec, ForcedOffStaysOff

-----------------------------------------------------------------------------
(* A manager started with nostart and driven by spaced commands.           *)

\* The only session there can be is the tracked one.
Tracked == \A t \in Tids : thr[t] \in Live => t = garden_mgr_tid

\* Where the server relies on there being no session.
NoSession ==
  spc \in {"down", "create", "cleartid", "clearstat"} => \A t \in Tids : thr[t] \notin Live

\* A session that has reported itself is still reported.
Reported == \A t \in Tids : thr[t] \in Marked => gps_thread_stat = 1

\* A session that was armed stays armed until gps_stop clears the flag.
Armed ==
  \A t \in Tids : thr[t] \in {"armed", "nav"} =>
    garden_force_stop = 1 \/ spc \in {"join", "joining"}

\* A command meets no session in transit, and joins the tracked one.
Quiet == spc \in {"startchk", "stopchk", "flag"} => \A t \in Tids : ~InTransit(t)
JoinsTracked == spc = "joining" => join_tid = garden_mgr_tid

SpacedInv ==
  /\ MainIdle /\ ServerDown /\ Tracked /\ NoSession
  /\ Reported /\ Armed /\ Quiet /\ JoinsTracked

LEMMA SpacedInit == Init => SpacedInv
BY DEF Init, SpacedInv, MainIdle, ServerDown, Tracked, NoSession, Reported, Armed, Quiet,
       JoinsTracked, Live, Marked

\* Main only boots, starts the server and polls.
LEMMA MainStays ==
  ASSUME SpacedInv, StartArgs \subseteq {"nostart"}, Main
  PROVE  /\ UNCHANGED <<thrVars, globals, join_tid, cmd>>
         /\ mpc' \in {"boot", "serve", "poll"}
         /\ mpc' # "boot" => no_start_flag' = 1
         /\ mpc' \in {"boot", "serve"} => spc' = "down"
         /\ spc' = spc \/ (spc = "down" /\ spc' = "recv")
<1> USE DEF SpacedInv, MainIdle, globals, srvVars, thrVars
<1>1. ASSUME NEW arg \in StartArgs, Boot(arg)
      PROVE  /\ UNCHANGED <<thrVars, globals, srvVars>>
             /\ mpc = "boot" /\ mpc' = "serve" /\ no_start_flag' = 1
  BY <1>1 DEF Boot
<1>2. CASE \E arg \in StartArgs : Boot(arg)
  BY <1>1, <1>2 DEF ServerDown
<1>3. CASE ServerStart
  BY <1>3 DEF ServerStart, ServerDown
<1>4. CASE Poll
  BY <1>4 DEF Poll, ServerDown
<1>5. CASE ChkTid \/ MainStartChk \/ MainCreate
  BY <1>5 DEF ChkTid, MainStartChk, MainCreate, HandleSet, CountAfter, Refused
<1>6. QED  BY <1>2, <1>3, <1>4, <1>5 DEF Main

LEMMA MainKeeps ==
  ASSUME SpacedInv, StartArgs \subseteq {"nostart"}, Main
  PROVE  SpacedInv'
BY MainStays DEF SpacedInv, MainIdle, ServerDown, Tracked, NoSession, Reported, Armed,
                 Quiet, JoinsTracked, InTransit, globals, thrVars

\* A step of the server keeps the invariant: gps_start creates only when no
\* session is left, and gps_stop outlives the session it joins.
LEMMA ServerKeeps ==
  ASSUME TypeOK, SpacedInv, ServerStep
  PROVE  SpacedInv'
<1> USE ConstantsAssumption
    DEF SpacedInv, MainIdle, ServerDown, globals, mainVars, thrVars
<1>1. CASE SrvStartChk
  BY <1>1 DEF SrvStartChk, Tracked, NoSession, Reported, Armed, Quiet, JoinsTracked,
              InTransit, Live, Marked, TypeOK, Refused
<1>2. CASE SrvCreate
  <2>1. PthreadCreate(TypeOf(cmd)) /\ UNCHANGED <<gps_thread_stat, garden_force_stop,
  mainVars>>
    BY <1>2 DEF SrvCreate
  <2>2. spc = "create" /\ spc' = "recv"
    BY <1>2 DEF SrvCreate
  <2>3. \A t \in Tids : thr[t] \notin Live
    BY <2>2 DEF NoSession
  <2>4. \A t \in Tids : thr'[t] \in Live => t = garden_mgr_tid' /\ thr'[t] = "created"
    BY <2>1, <2>3 DEF PthreadCreate, TypeOK
  <2>5. \A t \in Tids : thr'[t] \notin Marked
    BY <2>4 DEF Live, Marked
  <2>6. Tracked' /\ NoSession' /\ Quiet' /\ JoinsTracked'
    BY <2>2, <2>4 DEF Tracked, NoSession, Quiet, JoinsTracked
  <2>7. Reported' /\ Armed'
    BY <2>5 DEF Reported, Armed, Marked
  <2>8. QED  BY <2>1, <2>2, <2>6, <2>7
<1>3. CASE SrvStopChk
  BY <1>3 DEF SrvStopChk, AfterStop, Tracked, NoSession, Reported, Armed, Quiet,
              JoinsTracked, InTransit
<1>4. CASE SrvStopFlag
  BY <1>4 DEF SrvStopFlag, Tracked, NoSession, Reported, Armed, Quiet, JoinsTracked,
              FlagAtStop
<1>5. CASE SrvJoin
  BY <1>5 DEF SrvJoin, Tracked, NoSession, Reported, Armed, Quiet, JoinsTracked
<1>6. CASE SrvJoined
  <2>1. /\ spc = "joining" /\ spc' = "cleartid" /\ thr[join_tid] = "ended"
        /\ thr' = [thr EXCEPT ![join_tid] = "free"]
        /\ UNCHANGED <<globals, mainVars>>
    BY <1>6 DEF SrvJoined
  <2>2. \A t \in Tids : thr'[t] \notin Live
    BY <2>1 DEF JoinsTracked, Tracked, TypeOK, Live, Marked
  <2>3. QED
    BY <2>1, <2>2 DEF Tracked, NoSession, Reported, Armed, Quiet, JoinsTracked, Live, Marked
<1>7. CASE SrvClearTid
  BY <1>7 DEF SrvClearTid, Tracked, NoSession, Reported, Armed, Quiet, JoinsTracked,
              TidAfterJoin
<1>8. CASE SrvClearStat
  BY <1>8 DEF SrvClearStat, AfterStop, Tracked, NoSession, Reported, Armed, Quiet,
              JoinsTracked, InTransit, Live, Marked
<1>9. QED
  BY <1>1, <1>2, <1>3, <1>4, <1>5, <1>6, <1>7, <1>8 DEF ServerStep

\* A step of a session's own thread keeps the invariant: it is the tracked one,
\* and while a command is on its way to the join it does not move at all.
LEMMA ThreadKeeps ==
  ASSUME TypeOK, SpacedInv, NEW t \in Tids, MgrThread(t)
  PROVE  SpacedInv'
<1> USE DEF SpacedInv, MainIdle, ServerDown, globals, mainVars, srvVars
<1>1. t = garden_mgr_tid /\ \A u \in Tids \ {t} : thr[u] \notin Live
  BY DEF MgrThread, MarkRunning, Arm, StartNavigation, InitFails, LeaveLoop, MarkStopped,
         Tracked, Live, Marked, FlagAtStart, StatAtExit
<1>2. UNCHANGED <<mainVars, srvVars, garden_mgr_tid>>
  BY DEF MgrThread, MarkRunning, Arm, StartNavigation, InitFails, LeaveLoop, MarkStopped,
         FlagAtStart, StatAtExit
<1>3. \A u \in Tids \ {t} : thr'[u] = thr[u]
  BY DEF MgrThread, MarkRunning, Arm, StartNavigation, InitFails, LeaveLoop, MarkStopped,
         TypeOK, FlagAtStart, StatAtExit
<1>4. Tracked' /\ JoinsTracked'
  BY <1>1, <1>2, <1>3 DEF Tracked, JoinsTracked
<1>5. thr[t] \in Live
  BY DEF MgrThread, MarkRunning, Arm, StartNavigation, InitFails, LeaveLoop, MarkStopped,
         Live, Marked, FlagAtStart, StatAtExit
<1>6. NoSession'
  BY <1>2, <1>5 DEF NoSession
<1>7. Quiet'
  <2>1. thr[t] = "nav" => garden_force_stop = 0
    BY DEF MgrThread, MarkRunning, Arm, StartNavigation, InitFails, LeaveLoop,
           MarkStopped, FlagAtStart, StatAtExit
  <2>2. spc \notin {"startchk", "stopchk", "flag"}
    BY <1>5, <2>1 DEF Quiet, InTransit, Armed
  <2>3. QED  BY <1>2, <2>2 DEF Quiet
<1>8. Reported'
  BY <1>1, <1>3 DEF MgrThread, MarkRunning, Arm, StartNavigation, InitFails, LeaveLoop,
                    MarkStopped, Reported, TypeOK, Live, Marked, FlagAtStart, StatAtExit
<1>9. Armed'
  BY <1>1, <1>2, <1>3 DEF MgrThread, MarkRunning, Arm, StartNavigation, InitFails,
                          LeaveLoop, MarkStopped, Armed, TypeOK, Live, Marked,
                          FlagAtStart, StatAtExit
<1>10. QED  BY <1>2, <1>4, <1>6, <1>7, <1>8, <1>9

\* Every step of a spaced, nostart daemon keeps the invariant.
LEMMA SpacedStep ==
  ASSUME Spaced, StartArgs \subseteq {"nostart"}, TypeOK, SpacedInv, [Next]_vars
  PROVE  SpacedInv'
<1> USE DEF SpacedInv, MainIdle, ServerDown, globals, mainVars, srvVars, thrVars
<1>1. CASE Main
  BY <1>1, MainKeeps
<1>2. CASE GetStat
  BY <1>2 DEF GetStat, Tracked, NoSession, Reported, Armed, Quiet, JoinsTracked, InTransit
<1>3. ASSUME NEW c \in ClientCmds, RecvCmd(c) PROVE SpacedInv'
  BY <1>3 DEF RecvCmd, MayArrive, Settled, Tracked, NoSession, Reported, Armed, Quiet,
              JoinsTracked, InTransit
<1>4. CASE ServerStep
  BY <1>4, ServerKeeps
<1>5. ASSUME NEW t \in Tids, MgrThread(t) PROVE SpacedInv'
  BY <1>5, ThreadKeeps
<1>6. CASE UNCHANGED vars
  BY <1>6 DEF vars, Tracked, NoSession, Reported, Armed, Quiet, JoinsTracked, InTransit
<1>7. QED  BY <1>1, <1>2, <1>3, <1>4, <1>5, <1>6 DEF Next

\* The strengthened invariant holds of every reachable state of such a daemon.
THEOREM SpacedInvariant ==
  ASSUME Spaced, StartArgs \subseteq {"nostart"}
  PROVE  Spec => []SpacedInv
<1>1. TypeOK /\ SpacedInv /\ [Next]_vars => SpacedInv'
  BY SpacedStep
<1>2. QED  BY <1>1, SpacedInit, TypeCorrect, PTL DEF Spec

\* The test of gps_thread_stat in gps_start is enough for one session at a time
\* when commands are spaced, although test and pthread_create are two steps.
THEOREM SpacedSingleSession ==
  ASSUME Spaced, StartArgs \subseteq {"nostart"}
  PROVE  Spec => []SingleSession
<1>1. SpacedInv => SingleSession
  BY DEF SpacedInv, Tracked, SingleSession
<1>2. QED  BY <1>1, SpacedInvariant, PTL

\* Once gps_stop has cleared the flag no session is left that could set it again.
Leaving ==
  spc \in {"join", "joining"} =>
    garden_force_stop = 0 /\ \A t \in Tids : thr[t] \notin {"created", "marked", "armed"}

\* What StopReturns rests on: the session that gps_stop waits for has been told to stop,
\* stays told, and is past the only place where it could forget it.
StopUnderWay ==
  spc = "joining" => garden_force_stop = 0 /\ thr[join_tid] \in {"nav", "unwinding", "ended"}

SpacedNext == StartArgs \subseteq {"nostart"} /\ [Next]_vars

LEMMA LeavingStep == TypeOK /\ SpacedInv /\ Leaving /\ SpacedNext => Leaving'
<1> SUFFICES ASSUME TypeOK, SpacedInv, Leaving, SpacedNext PROVE Leaving'
  OBVIOUS
<1> USE DEF Leaving, globals, mainVars, srvVars, thrVars
<1>1. CASE Main
  BY <1>1, MainStays DEF SpacedNext
<1>2. CASE GetStat \/ \E c \in ClientCmds : RecvCmd(c)
  BY <1>2 DEF GetStat, RecvCmd, MayArrive
<1>3. CASE ServerStep
  <2>1. CASE SrvStopFlag
    BY <2>1 DEF SrvStopFlag, FlagAtStop, SpacedInv, Quiet, InTransit, Live, Marked
  <2>2. CASE SrvJoin
    BY <2>2 DEF SrvJoin
  <2>3. CASE SrvStartChk \/ SrvCreate \/ SrvStopChk \/ SrvJoined \/ SrvClearTid
             \/ SrvClearStat
    BY <2>3 DEF SrvStartChk, SrvCreate, SrvStopChk, AfterStop, SrvJoined, SrvClearTid,
                SrvClearStat
  <2>4. QED  BY <1>3, <2>1, <2>2, <2>3 DEF ServerStep
<1>4. ASSUME NEW t \in Tids, MgrThread(t) PROVE Leaving'
  BY <1>4 DEF MgrThread, MarkRunning, Arm, StartNavigation, InitFails, LeaveLoop,
              MarkStopped, TypeOK
<1>5. CASE UNCHANGED vars
  BY <1>5 DEF vars
<1>6. QED  BY <1>1, <1>2, <1>3, <1>4, <1>5 DEF SpacedNext, Next

\* A spaced set_stop or set_reset never waits for a session that is not on its way out:
\* the race of a stop with a session that is yet to arm itself needs an early command.
THEOREM SpacedStopUnderWay ==
  ASSUME Spaced, StartArgs \subseteq {"nostart"}
  PROVE  Spec => []StopUnderWay
<1>1. Init => Leaving
  BY DEF Init, Leaving
<1>2. TypeOK /\ SpacedInv /\ Leaving /\ [Next]_vars => Leaving'
  BY LeavingStep DEF SpacedNext
<1>3. TypeOK /\ JoinSafe /\ Leaving => StopUnderWay
  BY ConstantsAssumption
     DEF TypeOK, JoinSafe, Leaving, StopUnderWay, ThreadStates, Live, Marked
<1>4. QED  BY <1>1, <1>2, <1>3, SpacedInvariant, TypeCorrect, JoinSafety, PTL DEF Spec

\* get_stat's answer is 1 exactly while a session navigates.
THEOREM SpacedStatTruth ==
  ASSUME Spaced, StartArgs \subseteq {"nostart"}
  PROVE  Spec => StatTruth
<1>1. TypeOK /\ StatusSound /\ SpacedInv /\ [Next]_vars
        => [GetStat => (run_flag' = 1 <=> \E t \in Tids : thr[t] = "nav")]_vars
  <2> SUFFICES ASSUME TypeOK, StatusSound, SpacedInv, GetStat
               PROVE  run_flag' = 1 <=> \E t \in Tids : thr[t] = "nav"
    OBVIOUS
  <2>1. \A t \in Tids : thr[t] \in Marked => thr[t] = "nav"
    BY DEF GetStat, MayArrive, Settled, InTransit, Live, Marked
  <2>2. gps_thread_stat = 1 <=> \E t \in Tids : thr[t] = "nav"
    BY <2>1 DEF StatusSound, SpacedInv, Reported, Marked
  <2>3. QED  BY <2>2 DEF GetStat, TypeOK
<1>2. QED
  BY <1>1, TypeCorrect, StatusSoundness, SpacedInvariant, PTL DEF Spec, StatTruth

-----------------------------------------------------------------------------
(* The manager implements the service.                                     *)

\* The server is where the command it serves takes it, and a reset comes to
\* gps_start with its old session gone.
Served ==
  /\ spc \in {"stopchk", "flag", "join", "joining", "cleartid", "clearstat"}
       => cmd \in ResetCmds \cup {"set_stop"}
  /\ spc \in {"startchk", "create"} => cmd \in StartCmds \cup ResetCmds
  /\ spc = "startchk" /\ cmd \in ResetCmds => \A t \in Tids : thr[t] \notin Live

LEMMA ServedStep ==
  ASSUME Spaced, StartArgs \subseteq {"nostart"}, TypeOK, SpacedInv, Served, [Next]_vars
  PROVE  Served'
<1> USE ConstantsAssumption
    DEF Served, StartCmds, ResetCmds, globals, mainVars, srvVars, thrVars
<1>1. CASE Main
  BY <1>1, MainStays
<1>2. CASE GetStat \/ UNCHANGED vars
  BY <1>2 DEF GetStat, vars
<1>3. ASSUME NEW c \in ClientCmds, RecvCmd(c) PROVE Served'
  BY <1>3 DEF RecvCmd
<1>4. CASE ServerStep
  <2>1. CASE SrvStartChk \/ SrvStopFlag \/ SrvJoin \/ SrvClearTid
    BY <2>1 DEF SrvStartChk, SrvStopFlag, SrvJoin, SrvClearTid, Refused, FlagAtStop,
                TidAfterJoin
  <2>2. CASE SrvCreate
    BY <2>2 DEF SrvCreate
  <2>3. CASE SrvStopChk
    BY <2>3 DEF SrvStopChk, AfterStop, SpacedInv, Tracked
  <2>4. CASE SrvJoined
    BY <2>4 DEF SrvJoined
  <2>5. CASE SrvClearStat
    BY <2>5 DEF SrvClearStat, AfterStop, SpacedInv, NoSession
  <2>6. QED  BY <1>4, <2>1, <2>2, <2>3, <2>4, <2>5 DEF ServerStep
<1>5. ASSUME NEW t \in Tids, MgrThread(t) PROVE Served'
  BY <1>5 DEF MgrThread, MarkRunning, Arm, StartNavigation, InitFails, LeaveLoop,
              MarkStopped, TypeOK, Live, Marked, FlagAtStart, StatAtExit
<1>6. QED  BY <1>1, <1>2, <1>3, <1>4, <1>5 DEF Next

\* The server is where the answer it will give is true: a handle is left for a new
\* session whenever none is tracked, and a reset comes to gps_start with none tracked.
AnswerInv ==
  /\ spc = "down" => cmd = "none"
  /\ garden_mgr_tid = NoTid => \E t \in Tids : thr[t] = "free"
  /\ spc = "cleartid" => garden_mgr_tid \in Tids /\ thr[garden_mgr_tid] = "free"
  /\ spc = "clearstat" => garden_mgr_tid = NoTid
  /\ spc \in {"startchk", "create"} /\ cmd \in ResetCmds => garden_mgr_tid = NoTid
  /\ \A t \in Tids : thr[t] = "unwinding" => failed = 1 \/ spc \in {"join", "joining"}
  /\ AnswerTrue

LEMMA AnswerStep ==
  ASSUME Spaced, StartArgs \subseteq {"nostart"}, TypeOK, StatusSound, JoinSafe, SpacedInv,
         Served, AnswerInv, [Next]_vars
  PROVE  AnswerInv'
<1> USE ConstantsAssumption
    DEF AnswerInv, AnswerTrue, SessionThere, globals, mainVars, srvVars, thrVars
<1>1. CASE Main
  BY <1>1, MainStays DEF StartCmds, ResetCmds
<1>2. CASE GetStat \/ UNCHANGED vars
  BY <1>2 DEF GetStat, vars
<1>3. ASSUME NEW c \in ClientCmds, RecvCmd(c) PROVE AnswerInv'
  BY <1>3 DEF RecvCmd, MayArrive, Settled, InTransit, Live, Marked, StartCmds, ResetCmds
<1>4. ASSUME NEW t \in Tids, MgrThread(t) PROVE AnswerInv'
  <2>1. UNCHANGED <<spc, cmd, gps_type, garden_mgr_tid>>
    BY <1>4 DEF MgrThread, MarkRunning, Arm, StartNavigation, InitFails, LeaveLoop, MarkStopped
  <2>2. /\ thr[t] \in Live /\ thr'[t] \in Live \cup {"ended"}
        /\ \A u \in Tids \ {t} : thr'[u] = thr[u]
    BY <1>4 DEF MgrThread, MarkRunning, Arm, StartNavigation, InitFails, LeaveLoop,
                MarkStopped, TypeOK, Live, Marked
  <2>3. thr[t] \notin {"free", "ended"} /\ thr'[t] # "free"
    BY <2>2 DEF Live, Marked
  <2>4. \A u \in Tids : thr'[u] = "free" <=> thr[u] = "free"
    BY <2>2, <2>3
  <2>5. ~(spc = "recv" /\ cmd = "set_stop")
    BY <2>2
  <2>6. garden_mgr_tid = t
    BY <2>2 DEF SpacedInv, Tracked
  <2>7. failed = 1 => failed' = 1
    BY <1>4 DEF MgrThread, MarkRunning, Arm, StartNavigation, InitFails, LeaveLoop, MarkStopped
  <2>8. thr'[t] = "ended" => thr[t] = "unwinding"
    BY <1>4 DEF MgrThread, MarkRunning, Arm, StartNavigation, InitFails, LeaveLoop,
                MarkStopped, TypeOK
  <2>9. thr'[t] = "unwinding" => failed' = 1 \/ spc \in {"join", "joining"}
    BY <1>4 DEF MgrThread, MarkRunning, Arm, StartNavigation, InitFails, LeaveLoop,
                MarkStopped, TypeOK, SpacedInv, Armed
  <2>10. \A u \in Tids : thr'[u] = "unwinding" => failed' = 1 \/ spc' \in {"join", "joining"}
    BY <2>1, <2>2, <2>7, <2>9
  <2>11. AnswerTrue'
    <3>1. CASE spc = "recv" /\ thr'[t] = "ended"
      BY <2>1, <2>5, <2>7, <2>8, <3>1
    <3>2. CASE thr'[t] \in Live
      BY <2>1, <2>5, <2>6, <2>7, <3>2
    <3>3. QED  BY <2>1, <2>2, <3>1, <3>2
  <2>12. QED  BY <2>1, <2>4, <2>10, <2>11
<1>5. CASE ServerStep
  <2>1. CASE SrvStartChk
    <3>1. gps_thread_stat # 0 => \E t \in Tids : thr[t] \in Live /\ t = garden_mgr_tid
      BY DEF TypeOK, StatusSound, SpacedInv, Tracked, Live
    <3>2. spc = "startchk" /\ cmd \in ResetCmds => gps_thread_stat = 0
      BY <3>1 DEF Served
    <3>3. cmd # "set_stop"
      BY <2>1 DEF SrvStartChk, Served, StartCmds, ResetCmds
    <3>4. QED  BY <2>1, <3>1, <3>2, <3>3 DEF SrvStartChk, Refused
  <2>2. CASE SrvCreate
    <3>1. /\ spc = "create" /\ spc' = "recv" /\ cmd' = cmd /\ cmd \in StartCmds \cup ResetCmds
          /\ failed' = failed /\ PthreadCreate(TypeOf(cmd))
      BY <2>2 DEF SrvCreate, Served
    <3>2. cmd # "set_stop"
      BY <3>1 DEF StartCmds, ResetCmds
    <3>3. \A t \in Tids : thr[t] \in {"free", "ended"}
      BY <3>1 DEF SpacedInv, NoSession, TypeOK, ThreadStates
    <3>4. CASE \E t \in Tids : thr[t] = "free"
      <4>1. PICK t \in Tids : /\ thr' = [thr EXCEPT ![t] = "created"]
                              /\ gps_type' = [gps_type EXCEPT ![t] = TypeOf(cmd)]
                              /\ garden_mgr_tid' = t
        BY <3>1, <3>4 DEF PthreadCreate
      <4>2. thr'[t] = "created" /\ gps_type'[t] = TypeOf(cmd)
        BY <4>1 DEF TypeOK
      <4>3. SessionThere' /\ gps_type'[garden_mgr_tid'] = TypeOf(cmd)
        BY <4>1, <4>2 DEF Live
      <4>4. \A u \in Tids : thr'[u] # "unwinding"
        BY <3>3, <4>1 DEF TypeOK
      <4>5. QED  BY <3>1, <3>2, <4>1, <4>3, <4>4
    <3>5. CASE \A t \in Tids : thr[t] # "free"
      BY <3>1, <3>2, <3>3, <3>5 DEF PthreadCreate
    <3>6. QED  BY <3>4, <3>5
  <2>3. CASE SrvStopChk
    BY <2>3 DEF SrvStopChk, AfterStop, SpacedInv, Tracked, Quiet, InTransit, Live, Marked,
                Served, StartCmds, ResetCmds
  <2>4. CASE SrvStopFlag
    BY <2>4 DEF SrvStopFlag
  <2>5. CASE SrvJoin
    BY <2>5 DEF SrvJoin
  <2>6. CASE SrvJoined
    <3>1. join_tid = garden_mgr_tid /\ garden_mgr_tid \in Tids
      BY <2>6 DEF SrvJoined, SpacedInv, JoinsTracked, JoinSafe, TypeOK
    <3>2. thr'[garden_mgr_tid] = "free"
      BY <2>6, <3>1 DEF SrvJoined, TypeOK
    <3>3. spc' = "cleartid" /\ garden_mgr_tid' = garden_mgr_tid
      BY <2>6 DEF SrvJoined
    <3>4. \A t \in Tids : thr'[t] # "unwinding"
      BY <2>6, <3>1 DEF SrvJoined, TypeOK, SpacedInv, Tracked, Live, Marked
    <3>5. QED  BY <3>1, <3>2, <3>3, <3>4
  <2>7. CASE SrvClearTid
    BY <2>7 DEF SrvClearTid, TidAfterJoin
  <2>8. CASE SrvClearStat
    BY <2>8 DEF SrvClearStat, AfterStop, SpacedInv, NoSession, Live, Marked, Served,
                StartCmds, ResetCmds
  <2>9. QED
    BY <1>5, <2>1, <2>2, <2>3, <2>4, <2>5, <2>6, <2>7, <2>8 DEF ServerStep
<1>6. QED  BY <1>1, <1>2, <1>3, <1>4, <1>5 DEF Next

\* Every answer of such a daemon is true: a stopped session is gone, a reset has brought
\* up a session of the type it asked for, a start has found or brought up one, unless a
\* location_init has failed since or dead sessions hold every handle, although the server
\* ignores what gps_start returns. Tids # {}: pthread_create can give one handle at least.
THEOREM SpacedAnswerTrue ==
  ASSUME Spaced, StartArgs \subseteq {"nostart"}, Tids # {}
  PROVE  Spec => []AnswerTrue
<1>1. Init => Served /\ AnswerInv
  BY DEF Init, Served, AnswerInv, AnswerTrue, StartCmds, ResetCmds
<1>2. TypeOK /\ SpacedInv /\ Served /\ [Next]_vars => Served'
  BY ServedStep
<1>3. TypeOK /\ StatusSound /\ JoinSafe /\ SpacedInv /\ Served /\ AnswerInv /\ [Next]_vars
        => AnswerInv'
  BY AnswerStep
<1>4. AnswerInv => AnswerTrue
  BY DEF AnswerInv
<1>5. QED
  BY <1>1, <1>2, <1>3, <1>4, TypeCorrect, StatusSoundness, JoinSafety, SpacedInvariant, PTL
     DEF Spec

\* The state of the tracked session, and what the service sees of it.
Cur == IF garden_mgr_tid \in Tids THEN thr[garden_mgr_tid] ELSE "free"
View(s) == IF s \notin Live THEN "off"
           ELSE IF s = "nav" THEN "on"
           ELSE IF s = "unwinding" THEN "ending" ELSE "starting"

\* The refinement mapping ranges over all threads; the tracked one decides it.
LEMMA SessionView == Tracked => sessionBar = View(Cur)
<1> SUFFICES ASSUME Tracked PROVE sessionBar = View(Cur)
  OBVIOUS
<1>1. CASE \A t \in Tids : thr[t] \notin Live
  BY <1>1 DEF sessionBar, View, Cur, Live, Marked
<1>2. CASE \E t \in Tids : thr[t] \in Live
  <2>1. garden_mgr_tid \in Tids /\ thr[garden_mgr_tid] = Cur /\ Cur \in Live
    BY <1>2 DEF Tracked, Cur
  <2>2. \A t \in Tids : thr[t] \in Live => thr[t] = Cur
    BY <2>1 DEF Tracked
  <2>3. /\ (\E t \in Tids : thr[t] = "nav") <=> Cur = "nav"
        /\ (\E t \in Tids : thr[t] = "unwinding") <=> Cur = "unwinding"
    BY <2>1, <2>2 DEF Live, Marked
  <2>4. QED  BY <1>2, <2>1, <2>3 DEF sessionBar, View
<1>3. QED  BY <1>1, <1>2

\* A step of the server is a Start, an Answer or invisible.
LEMMA ServerImplements ==
  ASSUME TypeOK, SpacedInv, Served, ServerStep,
         sessionBar = View(Cur), sessionBar' = View(Cur)'
  PROVE  Service!Start \/ Service!Answer \/ UNCHANGED Service!vars
<1> USE ConstantsAssumption
    DEF globals, mainVars, thrVars, requestBar, StartCmds, ResetCmds
<1>1. ASSUME UNCHANGED <<thr, gps_type, garden_mgr_tid>>
      PROVE  sessionBar' = sessionBar /\ typeBar' = typeBar
  BY <1>1 DEF sessionBar, typeBar
<1>2. ASSUME spc \notin {"down", "recv"}, spc' = "recv",
             UNCHANGED <<thr, gps_type, garden_mgr_tid, cmd>>, cmd # "none",
             sessionBar = "off" \/ (sessionBar = "on" /\ cmd \in StartCmds)
      PROVE  Service!Answer
  BY <1>1, <1>2 DEF Service!Answer, Service!StartCmds
<1>3. CASE SrvStartChk
  <2>1. CASE spc' = "create"
    BY <1>1, <1>3, <2>1 DEF SrvStartChk, Service!vars, Refused
  <2>2. CASE spc' = "recv"
    <3>1. Cur = "nav" \/ Cur \notin Live
      BY <1>3 DEF SrvStartChk, SpacedInv, Quiet, InTransit, Cur, Live, Marked, Refused
    <3>2. sessionBar = "off" \/ (sessionBar = "on" /\ cmd \in StartCmds)
      BY <1>3, <3>1 DEF SrvStartChk, Served, View, Cur, Live, Marked, Refused
    <3>3. cmd # "none"
      BY <1>3 DEF SrvStartChk, Served, Refused
    <3>4. QED  BY <1>2, <1>3, <2>2, <3>2, <3>3 DEF SrvStartChk, Refused
  <2>3. QED  BY <1>3, <2>1, <2>2 DEF SrvStartChk, Refused
<1>4. CASE SrvCreate
  <2>1. /\ spc = "create" /\ spc' = "recv" /\ cmd' = cmd /\ cmd \in StartCmds \cup ResetCmds
        /\ PthreadCreate(TypeOf(cmd))
    BY <1>4 DEF SrvCreate, Served
  <2>2. sessionBar = "off"
    BY <2>1 DEF SpacedInv, NoSession, sessionBar
  <2>3. CASE \E t \in Tids : thr[t] = "free"
    <3>1. Cur' = "created"
      BY <2>1, <2>3 DEF PthreadCreate, Cur, TypeOK
    <3>2. gps_type'[garden_mgr_tid'] = TypeOf(cmd)
      BY <2>1, <2>3 DEF PthreadCreate, TypeOK
    <3>3. sessionBar' = "starting"
      BY <3>1 DEF View, Live, Marked
    <3>4. typeBar' = TypeOf(cmd)
      BY <3>2, <3>3 DEF typeBar
    <3>5. QED
      BY <2>1, <2>2, <3>3, <3>4 DEF Service!Start, Service!StartCmds, Service!ResetCmds,
                                    Service!TypeOf, TypeOf
  <2>4. CASE \A t \in Tids : thr[t] # "free"
    <3>1. UNCHANGED <<thr, gps_type, garden_mgr_tid>>
      BY <2>1, <2>4 DEF PthreadCreate
    <3>2. QED  BY <1>2, <2>1, <2>2, <3>1
  <2>5. QED  BY <2>3, <2>4
<1>5. CASE SrvStopChk
  <2>1. CASE garden_mgr_tid = NoTid
    <3>1. sessionBar = "off"
      BY <2>1 DEF View, Cur, Live, Marked
    <3>2. QED
      BY <1>1, <1>2, <1>5, <2>1, <3>1 DEF SrvStopChk, AfterStop, Served, Service!vars
  <2>2. CASE garden_mgr_tid # NoTid
    BY <1>1, <1>5, <2>2 DEF SrvStopChk, Service!vars
  <2>3. QED  BY <2>1, <2>2
<1>6. CASE SrvStopFlag \/ SrvJoin
  BY <1>1, <1>6 DEF SrvStopFlag, SrvJoin, Service!vars, FlagAtStop
<1>7. CASE SrvJoined
  <2>1. Cur \notin Live /\ Cur' \notin Live
    BY <1>7 DEF SrvJoined, SpacedInv, JoinsTracked, Cur, TypeOK, Live, Marked
  <2>2. sessionBar = "off" /\ sessionBar' = "off"
    BY <2>1 DEF View, Live, Marked
  <2>3. QED  BY <1>7, <2>2 DEF SrvJoined, typeBar, Service!vars
<1>8. CASE SrvClearTid
  <2>1. sessionBar = "off" /\ sessionBar' = "off"
    BY <1>8 DEF SrvClearTid, SpacedInv, NoSession, sessionBar, TidAfterJoin
  <2>2. QED  BY <1>8, <2>1 DEF SrvClearTid, typeBar, Service!vars, TidAfterJoin
<1>9. CASE SrvClearStat
  <2>1. sessionBar = "off"
    BY <1>9 DEF SrvClearStat, SpacedInv, NoSession, sessionBar
  <2>2. QED
    BY <1>1, <1>2, <1>9, <2>1 DEF SrvClearStat, AfterStop, Served, Service!vars
<1>10. QED
  BY <1>3, <1>4, <1>5, <1>6, <1>7, <1>8, <1>9 DEF ServerStep

\* A step of the session's thread is Ready, Fail, Stop, End or invisible; it leaves
\* the loop only for a stop or a reset, because nothing else clears the flag.
LEMMA ThreadImplements ==
  ASSUME TypeOK, SpacedInv, Served, NEW t \in Tids, MgrThread(t),
         sessionBar = View(Cur), sessionBar' = View(Cur)'
  PROVE  Service!Progress \/ Service!Stop \/ UNCHANGED Service!vars
<1> USE DEF globals, mainVars, srvVars, thrVars, View, Live, Marked
<1>1. UNCHANGED <<spc, cmd, gps_type, garden_mgr_tid>>
  BY DEF MgrThread, MarkRunning, Arm, StartNavigation, InitFails, LeaveLoop, MarkStopped,
         FlagAtStart, StatAtExit
<1>2. requestBar' = requestBar
  BY <1>1 DEF requestBar
<1>3. garden_mgr_tid = t /\ Cur = thr[t] /\ Cur' = thr'[t]
  BY <1>1 DEF MgrThread, MarkRunning, Arm, StartNavigation, InitFails, LeaveLoop,
              MarkStopped, SpacedInv, Tracked, Cur, FlagAtStart, StatAtExit
<1>4. sessionBar # "off" /\ sessionBar' # "off" => typeBar' = typeBar
  BY <1>1 DEF typeBar
<1>5. CASE MarkRunning(t) \/ Arm(t)
  <2>1. sessionBar = "starting" /\ sessionBar' = "starting"
    BY <1>3, <1>5 DEF MarkRunning, Arm, TypeOK, FlagAtStart
  <2>2. QED  BY <1>2, <1>4, <2>1 DEF Service!vars
<1>6. CASE StartNavigation(t)
  <2>1. sessionBar = "starting" /\ sessionBar' = "on"
    BY <1>3, <1>6 DEF StartNavigation, TypeOK
  <2>2. QED  BY <1>2, <1>4, <2>1 DEF Service!Progress, Service!Ready
<1>7. CASE InitFails(t)
  <2>1. sessionBar = "starting" /\ sessionBar' = "ending"
    BY <1>3, <1>7 DEF InitFails, TypeOK
  <2>2. QED  BY <1>2, <1>4, <2>1 DEF Service!Progress, Service!Fail
<1>8. CASE LeaveLoop(t)
  <2>1. sessionBar = "on" /\ sessionBar' = "ending"
    BY <1>3, <1>8 DEF LeaveLoop, TypeOK
  <2>2. spc \in {"join", "joining"}
    BY <1>8 DEF LeaveLoop, SpacedInv, Armed
  <2>3. requestBar \in ResetCmds \cup {"set_stop"}
    BY <2>2 DEF Served, requestBar
  <2>4. QED
    BY <1>2, <1>4, <2>1, <2>3 DEF Service!Stop, Service!ResetCmds, ResetCmds
<1>9. CASE MarkStopped(t)
  <2>1. sessionBar = "ending" /\ sessionBar' = "off"
    BY <1>3, <1>9 DEF MarkStopped, TypeOK, StatAtExit
  <2>2. QED  BY <1>2, <2>1 DEF Service!Progress, Service!End, typeBar
<1>10. QED  BY <1>5, <1>6, <1>7, <1>8, <1>9 DEF MgrThread

\* Every step of the daemon is a step of the service or leaves it alone.
LEMMA StepImplements ==
  ASSUME Spaced, StartArgs \subseteq {"nostart"}, TypeOK, SpacedInv, Served, [Next]_vars,
         sessionBar = View(Cur), sessionBar' = View(Cur)'
  PROVE  [Service!Next]_(Service!vars)
<1> USE DEF globals, mainVars, srvVars, thrVars
<1>1. ASSUME UNCHANGED <<thr, gps_type, garden_mgr_tid>>
      PROVE  sessionBar' = sessionBar /\ typeBar' = typeBar
  BY <1>1 DEF sessionBar, typeBar
<1>2. CASE Main
  BY <1>1, <1>2, MainStays DEF requestBar, Service!vars
<1>3. CASE GetStat \/ UNCHANGED vars
  BY <1>1, <1>3 DEF GetStat, vars, requestBar, Service!vars
<1>4. ASSUME NEW c \in ClientCmds, RecvCmd(c) PROVE Service!Next
  <2>1. Cur \notin Live \/ Cur = "nav"
    BY <1>4 DEF RecvCmd, MayArrive, Settled, InTransit, Cur, Live, Marked
  <2>2. sessionBar \in {"off", "on"}
    BY <2>1 DEF View, Live, Marked
  <2>3. requestBar = "none" /\ requestBar' = c
    BY <1>4 DEF RecvCmd, MayArrive, requestBar
  <2>4. Service!Request(c)
    BY <1>1, <1>4, <2>2, <2>3 DEF RecvCmd, Service!Request
  <2>5. QED  BY <2>4 DEF Service!Next
<1>5. CASE ServerStep
  BY <1>5, ServerImplements DEF Service!Next, Service!Serve
<1>6. ASSUME NEW t \in Tids, MgrThread(t) PROVE [Service!Next]_(Service!vars)
  BY <1>6, ThreadImplements DEF Service!Next, Service!Serve
<1>7. QED  BY <1>2, <1>3, <1>4, <1>5, <1>6 DEF Next

\* The manager keeps the service's promise, whatever the number of handles,
\* commands and failed initialisations.
THEOREM SpacedImplementsService ==
  ASSUME Spaced, StartArgs \subseteq {"nostart"}
  PROVE  Spec => ServiceSafety
<1>1. Init => Service!Init /\ Served
  BY DEF Init, Service!Init, Served, sessionBar, typeBar, requestBar, Live, Marked
<1>2. TypeOK /\ SpacedInv /\ Served /\ [Next]_vars => Served'
  BY ServedStep
<1>3. SpacedInv => Tracked
  BY DEF SpacedInv
<1>4. (sessionBar = View(Cur))' <=> sessionBar' = View(Cur)'
  OBVIOUS
<1>5. TypeOK /\ SpacedInv /\ Served /\ [Next]_vars /\ sessionBar = View(Cur)
        /\ (sessionBar = View(Cur))' => [Service!Next]_(Service!vars)
  BY <1>4, StepImplements
<1>6. QED
  BY <1>1, <1>2, <1>3, <1>5, SessionView, SpacedInvariant, TypeCorrect, PTL
     DEF Spec, ServiceSafety, Service!Safety
=============================================================================
