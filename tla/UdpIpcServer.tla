---------------------------- MODULE UdpIpcServer ----------------------------
(***************************************************************************)
(* The UDP servers of a process (mds_udp_ipc_svr.cpp): a table of slots    *)
(* without a lock, one message loop per udp_ipc_server_start.  A loop      *)
(* thread copies its argument out of the slot when it first runs and looks *)
(* at its slot's thread_run only between two receives, each up to ten      *)
(* seconds long.  Starts and ends come one at a time, and a loop is taken  *)
(* not to run in the middle of one.                                        *)
(*                                                                         *)
(* The first start claims its slot before _loop_mgr_init clears the table, *)
(* so that port's slot looks free: the next start shares it, and after     *)
(* that no end finds it.  The daemon starts one server and never ends it;  *)
(* the properties say what holds for the ports after the first.            *)
(***************************************************************************)
EXTENDS Integers

CONSTANTS
  MaxLoops,   \* MAX_MSG_LOOP_CNT
  Ports,      \* port numbers
  MaxStarts,  \* bound: udp_ipc_server_start calls
  MaxHasty    \* bound: calls that come too early

ASSUME ServerConstants ==
  /\ MaxLoops \in Nat \ {0} /\ MaxStarts \in Nat /\ MaxHasty \in Nat
  /\ Ports \subseteq Nat \ {0}

VARIABLES
  port_num, thread_run, loop_arg, init_flag,   \* g_mgr_msg_loop
  starts,   \* the starts so far; each has a loop thread of its number
  loops,    \* the loop threads: pc, the slot created for, and the copied argument
  asked,    \* history: the port each loop was started for
  active,   \* history: ports started and not ended
  first,    \* history: the port of the first start, 0 before it
  hasty,    \* history: the calls that did not wait for the loops to come to rest, and the
            \* starts of a port that is started
  overrun   \* the table was full and index -1 was used

tableVars == <<port_num, thread_run, loop_arg, init_flag>>
historyVars == <<starts, asked, active, first, hasty, overrun>>
vars == <<tableVars, loops, historyVars>>

Idx == 0..MaxLoops - 1
Loops == 1..MaxStarts
Args == [port : Ports \cup {0}, index : Idx]
NoArg == [port |-> 0, index |-> 0]
NoLoop == [pc |-> "none", slot |-> 0, arg |-> NoArg]
Gone == [NoLoop EXCEPT !.pc = "gone"]

TypeOK ==
  /\ port_num \in [Idx -> Ports \cup {0}] /\ thread_run \in [Idx -> {0, 1}]
  /\ loop_arg \in [Idx -> Args] /\ init_flag \in {0, 1}
  /\ starts \in 0..MaxStarts
  /\ loops \in [Loops -> [pc : {"none", "created", "check", "recv", "gone"},
                          slot : Idx, arg : Args]]
  /\ asked \in [Loops -> Ports \cup {0}] /\ active \subseteq Ports
  /\ first \in Ports \cup {0} /\ hasty \in 0..MaxHasty /\ overrun \in BOOLEAN

Init ==
  /\ port_num = [i \in Idx |-> 0] /\ thread_run = [i \in Idx |-> 0]
  /\ loop_arg = [i \in Idx |-> NoArg] /\ init_flag = 0
  /\ starts = 0 /\ loops = [l \in Loops |-> NoLoop] /\ asked = [l \in Loops |-> 0]
  /\ active = {} /\ first = 0 /\ hasty = 0 /\ overrun = FALSE

-----------------------------------------------------------------------------
(* The callers.  The operators with a suffix are mutants.                  *)

Least(i, q) == port_num[i] = q /\ \A j \in 0..i - 1 : port_num[j] # q

IsIdx_First(i, p) == i = 0   \* every port is given the first slot
\* _get_thread_idx finds slot i: the one that has the port, or else the first free one.
IsIdx(i, p) ==
  \/ Least(i, p)
  \/ Least(i, 0) /\ \A j \in Idx : port_num[j] # p

\* A loop at rest waits for a message, and goes on waiting.
AtRest(l) ==
  \/ loops[l].pc \in {"none", "gone"}
  \/ loops[l].pc = "recv" /\ thread_run[loops[l].arg.index] = 1
Quiet == \A l \in Loops : AtRest(l)
Patient(inTime) ==
  \/ inTime /\ UNCHANGED hasty
  \/ ~inTime /\ hasty < MaxHasty /\ hasty' = hasty + 1

\* With the table full the index is -1, and what comes before the table is written: the
\* model goes no further.
Overrun(p) ==
  /\ \A i \in Idx : port_num[i] \notin {p, 0}
  /\ overrun' = TRUE
  /\ UNCHANGED <<tableVars, loops, starts, asked, active, first, hasty>>

Cleared(f, zero) == IF init_flag = 0 THEN [j \in Idx |-> zero] ELSE f

ArgAtStart_FromOne(p, i) == [port |-> p, index |-> i + 1]   \* slots counted from one
ArgAtStart(p, i) == [port |-> p, index |-> i]

\* The slot is claimed, _loop_mgr_init clears the table the first time, then the slot is
\* filled.  pthread_create may fail and leaves it so, as a loop does that cannot bind.
StartIn(p, i) ==
  /\ starts' = starts + 1
  /\ port_num' = Cleared([port_num EXCEPT ![i] = p], 0)
  /\ thread_run' = [Cleared(thread_run, 0) EXCEPT ![i] = 1]
  /\ loop_arg' = [Cleared(loop_arg, NoArg) EXCEPT ![i] = ArgAtStart(p, i)]
  /\ init_flag' = 1
  /\ loops' = [loops EXCEPT ![starts + 1] = [pc |-> "created", slot |-> i, arg |-> NoArg]]
  /\ asked' = [asked EXCEPT ![starts + 1] = p]
  /\ active' = active \cup {p} /\ first' = IF first = 0 THEN p ELSE first
  /\ Patient(Quiet /\ p \notin active)
  /\ UNCHANGED overrun

PortAfterEnd_Kept(i) == port_num[i]   \* the slot is not given back
PortAfterEnd(i) == 0
RunAfterEnd_Kept(i) == thread_run[i]   \* the loop is not told
RunAfterEnd(i) == 0

\* The slot is cleared, flag and argument too; for a port without a slot the lookup
\* claims one first.
EndIn(p, i) ==
  /\ port_num' = [port_num EXCEPT ![i] = PortAfterEnd(i)]
  /\ thread_run' = [thread_run EXCEPT ![i] = RunAfterEnd(i)]
  /\ loop_arg' = [loop_arg EXCEPT ![i] = NoArg]
  /\ active' = active \ {p} /\ Patient(Quiet)
  /\ UNCHANGED <<init_flag, loops, starts, asked, first, overrun>>

Start(p) ==
  /\ starts < MaxStarts
  /\ (\E i \in Idx : IsIdx(i, p) /\ StartIn(p, i)) \/ Overrun(p)
End(p) == (\E i \in Idx : IsIdx(i, p) /\ EndIn(p, i)) \/ Overrun(p)

-----------------------------------------------------------------------------
(* The loops.                                                              *)

ArgOf_Slot(l) == [port |-> 0, index |-> loops[l].slot]   \* only the slot is remembered
ArgOf(l) == loop_arg[loops[l].slot]

Become(l, loop) == loops' = [loops EXCEPT ![l] = loop] /\ UNCHANGED <<tableVars, historyVars>>

\* The loop thread starts: it copies the argument and binds its socket, or cannot.
CopyArg(l) ==
  /\ loops[l].pc = "created"
  /\ \/ Become(l, [pc |-> "check", slot |-> loops[l].slot, arg |-> ArgOf(l)])
     \/ Become(l, Gone)

CheckRun(l) ==
  /\ loops[l].pc = "check"
  /\ Become(l, IF thread_run[loops[l].arg.index] = 1 THEN [loops[l] EXCEPT !.pc = "recv"]
                                                     ELSE Gone)

\* recvfrom returns, with a message (served and answered) or after ten seconds.
Receive(l) == loops[l].pc = "recv" /\ Become(l, [loops[l] EXCEPT !.pc = "check"])

MsgLoop(l) == CopyArg(l) \/ CheckRun(l) \/ Receive(l)

Next ==
  /\ ~overrun
  /\ (\E p \in Ports : Start(p) \/ End(p)) \/ \E l \in Loops : MsgLoop(l)

\* Every loop thread runs: its receive has a timeout.
Spec == Init /\ [][Next]_vars
FairSpec == Spec /\ \A l \in Loops : WF_vars(~overrun /\ MsgLoop(l))
-----------------------------------------------------------------------------
(* Properties of any callers.                                              *)

Serving(l) == loops[l].pc \in {"check", "recv"}
Newest(l) == asked[l] # 0 /\ \A k \in Loops : k > l => asked[k] # asked[l]

\* However hastily ports are ended and started again, while loops still hold the slots
\* of ports that are gone: the loop of the last start of an active port serves that
\* port, from the port's own slot, and finds thread_run set, so that it never leaves.
ActiveServed ==
  \A l \in Loops :
    Newest(l) /\ Serving(l) /\ asked[l] \in active \ {first} =>
      LET a == loops[l].arg
      IN  a.port = asked[l] /\ port_num[a.index] = asked[l] /\ thread_run[a.index] = 1

\* Index -1 is used only by a process with as many ports as slots in use at once: no
\* sequence of starts and ends loses a slot.
OverrunOnlyWhenFull ==
  overrun => \A i \in Idx : port_num[i] \in active /\ \A j \in Idx \ {i} : port_num[i] # port_num[j]

(* Properties of patient callers: they start a port that is not started,   *)
(* and call when every loop has come to rest.                              *)

\* However slots are freed and reused, a loop serves the port it was started for (in
\* particular it never calls the handler of a slot that was cleared), and no two share a
\* slot, unless one is the first of the process.
SlotsApart ==
  hasty = 0 =>
    /\ \A l \in Loops : Serving(l) => loops[l].arg.port = asked[l]
    /\ \A k, l \in Loops :
         Serving(k) /\ Serving(l) /\ loops[k].arg.index = loops[l].arg.index /\ k # l
           => first \in {asked[k], asked[l]}

\* A port that is ended is let go of: its loop leaves, unless it is started again.
EndStops ==
  \A p \in Ports :
    p \notin active ~> \/ p \in active \/ p = first \/ hasty > 0 \/ overrun
                       \/ \A l \in Loops : asked[l] = p => loops[l].pc \in {"none", "gone"}
=============================================================================
