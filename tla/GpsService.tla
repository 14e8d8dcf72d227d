----------------------------- MODULE GpsService -----------------------------
(***************************************************************************)
(* What the manager port promises a client that leaves time between its    *)
(* commands: one GPS session at most, switched on and off by the commands, *)
(* restarted with the type asked for, and every command answered.  Threads,*)
(* handles and flags are not mentioned; GpsMgr implements this             *)
(* (GpsMgrService).                                                        *)
(***************************************************************************)
CONSTANT ClientCmds   \* the set_* commands clients send

VARIABLES
  session,   \* "off", "starting", "on" or "ending"
  type,      \* "warm" or "cold" while there is a session, "none" while there is not
  request    \* the command being served, or "none"

vars == <<session, type, request>>

StartCmds == {"set_start_c", "set_start_w"}
ResetCmds == {"set_reset_c", "set_reset_w"}
TypeOf(c) == IF c \in {"set_start_c", "set_reset_c"} THEN "cold" ELSE "warm"

Init == session = "off" /\ type = "none" /\ request = "none"

Request(c) ==
  /\ request = "none" /\ session \in {"off", "on"}
  /\ request' = c
  /\ UNCHANGED <<session, type>>

\* A start, or the second half of a reset: answered when the session begins.
Start ==
  /\ request \in StartCmds \cup ResetCmds /\ session = "off"
  /\ session' = "starting" /\ type' = TypeOf(request) /\ request' = "none"

\* A start while a session runs changes nothing, and so does a command that has
\* nothing to do or cannot be carried out for want of a thread.
Answer ==
  /\ \/ request \in StartCmds /\ session = "on"
     \/ request # "none" /\ session = "off"
  /\ request' = "none"
  /\ UNCHANGED <<session, type>>

\* Only a stop or a reset ends a session that is on.
Stop ==
  /\ request \in ResetCmds \cup {"set_stop"} /\ session = "on"
  /\ session' = "ending"
  /\ UNCHANGED <<type, request>>

Ready ==
  /\ session = "starting" /\ session' = "on"
  /\ UNCHANGED <<type, request>>

Fail ==
  /\ session = "starting" /\ session' = "ending"
  /\ UNCHANGED <<type, request>>

End ==
  /\ session = "ending" /\ session' = "off"
  /\ type' = "none" /\ UNCHANGED request

Serve == Start \/ Answer \/ Stop
Progress == Ready \/ Fail \/ End
Next == (\E c \in ClientCmds : Request(c)) \/ Serve \/ Progress

Safety == Init /\ [][Next]_vars
Spec == Safety /\ WF_vars(Serve) /\ WF_vars(Progress)
=============================================================================
