---------------------------- MODULE GpsMgrService ---------------------------
(***************************************************************************)
(* GpsMgr, started with nostart and driven by spaced commands, implements  *)
(* GpsService.  The session is the one the tracked handle denotes; it is   *)
(* on while its thread waits in test_main's loop.                          *)
(***************************************************************************)
EXTENDS GpsMgr

sessionBar ==
  IF \A t \in Tids : thr[t] \notin Live THEN "off"
  ELSE IF \E t \in Tids : thr[t] = "nav" THEN "on"
  ELSE IF \E t \in Tids : thr[t] = "unwinding" THEN "ending"
  ELSE "starting"

typeBar == IF sessionBar = "off" THEN "none" ELSE gps_type[garden_mgr_tid]
requestBar == IF spc \in {"down", "recv"} THEN "none" ELSE cmd

Service == INSTANCE GpsService
             WITH session <- sessionBar, type <- typeBar, request <- requestBar

\* Every step of the manager is one of the service or leaves it alone: a running
\* session ends only for a stop or a reset, a second start changes nothing, a reset
\* brings up the type it asked for.
ServiceSafety == Service!Safety

\* With fair threads the service is live: each command is answered, a session that
\* begins comes up or fails, and one that is ending ends.
ServiceSpec == Service!Spec
=============================================================================
