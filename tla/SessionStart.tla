---------------------------- MODULE SessionStart ----------------------------
(***************************************************************************)
(* How _gps_start prepares a session: XtraDownload and GardenOptions under *)
(* one start.  A cold start clears the download budget and asks for all    *)
(* aiding data to be deleted; whether downloads are asked for at all is    *)
(* what the command line's -q left in sOptions.                            *)
(***************************************************************************)
EXTENDS XtraDownload

CONSTANT Confs   \* the contents /etc/gps.conf may have

VARIABLES default_type, sOptions, optind, conf, last

optionVars == <<default_type, sOptions, optind, conf, last>>

Options == INSTANCE GardenOptions WITH sessions <- starts, MaxSessions <- MaxStarts

StartInit == Init /\ Options!Init

StartSession(type) == Options!Session(type) /\ GpsStart(type, sOptions'.xtra)
EditConf == Options!EditConf /\ UNCHANGED vars
DuringSession == Xtra /\ UNCHANGED optionVars

StartNext == EditConf \/ DuringSession \/ \E type \in Options!Types : StartSession(type)
StartSpec == StartInit /\ [][StartNext]_<<vars, optionVars>>
-----------------------------------------------------------------------------
(* Properties.                                                             *)

\* The parts keep their types.
StartTypeOK == TypeOK /\ Options!TypeOK /\ enableXtra = sOptions.xtra

\* A session runs with the options of its own command line, whatever sessions came
\* before it and whenever gps.conf is replaced: a warm start after a cold one deletes no
\* aiding data, the SUPL server is the board's, and so on, although sOptions and getopt's
\* state outlive a session.
CommandDecides == Options!CommandDecides
=============================================================================
