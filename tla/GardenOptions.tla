---------------------------- MODULE GardenOptions ---------------------------
(***************************************************************************)
(* The options a GPS session runs with.  gps_start picks one of six command*)
(* lines from the daemon's kind (_gps_default_type, set once) and the type *)
(* asked for; garden_entry reads it with getopt into sOptions, a static    *)
(* that no session clears.  A command line is the sequence of its options; *)
(* the options no property is about are left out.                          *)
(***************************************************************************)
EXTENDS Naturals, Sequences

CONSTANTS
  Confs,        \* the contents /etc/gps.conf may have: settings of suplHost and c2kHost
  MaxSessions   \* bound: sessions

VARIABLES
  default_type,   \* _gps_default_type
  sOptions,
  optind,         \* getopt's place in the command line
  conf,           \* /etc/gps.conf
  last,           \* history: the type of the session started last
  sessions

vars == <<default_type, sOptions, optind, conf, last, sessions>>

Kinds == {"agps", "sgps", "sgps_xtra"}
Types == {"warm", "cold"}
Hosts == {"default", "builtin"} \cup UNION {{c[h] : h \in DOMAIN c} : c \in Confs}

Defaults ==
  [mask |-> "all", mode |-> 0, nmea |-> 0, engOff |-> 1, apn |-> "myapn", xtra |-> 0,
   suplHost |-> "default", c2kHost |-> "default"]

OptionsType ==
  [mask : {"all", "none"}, mode : {0, 1}, nmea : {0, 1}, engOff : {0, 1},
   apn : {"myapn", "carrier"}, xtra : {0, 1}, suplHost : Hosts, c2kHost : Hosts]

TypeOK ==
  /\ default_type \in Kinds /\ sOptions \in OptionsType
  /\ conf \in Confs /\ last \in Types \cup {"none"}
  /\ optind \in Nat /\ sessions \in 0..MaxSessions

Init ==
  /\ default_type \in Kinds /\ conf \in Confs
  /\ sOptions = Defaults /\ optind = 1 /\ last = "none" /\ sessions = 0

Opt(o, v) == [opt |-> o, arg |-> v]

\* cmd_agps_warm_start and the five others.
Command(kind, type) ==
  LET d == Opt("d", IF type = "cold" THEN "all" ELSE "none")
      n == Opt("n", 1)
      E == Opt("E", 0)
      c == Opt("c", "gps.conf")
  IN  CASE kind = "agps" -> <<Opt("m", 1), n, E, c, Opt("S", "carrier"), d, Opt("q", 1)>>
        [] kind = "sgps" -> <<Opt("m", 0), n, E, c, d>>
        [] kind = "sgps_xtra" -> <<Opt("m", 0), n, E, c, d, Opt("q", 1)>>

\* UTIL_READ_CONF: of the settings the file names, those in cfg_parameter_table.
Setting(host, o) == IF host \in DOMAIN conf THEN conf[host] ELSE o[host]
ReadConf(o) ==
  [o EXCEPT !.suplHost = Setting("suplHost", o), !.c2kHost = Setting("c2kHost", o)]

Force_Cleared(o) == [o EXCEPT !.suplHost = ""]   \* mutant: cleared and not written
Force(o) == [o EXCEPT !.suplHost = "builtin"]

UseConf_FileLast(o) == ReadConf(Force(o))   \* mutant: the file is read last
\* Then the SUPL server of the board is forced over them.
UseConf(o) == Force(ReadConf(o))

\* The switch of garden_entry.
Apply(o, option) ==
  CASE option.opt = "d" -> [o EXCEPT !.mask = option.arg]
    [] option.opt = "m" -> [o EXCEPT !.mode = option.arg]
    [] option.opt = "n" -> [o EXCEPT !.nmea = 1]
    [] option.opt = "E" -> [o EXCEPT !.engOff = option.arg]
    [] option.opt = "S" -> [o EXCEPT !.apn = option.arg]
    [] option.opt = "q" -> [o EXCEPT !.xtra = option.arg]
    [] option.opt = "c" -> UseConf(o)

\* Its loop: every option from the first on.
Parse(o, command, first) ==
  LET after[i \in first - 1..Len(command)] ==
        IF i = first - 1 THEN o ELSE Apply(after[i - 1], command[i])
  IN  after[Len(command)]

FirstOpt_Kept == optind   \* mutant: optind is not cleared
\* optind = 0 makes getopt start over.
FirstOpt == 1

Session(type) ==
  /\ sessions < MaxSessions /\ sessions' = sessions + 1
  /\ LET command == Command(default_type, type)
     IN  /\ sOptions' = Parse(sOptions, command, FirstOpt)
         /\ optind' = Len(command) + 1
  /\ last' = type
  /\ UNCHANGED <<default_type, conf>>

\* The file may be replaced while the daemon runs.
EditConf ==
  /\ conf' \in Confs
  /\ UNCHANGED <<default_type, sOptions, optind, last, sessions>>

Next == EditConf \/ \E type \in Types : Session(type)
Spec == Init /\ [][Next]_vars
-----------------------------------------------------------------------------
(* Properties.                                                             *)

\* A session runs with the options of its own command line, whatever sessions came
\* before it and whenever gps.conf is replaced: a warm start after a cold one deletes no
\* aiding data, the SUPL server is the board's, and so on, although sOptions and getopt's
\* state outlive a session.
CommandDecides ==
  last # "none" =>
    LET fresh == Parse(Defaults, Command(default_type, last), 1)
    IN  \A f \in DOMAIN Defaults \ {"c2kHost"} : sOptions[f] = fresh[f]
=============================================================================
