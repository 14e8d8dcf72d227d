------------------------- MODULE SessionStartProofs -------------------------
(***************************************************************************)
(* Proofs about the start of a session: the XTRA download budget, for any  *)
(* limit, any requests and any sessions, and the options, for any contents *)
(* of gps.conf and any order of sessions.                                  *)
(***************************************************************************)
EXTENDS SessionStart, Sequences, Recursion

Granted(d) == asked[d] + missed[d]

\* Until a limit is passed every counted request is granted; from then on none is, so
\* what was granted by then stands.
BudgetInv ==
  /\ req_cnt \in Nat /\ fail_cnt \in Nat
  /\ asked \in [Downloads -> Nat] /\ missed \in [Downloads -> Nat]
  /\ ~OverBudget(req_cnt, fail_cnt) =>
       Granted("refresh") = req_cnt /\ Granted("fetch") = fail_cnt
  /\ OverBudget(req_cnt, fail_cnt) => \E d \in Downloads : Granted(d) >= Limit(d)
  /\ \A d \in Downloads : Granted(d) <= Limit(d)

LEMMA BudgetInit == StartInit => BudgetInv
BY ConstantsAssumption
   DEF StartInit, Init, None, BudgetInv, Granted, OverBudget, Downloads, Limit

\* Where no limit is passed, a granted request is one counted.
LEMMA GrantKeeps ==
  ASSUME BudgetInv, NEW d \in Downloads, Grant(d),
         req_cnt' = (IF d = "refresh" THEN req_cnt + 1 ELSE req_cnt),
         fail_cnt' = (IF d = "refresh" THEN fail_cnt ELSE fail_cnt + 1),
         ~OverBudget(req_cnt', fail_cnt')
  PROVE  BudgetInv'
<1> USE ConstantsAssumption DEF BudgetInv, Downloads
<1>1. /\ asked' \in [Downloads -> Nat] /\ missed' \in [Downloads -> Nat]
      /\ Granted(d)' = Granted(d) + 1
      /\ \A e \in Downloads \ {d} : Granted(e)' = Granted(e)
  BY DEF Grant, Granted
<1>2. /\ ~OverBudget(req_cnt, fail_cnt) /\ Granted("refresh") = req_cnt
      /\ Granted("fetch") = fail_cnt
  BY DEF OverBudget
<1>3. Granted("refresh")' = req_cnt' /\ Granted("fetch")' = fail_cnt'
  BY <1>1, <1>2
<1>4. \A e \in Downloads : Granted(e)' <= Limit(e)
  BY <1>3 DEF OverBudget, Limit
<1>5. req_cnt' \in Nat /\ fail_cnt' \in Nat
  OBVIOUS
<1>6. QED  BY <1>1, <1>3, <1>4, <1>5 DEF Limit

LEMMA BudgetStep == BudgetInv /\ [StartNext]_<<vars, optionVars>> => BudgetInv'
<1> SUFFICES ASSUME BudgetInv, [StartNext]_<<vars, optionVars>> PROVE BudgetInv'
  OBVIOUS
<1> USE ConstantsAssumption
<1>1. ASSUME NEW type, StartSession(type) PROVE BudgetInv'
  <2>1. UNCHANGED <<req_cnt, fail_cnt, asked, missed>> \/ ChkClr
    BY <1>1 DEF StartSession, GpsStart
  <2>2. CASE ChkClr
    BY <2>2 DEF ChkClr, FailsAfter, None, BudgetInv, Granted, OverBudget, Downloads, Limit
  <2>3. CASE UNCHANGED <<req_cnt, fail_cnt, asked, missed>>
    BY <2>3 DEF BudgetInv, Granted, OverBudget, Limit
  <2>4. QED  BY <2>1, <2>2, <2>3
<1>2. CASE DownloadRequest
  <2>1. CASE UNCHANGED <<req_cnt, fail_cnt, asked, missed>>
    BY <2>1 DEF BudgetInv, Granted, OverBudget, Limit
  <2>2. CASE enableXtra # 0 /\ OverBudget(req_cnt', fail_cnt')
    <3>1. /\ req_cnt' = (IF file THEN req_cnt + 1 ELSE req_cnt)
          /\ fail_cnt' = (IF file THEN fail_cnt ELSE fail_cnt + 1)
          /\ UNCHANGED <<asked, missed>>
      BY <1>2, <2>2 DEF DownloadRequest
    <3>2. \E d \in Downloads : Granted(d) >= Limit(d)
      BY <2>2, <3>1 DEF BudgetInv, OverBudget, Downloads, Limit
    <3>3. QED  BY <2>2, <3>1, <3>2 DEF BudgetInv, Granted, Limit
  <2>3. CASE enableXtra # 0 /\ ~OverBudget(req_cnt', fail_cnt')
    <3>1. Grant(IF file THEN "refresh" ELSE "fetch")
      BY <1>2, <2>3 DEF DownloadRequest
    <3>2. /\ req_cnt' = (IF file THEN req_cnt + 1 ELSE req_cnt)
          /\ fail_cnt' = (IF file THEN fail_cnt ELSE fail_cnt + 1)
      BY <1>2, <2>3 DEF DownloadRequest
    <3>3. CASE file
      BY <2>3, <3>1, <3>2, <3>3, GrantKeeps DEF Downloads
    <3>4. CASE ~file
      BY <2>3, <3>1, <3>2, <3>4, GrantKeeps DEF Downloads
    <3>5. QED  BY <3>3, <3>4
  <2>4. QED  BY <1>2, <2>1, <2>2, <2>3 DEF DownloadRequest
<1>3. CASE Answer \/ NoAnswer \/ UNCHANGED vars
  BY <1>3 DEF Answer, NoAnswer, vars, BudgetInv, Granted, OverBudget, Limit
<1>4. CASE EditConf
  BY <1>4 DEF EditConf, vars, BudgetInv, Granted, OverBudget, Limit
<1>5. QED  BY <1>1, <1>2, <1>3, <1>4 DEF StartNext, DuringSession, Xtra

LEMMA BudgetInvariant == StartSpec => []BudgetInv
BY BudgetInit, BudgetStep, PTL DEF StartSpec

\* The client is asked no more often than its budget of refreshes and fetches allows.
THEOREM BudgetKept == StartSpec => []DownloadBudget
<1>1. BudgetInv => DownloadBudget
  BY ConstantsAssumption DEF BudgetInv, Granted, DownloadBudget, Limit
<1>2. QED  BY <1>1, BudgetInvariant, PTL

\* A request is refused only when all refreshes, or all fetches, have been granted, with or
\* without a client to ask.
THEOREM RefusalJustified == StartSpec => RefusedOnlyWhenSpent
<1>1. BudgetInv /\ BudgetInv' /\ [StartNext]_<<vars, optionVars>>
        => [requests' # requests /\ enableXtra = 1 /\ UNCHANGED <<asked, missed>>
              => \E d \in Downloads : asked[d] + missed[d] >= Limit(d)]_vars
  <2> SUFFICES ASSUME BudgetInv, BudgetInv', [StartNext]_<<vars, optionVars>>,
                      requests' # requests, enableXtra = 1, UNCHANGED <<asked, missed>>
               PROVE  \E d \in Downloads : asked[d] + missed[d] >= Limit(d)
    OBVIOUS
  <2>1. DownloadRequest
    BY DEF StartNext, StartSession, GpsStart, DuringSession, Xtra, EditConf, Answer,
           NoAnswer, vars
  <2>2. ASSUME NEW d \in Downloads PROVE ~Grant(d)
    BY DEF Grant, BudgetInv
  <2>3. OverBudget(req_cnt', fail_cnt')
    BY <2>1, <2>2 DEF DownloadRequest, Downloads
  <2>4. QED  BY <2>3 DEF BudgetInv, Granted, Limit
<1>2. QED  BY <1>1, BudgetStep, BudgetInvariant, PTL DEF StartSpec, RefusedOnlyWhenSpent

-----------------------------------------------------------------------------
(* The options.                                                            *)

\* The options of the six command lines.
Used ==
  {Options!Opt("d", "all"), Options!Opt("d", "none"), Options!Opt("m", 0), Options!Opt("m", 1),
   Options!Opt("n", 1), Options!Opt("E", 0), Options!Opt("c", "gps.conf"),
   Options!Opt("S", "carrier"), Options!Opt("q", 1)}

\* What an option sets, and leaves alone.
Sets(r, o, option) ==
  /\ r.mask = IF option.opt = "d" THEN option.arg ELSE o.mask
  /\ r.mode = IF option.opt = "m" THEN option.arg ELSE o.mode
  /\ r.nmea = IF option.opt = "n" THEN 1 ELSE o.nmea
  /\ r.engOff = IF option.opt = "E" THEN option.arg ELSE o.engOff
  /\ r.apn = IF option.opt = "S" THEN option.arg ELSE o.apn
  /\ r.xtra = IF option.opt = "q" THEN option.arg ELSE o.xtra
  /\ r.suplHost = IF option.opt = "c" THEN "builtin" ELSE o.suplHost

LEMMA Applied ==
  ASSUME NEW o \in Options!OptionsType, conf \in Confs, NEW option \in Used
  PROVE  /\ Options!Apply(o, option) \in Options!OptionsType
         /\ Sets(Options!Apply(o, option), o, option)
<1> DEFINE r == Options!Apply(o, option)
<1> USE DEF Options!OptionsType, Options!Opt
<1>1. CASE option.opt = "c"
  <2> DEFINE supl == Options!Setting("suplHost", o)
             c2k == Options!Setting("c2kHost", o)
  <2>1. supl \in Options!Hosts /\ c2k \in Options!Hosts /\ "builtin" \in Options!Hosts
    BY DEF Options!Setting, Options!Hosts
  <2>2. r = Options!UseConf(o)
    BY <1>1 DEF Options!Apply
  <2>3. Options!ReadConf(o) = [o EXCEPT !.suplHost = supl, !.c2kHost = c2k]
    BY DEF Options!ReadConf
  <2> HIDE DEF supl, c2k
  <2>4. r = [[o EXCEPT !.suplHost = supl, !.c2kHost = c2k] EXCEPT !.suplHost = "builtin"]
    BY <2>2, <2>3 DEF Options!UseConf, Options!Force
  <2> HIDE DEF r
  <2>5. r \in Options!OptionsType
    BY <2>1, <2>4
  <2>6. Sets(r, o, option)
    BY <1>1, <2>4 DEF Sets
  <2>7. QED  BY <2>5, <2>6 DEF r
<1>2. CASE option.opt # "c"
  BY <1>2 DEF Options!Apply, Used, Sets
<1>3. QED  BY <1>1, <1>2

\* Reading a command line takes its options one after the other, whatever it is.
LEMMA ParseFacts ==
  ASSUME NEW o \in Options!OptionsType, NEW command, Len(command) \in Nat,
         \A v \in Options!OptionsType, i \in 1..Len(command) :
           Options!Apply(v, command[i]) \in Options!OptionsType
  PROVE  \E f \in [0..Len(command) -> Options!OptionsType] :
           /\ f[0] = o /\ \A i \in 1..Len(command) : f[i] = Options!Apply(f[i - 1], command[i])
           /\ Options!Parse(o, command, 1) = f[Len(command)]
<1> DEFINE Def(f) == [i \in 0..Len(command) |->
                        IF i = 0 THEN o ELSE Options!Apply(f[i - 1], command[i])]
           after == CHOOSE f : f = Def(f)
           Type == Options!OptionsType
           step == [i \in 1..Len(command) |-> [v \in Type |-> Options!Apply(v, command[i])]]
<1>1. Options!Parse(o, command, 1) = after[Len(command)]
  <2>1. 1 - 1 = 0
    OBVIOUS
  <2>2. QED  BY <2>1, Zenon DEF Options!Parse
<1>2. step \in [1..Len(command) -> [Type -> Type]]
  OBVIOUS
<1>3. \A v \in Type, i \in 1..Len(command) : step[i][v] = Options!Apply(v, command[i])
  OBVIOUS
<1> HIDE DEF step, Type
<1>4. PICK f : Iterates(f, Type, o, Len(command), step)
  BY <1>2, Iteration DEF Type
<1>5. f = Def(f)
  BY <1>3, <1>4 DEF Iterates
<1>6. after = Def(after)
  <2> HIDE DEF Def
  <2>1. QED  BY <1>5
<1>7. /\ after[0] = o
      /\ \A i \in 1..Len(command) : after[i] = Options!Apply(after[i - 1], command[i])
  <2> HIDE DEF after
  <2>1. QED  BY <1>6
<1>8. after = [i \in 0..Len(command) |-> after[i]]
  <2> HIDE DEF after
  <2>1. QED  BY <1>6
<1> HIDE DEF after
<1>9. Iterates(after, Type, o, Len(command), step)
  <2>1. \A i \in 1..Len(command) : after[i - 1] \in Type => after[i] = step[i][after[i - 1]]
    BY <1>3, <1>7
  <2>2. o \in Type
    BY DEF Type
  <2>3. QED  BY <1>2, <1>7, <1>8, <2>1, <2>2, Iterating
<1>10. QED  BY <1>1, <1>7, <1>9 DEF Iterates, Type

\* A command line decides all of the options it sets; the APN of the supplementary
\* service and the use of XTRA are left as they are by those that do not name them.
Chosen(r, o, kind, type) ==
  /\ r.mask = (IF type = "cold" THEN "all" ELSE "none")
  /\ r.mode = (IF kind = "agps" THEN 1 ELSE 0) /\ r.nmea = 1 /\ r.engOff = 0
  /\ r.apn = (IF kind = "agps" THEN "carrier" ELSE o.apn)
  /\ r.xtra = (IF kind = "sgps" THEN o.xtra ELSE 1)
  /\ r.suplHost = "builtin"

LEMMA ParseResult ==
  ASSUME NEW o \in Options!OptionsType, conf \in Confs,
         NEW kind \in Options!Kinds, NEW type \in Options!Types
  PROVE  LET r == Options!Parse(o, Options!Command(kind, type), 1)
         IN  Chosen(r, o, kind, type) /\ r \in Options!OptionsType
<1> DEFINE Type == Options!OptionsType
           c == Options!Command(kind, type)
           mask == IF type = "cold" THEN "all" ELSE "none"
<1>1. Len(c) \in Nat /\ \A i \in 1..Len(c) : c[i] \in Used
  BY DEF Options!Command, Options!Kinds, Used
<1> HIDE DEF c
<1>2. \A v \in Type, i \in 1..Len(c) : Options!Apply(v, c[i]) \in Type
  BY <1>1, Applied
<1>3. PICK f \in [0..Len(c) -> Type] :
           /\ f[0] = o /\ \A i \in 1..Len(c) : f[i] = Options!Apply(f[i - 1], c[i])
           /\ Options!Parse(o, c, 1) = f[Len(c)]
  BY <1>1, <1>2, ParseFacts
<1> HIDE DEF Type
<1>4. ASSUME NEW i \in 1..Len(c) PROVE Sets(f[i], f[i - 1], c[i])
  <2>1. f[i - 1] \in Type
    BY <1>1, <1>3
  <2>2. QED  BY <1>1, <1>3, <2>1, Applied DEF Type
<1>5. Chosen(f[Len(c)], o, kind, type)
  <2> USE DEF Options!Opt
  <2>1. CASE kind = "agps"
    <3>1. /\ Len(c) = 7 /\ c[1] = Options!Opt("m", 1) /\ c[2] = Options!Opt("n", 1)
          /\ c[3] = Options!Opt("E", 0) /\ c[4] = Options!Opt("c", "gps.conf")
          /\ c[5] = Options!Opt("S", "carrier") /\ c[6] = Options!Opt("d", mask)
          /\ c[7] = Options!Opt("q", 1)
      BY <2>1 DEF c, Options!Command
    <3>2. /\ Sets(f[1], o, c[1]) /\ Sets(f[2], f[1], c[2]) /\ Sets(f[3], f[2], c[3])
          /\ Sets(f[4], f[3], c[4]) /\ Sets(f[5], f[4], c[5]) /\ Sets(f[6], f[5], c[6])
          /\ Sets(f[7], f[6], c[7])
      BY <1>3, <1>4, <3>1
    <3>3. QED  BY <2>1, <3>1, <3>2 DEF Sets, Chosen
  <2>2. CASE kind # "agps"
    <3>1. /\ Len(c) \in {5, 6} /\ c[1] = Options!Opt("m", 0) /\ c[2] = Options!Opt("n", 1)
          /\ c[3] = Options!Opt("E", 0) /\ c[4] = Options!Opt("c", "gps.conf")
          /\ c[5] = Options!Opt("d", mask) /\ (kind = "sgps" <=> Len(c) = 5)
          /\ Len(c) = 6 => c[6] = Options!Opt("q", 1)
      BY <2>2 DEF c, Options!Command, Options!Kinds
    <3>2. /\ Sets(f[1], o, c[1]) /\ Sets(f[2], f[1], c[2]) /\ Sets(f[3], f[2], c[3])
          /\ Sets(f[4], f[3], c[4]) /\ Sets(f[5], f[4], c[5])
          /\ Len(c) = 6 => Sets(f[6], f[5], c[6])
      BY <1>3, <1>4, <3>1
    <3>3. Chosen(f[5], o, "sgps", type)
      BY <3>1, <3>2 DEF Sets, Chosen
    <3>4. CASE Len(c) = 5
      BY <2>2, <3>1, <3>3, <3>4 DEF Chosen
    <3>5. CASE Len(c) = 6
      <4>1. Sets(f[6], f[5], c[6]) /\ c[6] = Options!Opt("q", 1) /\ kind # "sgps"
        BY <3>1, <3>2, <3>5
      <4>2. QED  BY <2>2, <3>3, <3>5, <4>1 DEF Sets, Chosen
    <3>6. QED  BY <3>1, <3>4, <3>5
  <2>3. QED  BY <2>1, <2>2
<1>6. f[Len(c)] \in Options!OptionsType
  BY <1>1, <1>3 DEF Type
<1>7. QED  BY <1>3, <1>5, <1>6 DEF c

\* The options of the last session: those its command line chooses, and for the others
\* what they are at first, for no session of this daemon has ever set them.
OptionsInv ==
  /\ StartTypeOK
  /\ default_type # "agps" => sOptions.apn = "myapn"
  /\ default_type = "sgps" => sOptions.xtra = 0
  /\ last # "none" => Chosen(sOptions, Options!Defaults, default_type, last)

LEMMA OptionsInit == StartInit => OptionsInv
<1> SUFFICES ASSUME StartInit PROVE OptionsInv
  OBVIOUS
<1>1. Options!Defaults \in Options!OptionsType
  BY DEF Options!Defaults, Options!OptionsType, Options!Hosts
<1>2. Options!TypeOK /\ sOptions = Options!Defaults /\ last = "none"
  BY <1>1, ConstantsAssumption
     DEF StartInit, Options!Init, Options!TypeOK, Options!Types, Init
<1>3. TypeOK /\ enableXtra = 0
  BY ConstantsAssumption DEF StartInit, Init, None, TypeOK
<1>4. Options!Defaults.xtra = 0 /\ Options!Defaults.apn = "myapn"
  BY DEF Options!Defaults
<1>5. QED  BY <1>2, <1>3, <1>4 DEF OptionsInv, StartTypeOK

LEMMA SessionKeeps ==
  ASSUME OptionsInv, NEW type \in Options!Types, StartSession(type) PROVE OptionsInv'
<1> DEFINE c == Options!Command(default_type, type)
<1>1. /\ sOptions \in Options!OptionsType /\ default_type \in Options!Kinds
      /\ conf \in Confs /\ TypeOK
  BY DEF OptionsInv, StartTypeOK, Options!TypeOK
<1>2. /\ sOptions' = Options!Parse(sOptions, c, 1) /\ optind' = Len(c) + 1
      /\ UNCHANGED <<default_type, conf>> /\ last' = type
      /\ starts < MaxStarts /\ starts' = starts + 1
      /\ GpsStart(type, sOptions'.xtra)
  BY Zenon DEF StartSession, Options!Session, Options!FirstOpt
<1>3. sOptions' \in Options!OptionsType /\ Chosen(sOptions', sOptions, default_type, type)
  BY <1>1, <1>2, ParseResult
<1>4. Options!Defaults.xtra = 0 /\ Options!Defaults.apn = "myapn"
  BY DEF Options!Defaults
<1>5. Chosen(sOptions', Options!Defaults, default_type, type)
  BY <1>1, <1>3, <1>4 DEF OptionsInv, Chosen, Options!Kinds
<1>6. /\ default_type # "agps" => sOptions'.apn = "myapn"
      /\ default_type = "sgps" => sOptions'.xtra = 0
  BY <1>3 DEF OptionsInv, Chosen
<1>7. Options!TypeOK'
  <2>1. optind' \in Nat
    BY <1>1, <1>2 DEF Options!Command, Options!Kinds
  <2>2. starts' \in 0..MaxStarts
    BY <1>1, <1>2, ConstantsAssumption DEF TypeOK
  <2>3. QED  BY <1>1, <1>2, <1>3, <2>1, <2>2 DEF Options!TypeOK
<1>8. TypeOK' /\ enableXtra' = sOptions'.xtra
  <2>1. sOptions'.xtra \in {0, 1}
    BY <1>3 DEF Options!OptionsType
  <2>2. /\ enableXtra' = sOptions'.xtra /\ starts' \in 0..MaxStarts
        /\ UNCHANGED <<pending, requests>>
    BY <1>1, <1>2, ConstantsAssumption DEF TypeOK, GpsStart
  <2>3. /\ req_cnt' \in Nat /\ fail_cnt' \in Nat /\ file' \in BOOLEAN
        /\ asked' \in [Downloads -> Nat] /\ missed' \in [Downloads -> Nat]
    <3>1. TypeOK /\ GpsStart(type, sOptions'.xtra) /\ 0 \in Nat /\ None \in [Downloads -> Nat]
      BY <1>1, <1>2 DEF None
    <3>2. CASE type = "cold"
      BY <3>1, <3>2, Zenon DEF GpsStart, ChkClr, FailsAfter
    <3>3. CASE type # "cold"
      BY <3>1, <3>3, Zenon DEF GpsStart, TypeOK
    <3>4. QED  BY <3>2, <3>3
  <2>4. QED  BY <1>1, <2>1, <2>2, <2>3 DEF TypeOK
<1>9. QED  BY <1>2, <1>5, <1>6, <1>7, <1>8 DEF OptionsInv, StartTypeOK

LEMMA OptionsStep == OptionsInv /\ [StartNext]_<<vars, optionVars>> => OptionsInv'
<1> SUFFICES ASSUME OptionsInv, [StartNext]_<<vars, optionVars>> PROVE OptionsInv'
  OBVIOUS
<1>1. TypeOK /\ Options!TypeOK
  BY DEF OptionsInv, StartTypeOK
<1>2. CASE EditConf
  BY <1>1, <1>2 DEF EditConf, Options!EditConf, vars, OptionsInv, StartTypeOK, TypeOK,
                    Options!TypeOK, Chosen
<1>3. CASE DuringSession
  <2>1. TypeOK' /\ enableXtra' = enableXtra /\ starts' = starts
    <3>1. CASE DownloadRequest
      <4>1. UNCHANGED <<enableXtra, file, starts>> /\ requests' \in 0..MaxRequests
        BY <1>1, <3>1, ConstantsAssumption DEF DownloadRequest, TypeOK
      <4>2. req_cnt' \in Nat /\ fail_cnt' \in Nat /\ pending' \in Nat
        BY <1>1, <3>1 DEF DownloadRequest, Grant, TypeOK
      <4>3. asked' \in [Downloads -> Nat] /\ missed' \in [Downloads -> Nat]
        BY <1>1, <3>1 DEF DownloadRequest, Grant, TypeOK, Downloads
      <4>4. QED  BY <1>1, <4>1, <4>2, <4>3 DEF TypeOK
    <3>2. CASE Answer \/ NoAnswer
      <4>1. /\ UNCHANGED <<enableXtra, starts, req_cnt, fail_cnt, asked, missed, requests>>
            /\ pending > 0 /\ pending' = pending - 1
        BY <3>2, Zenon DEF Answer, NoAnswer, Owed
      <4>2. file' \in BOOLEAN
        BY <1>1, <3>2, Zenon DEF Answer, NoAnswer, TypeOK
      <4>3. pending' \in Nat
        BY <1>1, <4>1 DEF TypeOK
      <4>4. QED  BY <1>1, <4>1, <4>2, <4>3 DEF TypeOK
    <3>3. QED  BY <1>3, <3>1, <3>2 DEF DuringSession, Xtra
  <2>2. UNCHANGED <<default_type, sOptions, optind, conf, last>>
    BY <1>3 DEF DuringSession, optionVars
  <2>3. QED
    BY <1>1, <2>1, <2>2 DEF OptionsInv, StartTypeOK, Options!TypeOK, Chosen
<1>4. CASE UNCHANGED <<vars, optionVars>>
  BY <1>1, <1>4 DEF vars, optionVars, OptionsInv, StartTypeOK, TypeOK, Options!TypeOK, Chosen
<1>5. QED  BY <1>2, <1>3, <1>4, SessionKeeps DEF StartNext

THEOREM OptionsInvariant == StartSpec => []OptionsInv
BY OptionsInit, OptionsStep, PTL DEF StartSpec

\* The options, the budget and the histories keep their types in every session.
THEOREM StartTypes == StartSpec => []StartTypeOK
BY OptionsInvariant, PTL DEF OptionsInv

\* A session's options are those of its own command line, for any contents of gps.conf.
THEOREM CommandAlone == StartSpec => []CommandDecides
<1>1. OptionsInv => CommandDecides
  <2> SUFFICES ASSUME OptionsInv, last # "none"
               PROVE  Options!CommandDecides
    BY DEF CommandDecides, Options!CommandDecides
  <2> DEFINE command == Options!Command(default_type, last)
             fresh == Options!Parse(Options!Defaults, command, 1)
  <2>1. /\ default_type \in Options!Kinds /\ last \in Options!Types /\ conf \in Confs
        /\ sOptions \in Options!OptionsType
    BY DEF OptionsInv, StartTypeOK, Options!TypeOK
  <2>2. Options!Defaults \in Options!OptionsType
    BY DEF Options!Defaults, Options!OptionsType, Options!Hosts
  <2>3. Chosen(fresh, Options!Defaults, default_type, last)
    BY <2>1, <2>2, ParseResult
  <2> HIDE DEF fresh
  <2>4. ASSUME NEW f \in DOMAIN Options!Defaults \ {"c2kHost"} PROVE sOptions[f] = fresh[f]
    <3>1. f \in {"mask", "mode", "nmea", "engOff", "apn", "xtra", "suplHost"}
      BY DEF Options!Defaults
    <3>2. QED  BY <2>3, <3>1 DEF OptionsInv, Chosen
  <2>5. QED  BY <2>4 DEF fresh, Options!CommandDecides
<1>2. QED  BY <1>1, OptionsInvariant, PTL

\* The composition implements its parts: what is claimed of the download budget under any
\* starts, and of the options under any sessions, is claimed of this program.
THEOREM PartsImplemented == StartSpec => Spec /\ Options!Spec
<1>1. StartInit => Init /\ Options!Init
  BY DEF StartInit
<1>2. OptionsInv' /\ [StartNext]_<<vars, optionVars>> =>
        [Next]_vars /\ [Options!Next]_(Options!vars)
  <2> SUFFICES ASSUME OptionsInv', [StartNext]_<<vars, optionVars>>
               PROVE  [Next]_vars /\ [Options!Next]_(Options!vars)
    OBVIOUS
  <2>1. CASE EditConf
    BY <2>1 DEF EditConf, Options!Next
  <2>2. CASE DuringSession
    <3>1. UNCHANGED Options!vars
      <4>1. UNCHANGED starts
        BY <2>2, Zenon DEF DuringSession, Xtra, DownloadRequest, Answer, NoAnswer
      <4>2. QED  BY <2>2, <4>1 DEF DuringSession, optionVars, Options!vars
    <3>2. QED  BY <2>2, <3>1 DEF DuringSession, Next
  <2>3. ASSUME NEW type \in Options!Types, StartSession(type)
        PROVE  [Next]_vars /\ [Options!Next]_(Options!vars)
    <3>1. sOptions'.xtra \in {0, 1}
      BY DEF OptionsInv, StartTypeOK, Options!TypeOK, Options!OptionsType
    <3>2. Next
      BY <2>3, <3>1 DEF StartSession, Next, Options!Types
    <3>3. Options!Next
      BY <2>3 DEF StartSession, Options!Next
    <3>4. QED  BY <3>2, <3>3
  <2>4. CASE UNCHANGED <<vars, optionVars>>
    BY <2>4 DEF vars, optionVars, Options!vars
  <2>5. QED  BY <2>1, <2>2, <2>3, <2>4 DEF StartNext
<1>3. QED
  BY <1>1, <1>2, OptionsInvariant, PTL DEF StartSpec, Spec, Options!Spec
=============================================================================
