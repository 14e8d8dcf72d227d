------------------------- MODULE UdpIpcServerProofs -------------------------
(***************************************************************************)
(* Proofs about the table of servers, for any number of slots, ports,      *)
(* starts and hasty calls.  They rest on ServerInv: what the table says of *)
(* a port with a slot, and where the loops stand to it.                    *)
(***************************************************************************)
EXTENDS UdpIpcServer, TLAPS

\* A port has one slot, which is filled for it; every active port but the first has one.
SlotsOwned ==
  /\ \A i, j \in Idx : port_num[i] # 0 /\ port_num[i] = port_num[j] => i = j
  /\ \A i \in Idx : port_num[i] # 0 =>
       /\ port_num[i] \in active /\ thread_run[i] = 1
       /\ loop_arg[i] = [port |-> port_num[i], index |-> i]
  /\ \A p \in active \ {first} : \E i \in Idx : port_num[i] = p

\* Only the first start leaves a slot that looks free and whose loop runs on.
FreeSlots == \A i \in Idx : port_num[i] = 0 /\ thread_run[i] = 1 => i = 0 /\ starts = 1

Started ==
  /\ init_flag = 0 <=> starts = 0
  /\ first = 0 <=> starts = 0
  /\ starts = 0 => \A i \in Idx : thread_run[i] = 0
  /\ starts \in {0, 1} => \A i \in Idx : port_num[i] = 0
  /\ \A l \in Loops : l > starts => asked[l] = 0 /\ loops[l].pc = "none"
  /\ \A l \in Loops : l <= starts => asked[l] # 0
  /\ starts >= 1 => asked[1] = first

\* The loop of the last start of an active port is in that port's slot.
NewestInPlace ==
  \A l \in Loops :
    Newest(l) /\ asked[l] \in active \ {first} =>
      /\ loops[l].pc = "created" => port_num[loops[l].slot] = asked[l]
      /\ Serving(l) => loops[l].arg.port = asked[l] /\ port_num[loops[l].arg.index] = asked[l]

Using(l) == loops[l].pc \in {"created", "check", "recv"}

\* With patient callers the slot a loop was created for is still its own when it copies.
PatientInv ==
  hasty = 0 =>
    /\ \A l \in Loops : loops[l].pc = "created" =>
         loop_arg[loops[l].slot] = [port |-> asked[l], index |-> loops[l].slot]
    /\ \A l \in Loops : Serving(l) =>
         loops[l].arg = [port |-> asked[l], index |-> loops[l].slot]
    /\ \A k, l \in Loops :
         Using(k) /\ Using(l) /\ loops[k].slot = loops[l].slot /\ k # l
           => first \in {asked[k], asked[l]}

ServerInv ==
  TypeOK /\ SlotsOwned /\ FreeSlots /\ Started /\ NewestInPlace /\ PatientInv
         /\ OverrunOnlyWhenFull

-----------------------------------------------------------------------------

LEMMA ArgsTyped == NoArg \in Args /\ NoLoop \in [pc : {"none"}, slot : Idx, arg : Args]
BY ServerConstants DEF NoArg, NoLoop, Args, Idx

LEMMA ServerInit == Init => ServerInv
<1> SUFFICES ASSUME Init PROVE ServerInv
  OBVIOUS
<1> USE ServerConstants, ArgsTyped DEF Init
<1>1. TypeOK
  <2>1. loop_arg \in [Idx -> Args] /\ port_num \in [Idx -> Ports \cup {0}]
        /\ thread_run \in [Idx -> {0, 1}] /\ asked \in [Loops -> Ports \cup {0}]
    OBVIOUS
  <2>2. loops \in [Loops -> [pc : {"none", "created", "check", "recv", "gone"},
                             slot : Idx, arg : Args]]
    <3>1. NoLoop \in [pc : {"none", "created", "check", "recv", "gone"}, slot : Idx, arg : Args]
      BY DEF NoLoop, Idx
    <3>2. QED  BY <3>1
  <2>3. starts \in 0..MaxStarts /\ hasty \in 0..MaxHasty /\ first \in Ports \cup {0}
        /\ init_flag \in {0, 1} /\ active \subseteq Ports
    OBVIOUS
  <2>4. QED  BY <2>1, <2>2, <2>3, Zenon DEF TypeOK
<1>2. SlotsOwned /\ FreeSlots /\ OverrunOnlyWhenFull
  BY DEF SlotsOwned, FreeSlots, OverrunOnlyWhenFull
<1>3. Started
  BY DEF Started, NoLoop, Loops
<1>4. NewestInPlace /\ PatientInv
  BY DEF NewestInPlace, PatientInv, Newest, Using, Serving, NoLoop
<1>5. QED  BY <1>1, <1>2, <1>3, <1>4 DEF ServerInv

\* Where _get_thread_idx finds the port a slot, no other slot has the port.
LEMMA IdxFacts ==
  ASSUME TypeOK, SlotsOwned, NEW p \in Ports, NEW i \in Idx, IsIdx(i, p)
  PROVE  /\ port_num[i] \in {p, 0}
         /\ \A j \in Idx \ {i} : port_num[j] # p
         /\ port_num[i] = 0 => p \notin active \ {first}
         /\ (\A j \in Idx : port_num[j] = 0) => i = 0
<1> USE ServerConstants
<1>1. p # 0 /\ p \in Nat
  OBVIOUS
<1>2. CASE Least(i, p)
  BY <1>1, <1>2 DEF Least, SlotsOwned, Idx
<1>3. CASE Least(i, 0) /\ \A j \in Idx : port_num[j] # p
  <2>1. (\A j \in Idx : port_num[j] = 0) => i = 0
    BY <1>3 DEF Least, Idx
  <2>2. QED  BY <1>1, <1>3, <2>1 DEF Least, SlotsOwned
<1>4. QED  BY <1>2, <1>3 DEF IsIdx

LEMMA StartTyped ==
  ASSUME TypeOK, NEW p \in Ports, NEW i \in Idx, starts < MaxStarts, StartIn(p, i)
  PROVE  TypeOK'
<1> USE ServerConstants
<1>1. [port |-> p, index |-> i] \in Args
  BY DEF Args
<1>2. port_num' \in [Idx -> Ports \cup {0}] /\ thread_run' \in [Idx -> {0, 1}]
  BY DEF StartIn, Cleared, TypeOK
<1>3. loop_arg' \in [Idx -> Args]
  BY <1>1, ArgsTyped DEF StartIn, Cleared, ArgAtStart, TypeOK
<1>4. loops' \in [Loops -> [pc : {"none", "created", "check", "recv", "gone"},
                            slot : Idx, arg : Args]]
  <2>1. [pc |-> "created", slot |-> i, arg |-> NoArg]
          \in [pc : {"none", "created", "check", "recv", "gone"}, slot : Idx, arg : Args]
    BY ArgsTyped
  <2>2. QED  BY <2>1 DEF StartIn, TypeOK
<1>5. starts' \in 0..MaxStarts /\ hasty' \in 0..MaxHasty
  BY DEF StartIn, Patient, TypeOK
<1>6. asked' \in [Loops -> Ports \cup {0}] /\ active' \subseteq Ports
  BY DEF StartIn, TypeOK
<1>7. first' \in Ports \cup {0} /\ init_flag' \in {0, 1} /\ overrun' = overrun
  BY DEF StartIn, TypeOK
<1>8. QED  BY <1>2, <1>3, <1>4, <1>5, <1>6, <1>7, Zenon DEF TypeOK

LEMMA LoopsApart ==
  ASSUME PatientInv, hasty = 0, NEW l \in Loops, Serving(l)
  PROVE  loops[l].arg.port = asked[l] /\ loops[l].arg.index = loops[l].slot
<1>1. loops[l].arg = [port |-> asked[l], index |-> loops[l].slot]
  BY DEF PatientInv
<1>2. QED  BY <1>1

\* A start in the slot it was found gives the port that slot and takes it from nobody.
LEMMA StartKeeps ==
  ASSUME ServerInv, ~overrun, NEW p \in Ports, NEW i \in Idx, starts < MaxStarts,
         IsIdx(i, p), StartIn(p, i)
  PROVE  ServerInv'
<1> USE ServerConstants DEF ServerInv
<1>1. TypeOK'
  BY StartTyped
<1>2. /\ port_num[i] \in {p, 0} /\ \A j \in Idx \ {i} : port_num[j] # p
      /\ port_num[i] = 0 => p \notin active \ {first}
      /\ (\A j \in Idx : port_num[j] = 0) => i = 0
  BY IdxFacts
<1>3. p \in Nat /\ p # 0 /\ starts \in Nat /\ starts + 1 \in Loops
  BY DEF TypeOK, Loops
<1>4. first' = (IF starts = 0 THEN p ELSE first) /\ first' # 0
  BY <1>3 DEF StartIn, Started
<1>5. CASE starts = 0
  <2>1. /\ port_num' = [j \in Idx |-> 0] /\ i = 0 /\ active' = active \cup {p}
        /\ \A j \in Idx \ {i} : thread_run'[j] = 0
    BY <1>2, <1>5 DEF StartIn, Cleared, Started, TypeOK
  <2>2. active \subseteq {first}
    BY <1>5 DEF Started, SlotsOwned, TypeOK
  <2>3. first = 0 /\ active = {}
    BY <1>5, <2>2 DEF Started, TypeOK
  <2>4. SlotsOwned'
    BY <1>4, <1>5, <2>1, <2>3 DEF SlotsOwned
  <2>5. FreeSlots' /\ OverrunOnlyWhenFull'
    BY <1>5, <2>1 DEF FreeSlots, OverrunOnlyWhenFull, StartIn
  <2>6. Started'
    <3>1. starts' = 1 /\ init_flag' = 1 /\ first' = p
      BY <1>4, <1>5 DEF StartIn
    <3>2. \A l \in Loops : l > 1 => asked'[l] = 0 /\ loops'[l].pc = "none"
      BY <1>5 DEF StartIn, Started, Loops, TypeOK
    <3>3. asked'[1] = p /\ 1 \in Loops
      BY <1>3, <1>5 DEF StartIn, TypeOK
    <3>4. \A l \in Loops : l <= 1 => l = 1
      BY DEF Loops
    <3>5. QED  BY <1>3, <2>1, <3>1, <3>2, <3>3, <3>4 DEF Started
  <2>7. NewestInPlace'
    BY <1>4, <1>5, <2>1, <2>3 DEF NewestInPlace
  <2>8. PatientInv'
    <3>1. \A l \in Loops : l # starts + 1 => loops'[l].pc = "none"
      BY <1>5 DEF StartIn, Started, Loops, TypeOK
    <3>2. loops'[starts + 1] = [pc |-> "created", slot |-> i, arg |-> NoArg]
          /\ asked'[starts + 1] = p /\ loop_arg'[i] = [port |-> p, index |-> i]
      BY <1>3 DEF StartIn, ArgAtStart, Cleared, TypeOK
    <3>3. QED  BY <3>1, <3>2 DEF PatientInv, Using, Serving
  <2>9. QED  BY <1>1, <2>4, <2>5, <2>6, <2>7, <2>8
<1>6. CASE starts # 0
  <2>1. /\ port_num' = [port_num EXCEPT ![i] = p] /\ thread_run' = [thread_run EXCEPT ![i] = 1]
        /\ loop_arg' = [loop_arg EXCEPT ![i] = [port |-> p, index |-> i]]
        /\ first' = first /\ active' = active \cup {p}
    BY <1>4, <1>6 DEF StartIn, Cleared, Started, ArgAtStart
  <2>2. /\ loops'[starts + 1] = [pc |-> "created", slot |-> i, arg |-> NoArg]
        /\ asked'[starts + 1] = p
        /\ \A l \in Loops : l # starts + 1 => loops'[l] = loops[l] /\ asked'[l] = asked[l]
    BY <1>3 DEF StartIn, TypeOK
  <2>3. SlotsOwned'
    <3>1. \A j, k \in Idx : port_num'[j] # 0 /\ port_num'[j] = port_num'[k] => j = k
      BY <1>2, <1>3, <2>1 DEF SlotsOwned, TypeOK
    <3>2. \A j \in Idx : port_num'[j] # 0 =>
            /\ port_num'[j] \in active' /\ thread_run'[j] = 1
            /\ loop_arg'[j] = [port |-> port_num'[j], index |-> j]
      BY <1>2, <1>3, <2>1 DEF SlotsOwned, TypeOK
    <3>3. \A q \in active' \ {first'} : \E j \in Idx : port_num'[j] = q
      BY <1>2, <1>3, <2>1 DEF SlotsOwned, TypeOK
    <3>4. QED  BY <3>1, <3>2, <3>3 DEF SlotsOwned
  <2>4. FreeSlots'
    <3>1. \A j \in Idx \ {i} : port_num[j] = 0 => thread_run[j] = 0
      <4>1. starts = 1 => i = 0
        BY <1>2 DEF Started
      <4>2. QED  BY <4>1 DEF FreeSlots, TypeOK
    <3>2. QED  BY <1>3, <2>1, <3>1 DEF FreeSlots, TypeOK
  <2>5. OverrunOnlyWhenFull'
    BY DEF OverrunOnlyWhenFull, StartIn
  <2>6. Started'
    BY <1>3, <1>4, <1>6, <2>2 DEF Started, StartIn, Loops, TypeOK
  <2>7. NewestInPlace'
    <3> SUFFICES ASSUME NEW l \in Loops, Newest(l)', asked'[l] \in active' \ {first'}
                 PROVE  /\ loops'[l].pc = "created" => port_num'[loops'[l].slot] = asked'[l]
                        /\ Serving(l)' => /\ loops'[l].arg.port = asked'[l]
                                          /\ port_num'[loops'[l].arg.index] = asked'[l]
      BY DEF NewestInPlace
    <3>1. CASE l = starts + 1
      BY <2>1, <2>2, <3>1 DEF Serving, TypeOK
    <3>2. CASE l # starts + 1
      <4>1. l <= starts /\ asked[l] # p
        BY <1>3, <2>2, <3>2 DEF Newest, Started, Loops
      <4>2. Newest(l) /\ asked[l] \in active \ {first}
        BY <1>3, <1>6, <2>1, <2>2, <4>1, <3>2 DEF Newest, Started, Loops
      <4>3. loops[l].slot \in Idx /\ loops[l].arg.index \in Idx
        BY DEF TypeOK, Args
      <4>4. QED
        BY <1>2, <1>3, <2>1, <2>2, <3>2, <4>1, <4>2, <4>3
           DEF NewestInPlace, Serving, Newest, TypeOK
    <3>3. QED  BY <3>1, <3>2
  <2>8. PatientInv'
    <3> SUFFICES ASSUME hasty' = 0 PROVE PatientInv'
      BY DEF PatientInv
    <3>1. hasty = 0 /\ Quiet /\ p \notin active
      BY DEF StartIn, Patient, TypeOK
    <3>2. port_num[i] = 0
      BY <1>2, <1>3, <3>1 DEF SlotsOwned
    <3>3. \A l \in Loops : Using(l) => loops[l].pc = "recv" /\ thread_run[loops[l].slot] = 1
      <4>1. \A l \in Loops : Serving(l) => loops[l].arg.index = loops[l].slot
        BY <3>1, LoopsApart
      <4>2. QED  BY <3>1, <4>1 DEF Quiet, AtRest, Using, Serving
    <3>4. \A l \in Loops : Using(l) /\ loops[l].slot = i => asked[l] = first
      BY <1>3, <3>2, <3>3 DEF FreeSlots, Started, Using, Loops
    <3>5. \A l \in Loops : Using(l)' => l = starts + 1 \/ Using(l)
      BY <2>2 DEF Using
    <3>6. \A l \in Loops : loops'[l].pc = "created" => l = starts + 1
      BY <2>2, <3>3 DEF Using
    <3>7. \A l \in Loops : loops'[l].pc = "created" =>
            loop_arg'[loops'[l].slot] = [port |-> asked'[l], index |-> loops'[l].slot]
      BY <2>1, <2>2, <3>6 DEF TypeOK
    <3>8. \A l \in Loops : Serving(l)' =>
            loops'[l].arg = [port |-> asked'[l], index |-> loops'[l].slot]
      BY <2>2, <3>1 DEF Serving, PatientInv
    <3>9. \A k, l \in Loops :
            Using(k)' /\ Using(l)' /\ loops'[k].slot = loops'[l].slot /\ k # l
              => first' \in {asked'[k], asked'[l]}
      BY <2>1, <2>2, <3>1, <3>4, <3>5 DEF PatientInv
    <3>10. QED  BY <3>7, <3>8, <3>9 DEF PatientInv
  <2>9. QED  BY <1>1, <2>3, <2>4, <2>5, <2>6, <2>7, <2>8
<1>7. QED  BY <1>5, <1>6

\* An end empties the port's own slot, or a free one.
LEMMA EndKeeps ==
  ASSUME ServerInv, ~overrun, NEW p \in Ports, NEW i \in Idx, IsIdx(i, p), EndIn(p, i)
  PROVE  ServerInv'
<1> USE ServerConstants DEF ServerInv
<1>1. /\ port_num' = [port_num EXCEPT ![i] = 0] /\ thread_run' = [thread_run EXCEPT ![i] = 0]
      /\ loop_arg' = [loop_arg EXCEPT ![i] = NoArg] /\ active' = active \ {p}
      /\ UNCHANGED <<init_flag, loops, starts, asked, first, overrun>>
  BY DEF EndIn, PortAfterEnd, RunAfterEnd
<1>2. /\ port_num[i] \in {p, 0} /\ \A j \in Idx \ {i} : port_num[j] # p
  BY IdxFacts
<1>3. hasty' \in 0..MaxHasty /\ (hasty' = 0 => hasty = 0 /\ Quiet)
  BY DEF EndIn, Patient, TypeOK
<1>4. TypeOK'
  <2>1. loop_arg' \in [Idx -> Args] /\ port_num' \in [Idx -> Ports \cup {0}]
        /\ thread_run' \in [Idx -> {0, 1}] /\ active' \subseteq Ports
    BY <1>1, ArgsTyped DEF TypeOK
  <2>2. QED  BY <1>1, <1>3, <2>1, Zenon DEF TypeOK
<1>5. SlotsOwned'
  BY <1>1, <1>2 DEF SlotsOwned, TypeOK
<1>6. FreeSlots' /\ Started' /\ OverrunOnlyWhenFull'
  BY <1>1 DEF FreeSlots, Started, OverrunOnlyWhenFull, TypeOK
<1>7. NewestInPlace'
  <2> SUFFICES ASSUME NEW l \in Loops, Newest(l), asked[l] \in active \ {first}, asked[l] # p
               PROVE  /\ loops[l].pc = "created" => port_num'[loops[l].slot] = asked[l]
                      /\ Serving(l) => /\ loops[l].arg.port = asked[l]
                                       /\ port_num'[loops[l].arg.index] = asked[l]
    BY <1>1 DEF NewestInPlace, Newest, Serving
  <2>1. loops[l].slot \in Idx /\ loops[l].arg.index \in Idx /\ asked[l] # 0
    BY DEF TypeOK, Args, Newest
  <2>2. QED  BY <1>1, <1>2, <2>1 DEF NewestInPlace, TypeOK
<1>8. PatientInv'
  <2> SUFFICES ASSUME hasty' = 0 PROVE PatientInv'
    BY DEF PatientInv
  <2>1. hasty = 0 /\ Quiet
    BY <1>3
  <2>2. QED  BY <1>1, <2>1 DEF PatientInv, Quiet, AtRest, Using, Serving
<1>9. QED  BY <1>4, <1>5, <1>6, <1>7, <1>8

\* With the table full, every slot is an active port's.
LEMMA OverrunKeeps == ASSUME ServerInv, NEW p \in Ports, Overrun(p) PROVE ServerInv'
<1> USE DEF ServerInv, Overrun, tableVars
<1>1. TypeOK'
  BY Zenon DEF TypeOK
<1>2. SlotsOwned' /\ FreeSlots' /\ Started'
  BY DEF SlotsOwned, FreeSlots, Started
<1>3. NewestInPlace' /\ PatientInv'
  BY DEF NewestInPlace, PatientInv, Newest, Serving, Using
<1>4. OverrunOnlyWhenFull'
  BY DEF OverrunOnlyWhenFull, SlotsOwned
<1>5. QED  BY <1>1, <1>2, <1>3, <1>4

\* A loop only moves itself, and copies what its slot holds.
LEMMA LoopKeeps ==
  ASSUME ServerInv, ~overrun, NEW l \in Loops, MsgLoop(l)
  PROVE  ServerInv'
<1> USE ServerConstants DEF ServerInv
<1>1. UNCHANGED <<tableVars, historyVars>> /\ \A k \in Loops \ {l} : loops'[k] = loops[k]
  BY DEF MsgLoop, CopyArg, CheckRun, Receive, Become, TypeOK
<1>2. \/ loops'[l] = Gone
      \/ loops[l].pc = "created" /\ loops'[l] = [pc |-> "check", slot |-> loops[l].slot,
                                                 arg |-> loop_arg[loops[l].slot]]
      \/ Serving(l) /\ \E pc \in {"check", "recv"} : loops'[l] = [loops[l] EXCEPT !.pc = pc]
  BY DEF MsgLoop, CopyArg, CheckRun, Receive, Become, ArgOf, Serving, TypeOK
<1>3. /\ loops[l].pc \in {"created", "check", "recv"}
      /\ loops[l].slot \in Idx /\ loops[l].arg \in Args
  BY DEF MsgLoop, CopyArg, CheckRun, Receive, TypeOK
<1>4. TypeOK'
  <2> DEFINE T == [pc : {"none", "created", "check", "recv", "gone"}, slot : Idx, arg : Args]
  <2>1. Gone \in T
    BY ArgsTyped DEF Gone, NoLoop
  <2>2. loops[l] \in T /\ loop_arg[loops[l].slot] \in Args
    BY <1>3 DEF TypeOK
  <2>3. loops'[l] \in T
    BY <1>2, <1>3, <2>1, <2>2
  <2>4. loops' \in [Loops -> T]
    BY <2>3 DEF MsgLoop, CopyArg, CheckRun, Receive, Become, TypeOK
  <2>5. QED  BY <1>1, <2>4, Zenon DEF TypeOK, tableVars, historyVars
<1>5. SlotsOwned' /\ FreeSlots' /\ OverrunOnlyWhenFull'
  BY <1>1 DEF SlotsOwned, FreeSlots, OverrunOnlyWhenFull, tableVars, historyVars
<1>6. Started'
  BY <1>1, <1>3 DEF Started, tableVars, historyVars
<1>7. NewestInPlace'
  <2> SUFFICES ASSUME NEW k \in Loops, Newest(k), asked[k] \in active \ {first}
               PROVE  /\ loops'[k].pc = "created" => port_num[loops'[k].slot] = asked[k]
                      /\ Serving(k)' => /\ loops'[k].arg.port = asked[k]
                                        /\ port_num[loops'[k].arg.index] = asked[k]
    BY <1>1 DEF NewestInPlace, Newest, tableVars, historyVars
  <2>1. CASE k # l
    BY <1>1, <2>1 DEF NewestInPlace, Serving
  <2>2. CASE k = l
    <3>1. CASE loops'[l] = Gone
      BY <2>2, <3>1 DEF Gone, NoLoop, Serving
    <3>2. CASE loops[l].pc = "created" /\ loops'[l] = [pc |-> "check", slot |-> loops[l].slot,
                                                  arg |-> loop_arg[loops[l].slot]]
      <4>1. port_num[loops[l].slot] = asked[l] /\ asked[l] # 0
        BY <2>2, <3>2 DEF NewestInPlace, Newest
      <4>2. loop_arg[loops[l].slot] = [port |-> asked[l], index |-> loops[l].slot]
        BY <1>3, <4>1 DEF SlotsOwned
      <4>3. QED  BY <2>2, <3>2, <4>1, <4>2
    <3>3. CASE Serving(l) /\ \E pc \in {"check", "recv"} :
                               loops'[l] = [loops[l] EXCEPT !.pc = pc]
      <4>1. loops'[l].pc # "created" /\ loops'[l].arg = loops[l].arg
        BY <3>3 DEF TypeOK
      <4>2. QED  BY <2>2, <3>3, <4>1 DEF NewestInPlace
    <3>4. QED  BY <1>2, <3>1, <3>2, <3>3
  <2>3. QED  BY <2>1, <2>2
<1>8. PatientInv'
  <2> SUFFICES ASSUME hasty = 0 PROVE PatientInv'
    BY <1>1 DEF PatientInv, historyVars
  <2>1. /\ Using(l)' => loops'[l].slot = loops[l].slot /\ loops'[l].pc \in {"check", "recv"}
        /\ Using(l)
    BY <1>2, <1>3 DEF Using, Serving, Gone, NoLoop, TypeOK
  <2>2. Serving(l)' => loops'[l].arg = [port |-> asked[l], index |-> loops[l].slot]
    BY <1>2, <1>3 DEF PatientInv, Serving, Gone, NoLoop, TypeOK
  <2>3. \A k \in Loops \ {l} : Using(k)' = Using(k) /\ Serving(k)' = Serving(k)
    BY <1>1 DEF Using, Serving
  <2>4. loops'[l].pc # "created"
    BY <2>1 DEF Using
  <2>5. UNCHANGED <<asked, first, loop_arg, hasty>>
    BY <1>1 DEF tableVars, historyVars
  <2>6. \A k \in Loops : loops'[k].pc = "created" =>
          loop_arg'[loops'[k].slot] = [port |-> asked'[k], index |-> loops'[k].slot]
    BY <1>1, <2>4, <2>5 DEF PatientInv
  <2>7. \A k \in Loops : Serving(k)' =>
          loops'[k].arg = [port |-> asked'[k], index |-> loops'[k].slot]
    BY <1>1, <2>1, <2>2, <2>3, <2>5 DEF PatientInv, Using, Serving
  <2>8. \A k, m \in Loops :
          Using(k)' /\ Using(m)' /\ loops'[k].slot = loops'[m].slot /\ k # m
            => first' \in {asked'[k], asked'[m]}
    <3>1. \A k \in Loops : Using(k)' => Using(k) /\ loops'[k].slot = loops[k].slot
      BY <1>1, <2>1, <2>3
    <3>2. QED  BY <2>5, <3>1 DEF PatientInv
  <2>9. QED  BY <2>6, <2>7, <2>8 DEF PatientInv
<1>9. QED  BY <1>4, <1>5, <1>6, <1>7, <1>8

THEOREM ServerInvariant == Spec => []ServerInv
<1>1. ServerInv /\ [Next]_vars => ServerInv'
  <2> SUFFICES ASSUME ServerInv, [Next]_vars PROVE ServerInv'
    OBVIOUS
  <2>1. CASE UNCHANGED vars
    BY <2>1 DEF vars, tableVars, historyVars, ServerInv, TypeOK, SlotsOwned, FreeSlots, Started,
                NewestInPlace, Newest, Serving, PatientInv, Using, OverrunOnlyWhenFull
  <2>2. ASSUME NEW p \in Ports, Start(p), ~overrun PROVE ServerInv'
    BY <2>2, StartKeeps, OverrunKeeps DEF Start
  <2>3. ASSUME NEW p \in Ports, End(p), ~overrun PROVE ServerInv'
    BY <2>3, EndKeeps, OverrunKeeps DEF End
  <2>4. QED  BY <2>1, <2>2, <2>3, LoopKeeps DEF Next
<1>2. QED  BY <1>1, ServerInit, PTL DEF Spec

\* Table, loops and histories keep their types: no slot number leaves the table.
THEOREM ServerTypes == Spec => []TypeOK
<1>1. ServerInv => TypeOK
  BY DEF ServerInv
<1>2. QED  BY <1>1, ServerInvariant, PTL

\* Whatever callers do, the loop of the last start of an active port serves it for good.
THEOREM ActivePortsServed == Spec => []ActiveServed
<1>1. ServerInv => ActiveServed
  BY DEF ServerInv, NewestInPlace, SlotsOwned, ActiveServed, Newest, Serving, TypeOK, Args
<1>2. QED  BY <1>1, ServerInvariant, PTL

\* No sequence of starts and ends loses a slot.
THEOREM NoSlotLost == Spec => []OverrunOnlyWhenFull
<1>1. ServerInv => OverrunOnlyWhenFull
  BY DEF ServerInv
<1>2. QED  BY <1>1, ServerInvariant, PTL

\* With patient callers every loop serves the port it was started for, and no two loops
\* share a slot, unless one is the first of the process.
THEOREM PatientApart == Spec => []SlotsApart
<1>1. ServerInv => SlotsApart
  <2>1. \A l \in Loops : Serving(l) => Using(l)
    BY DEF Serving, Using
  <2>2. QED  BY <2>1, LoopsApart DEF ServerInv, PatientInv, SlotsApart
<1>2. QED  BY <1>1, ServerInvariant, PTL

-----------------------------------------------------------------------------
(* What makes an end stop a loop, apart from the fairness EndStops needs.  *)

\* With patient callers a loop of an ended port was told to leave, and one of an active
\* port is in that port's slot, where an end will find it.
Told ==
  hasty = 0 => \A l \in Loops :
    Using(l) /\ asked[l] # first =>
      IF asked[l] \in active THEN port_num[loops[l].slot] = asked[l]
                             ELSE thread_run[loops[l].slot] = 0

LEMMA StartTells ==
  ASSUME ServerInv, Told, NEW p \in Ports, NEW i \in Idx, starts < MaxStarts,
         IsIdx(i, p), StartIn(p, i)
  PROVE  Told'
<1> SUFFICES ASSUME hasty' = 0, NEW l \in Loops, Using(l)', asked'[l] # first'
             PROVE  IF asked'[l] \in active' THEN port_num'[loops'[l].slot] = asked'[l]
                                             ELSE thread_run'[loops'[l].slot] = 0
  BY DEF Told
<1> USE ServerConstants
<1>1. hasty = 0 /\ Quiet /\ p \notin active
  BY DEF StartIn, Patient, ServerInv, TypeOK
<1>2. p # 0 /\ starts \in Nat /\ starts + 1 \in Loops /\ port_num[i] \in {p, 0}
  BY IdxFacts DEF ServerInv, TypeOK, Loops
<1>3. /\ loops'[starts + 1] = [pc |-> "created", slot |-> i, arg |-> NoArg]
      /\ asked'[starts + 1] = p /\ active' = active \cup {p}
      /\ \A k \in Loops \ {starts + 1} : loops'[k] = loops[k] /\ asked'[k] = asked[k]
  BY <1>2 DEF StartIn, ServerInv, TypeOK
<1>4. starts # 0
  <2>1. SUFFICES ASSUME starts = 0 PROVE FALSE
    OBVIOUS
  <2>2. l = starts + 1
    BY <1>3, <2>1 DEF Using, ServerInv, Started, Loops
  <2>3. first' = p
    BY <2>1 DEF StartIn, ServerInv, Started
  <2>4. QED  BY <1>3, <2>2, <2>3
<1>5. first' = first /\ port_num' = [port_num EXCEPT ![i] = p]
  BY <1>4 DEF StartIn, Cleared, ServerInv, Started
<1>6. CASE l = starts + 1
  BY <1>3, <1>5, <1>6 DEF ServerInv, TypeOK
<1>7. CASE l # starts + 1
  <2>1. loops'[l] = loops[l] /\ asked'[l] = asked[l] /\ Using(l) /\ asked[l] # first
    BY <1>3, <1>5, <1>7 DEF Using
  <2>2. loops[l].pc = "recv" /\ thread_run[loops[l].slot] = 1
    <3>1. Serving(l) => loops[l].arg.index = loops[l].slot
      BY <1>1, LoopsApart DEF ServerInv
    <3>2. QED  BY <1>1, <2>1, <3>1 DEF Quiet, AtRest, Using, Serving
  <2>3. asked[l] \in active /\ port_num[loops[l].slot] = asked[l]
    BY <1>1, <2>1, <2>2 DEF Told
  <2>4. asked[l] # p /\ asked[l] # 0 /\ loops[l].slot \in Idx
    BY <1>1, <2>3 DEF ServerInv, TypeOK
  <2>5. QED  BY <1>2, <1>3, <1>5, <2>1, <2>3, <2>4 DEF ServerInv, TypeOK
<1>8. QED  BY <1>6, <1>7

LEMMA EndTells ==
  ASSUME ServerInv, Told, NEW p \in Ports, NEW i \in Idx, IsIdx(i, p), EndIn(p, i)
  PROVE  Told'
<1> SUFFICES ASSUME hasty' = 0, NEW l \in Loops, Using(l), asked[l] # first
             PROVE  IF asked[l] \in active \ {p} THEN port_num'[loops[l].slot] = asked[l]
                                                 ELSE thread_run'[loops[l].slot] = 0
  BY DEF Told, EndIn, Using
<1> USE ServerConstants
<1>1. hasty = 0
  BY DEF EndIn, Patient, ServerInv, TypeOK
<1>2. /\ port_num' = [port_num EXCEPT ![i] = 0] /\ thread_run' = [thread_run EXCEPT ![i] = 0]
      /\ port_num[i] \in {p, 0} /\ \A j \in Idx \ {i} : port_num[j] # p
  BY IdxFacts DEF EndIn, PortAfterEnd, RunAfterEnd, ServerInv
<1>3. loops[l].slot \in Idx /\ p # 0
  BY DEF ServerInv, TypeOK
<1>4. CASE asked[l] \in active
  <2>1. port_num[loops[l].slot] = asked[l] /\ asked[l] # 0
    BY <1>1, <1>4 DEF Told, ServerInv, TypeOK
  <2>2. asked[l] = p <=> loops[l].slot = i
    BY <1>2, <1>3, <2>1
  <2>3. QED  BY <1>2, <1>3, <1>4, <2>1, <2>2 DEF ServerInv, TypeOK
<1>5. CASE asked[l] \notin active
  BY <1>1, <1>2, <1>3, <1>5 DEF Told, ServerInv, TypeOK
<1>6. QED  BY <1>4, <1>5

LEMMA LoopTells == ASSUME ServerInv, Told, NEW l \in Loops, MsgLoop(l) PROVE Told'
<1>1. /\ UNCHANGED <<port_num, thread_run, asked, active, first, hasty>>
      /\ \A k \in Loops \ {l} : loops'[k] = loops[k]
  BY DEF MsgLoop, CopyArg, CheckRun, Receive, Become, tableVars, historyVars, ServerInv, TypeOK
<1>2. Using(l) /\ (Using(l)' => loops'[l].slot = loops[l].slot)
  BY DEF MsgLoop, CopyArg, CheckRun, Receive, Become, ArgOf, Using, Gone, NoLoop,
         ServerInv, TypeOK
<1>3. \A k \in Loops : Using(k)' => Using(k) /\ loops'[k].slot = loops[k].slot
  BY <1>1, <1>2 DEF Using
<1>4. QED  BY <1>1, <1>3 DEF Told

\* With patient callers a loop whose port was ended finds thread_run cleared when it next
\* looks, so that it leaves; no later start sets the flag of its slot before it has.
EndTold ==
  hasty = 0 => \A l \in Loops :
    Serving(l) /\ asked[l] \notin active \cup {first} => thread_run[loops[l].arg.index] = 0

THEOREM EndedTold == Spec => []EndTold
<1>1. Init => Told
  BY DEF Init, Told, Using, NoLoop
<1>2. ServerInv /\ Told /\ [Next]_vars => Told'
  <2> SUFFICES ASSUME ServerInv, Told, [Next]_vars PROVE Told'
    OBVIOUS
  <2>1. CASE UNCHANGED vars
    BY <2>1 DEF vars, tableVars, historyVars, Told, Using
  <2>2. ASSUME NEW p \in Ports, Overrun(p) PROVE Told'
    BY <2>2 DEF Overrun, tableVars, Told, Using
  <2>3. ASSUME NEW p \in Ports, Start(p) PROVE Told'
    BY <2>2, <2>3, StartTells DEF Start
  <2>4. ASSUME NEW p \in Ports, End(p) PROVE Told'
    BY <2>2, <2>4, EndTells DEF End
  <2>5. QED  BY <2>1, <2>3, <2>4, LoopTells DEF Next
<1>3. ServerInv /\ Told => EndTold
  <2>1. \A l \in Loops : Serving(l) => Using(l)
    BY DEF Serving, Using
  <2>2. QED  BY <2>1, LoopsApart DEF Told, EndTold, ServerInv
<1>4. QED  BY <1>1, <1>2, <1>3, ServerInvariant, PTL DEF Spec
=============================================================================
