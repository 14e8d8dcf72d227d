------------------------- MODULE UdpIpcClientProofs -------------------------
(***************************************************************************)
(* Proofs about the UDP client, for any number of slots, ports, calls and  *)
(* faults: a port that has a slot to itself gets its own answers, in       *)
(* order, and none older than the requests left unanswered on the socket   *)
(* allow.  They rest on ClientInv, which follows the answers to one slot   *)
(* from the server's queue to the socket and the caller.                   *)
(***************************************************************************)
EXTENDS UdpIpcClient, FiniteSetTheorems, TLAPS

Requests == [sock : Socks, n : Nat]
Answers == [port : Ports, n : Nat]

TypeInv ==
  /\ TypeOK
  /\ opened <= calls
  /\ inbox \in [Socks -> Seq(Answers)] /\ server \in [Ports -> Seq(Requests)]
  /\ call \in [port : RecvPorts \cup {0}, sock : 0..opened]

\* A port has one slot, and has none only if the table was full.
SlotsOwned ==
  /\ \A i, j \in Slots : g_sock_mgr[i] # 0 /\ g_sock_mgr[i] = g_sock_mgr[j] => i = j
  /\ \A i \in Slots : g_sock_mgr[i] # 0 => sent[g_sock_mgr[i]] > 0
  /\ \A p \in Ports : sent[p] > 0 => \/ \E i \in Slots : g_sock_mgr[i] = p
                                     \/ \A i \in Slots : g_sock_mgr[i] # 0
  /\ \A i, j \in Slots : g_sock[i] > 0 /\ g_sock[i] = g_sock[j] => i = j

\* A call that waits does so at the socket of its port's slot, or at slot 0 if it has none.
Waiting ==
  call # NoCall =>
    /\ call.port # 0 /\ sent[call.port] > 0
    /\ \E i \in Slots :
         /\ g_sock[i] > 0 /\ call.sock = g_sock[i]
         /\ \/ g_sock_mgr[i] = call.port
            \/ i = 0 /\ Crowded /\ \A j \in Slots : g_sock_mgr[j] # call.port

\* Nothing has come to a socket that is not open yet; requests queue up in order.
Queues ==
  /\ \A s \in Socks : s > opened => inbox[s] = <<>> /\ late[s] = 0
  /\ \A q \in Ports : \A m \in 1..Len(server[q]) :
       /\ server[q][m].sock <= opened /\ server[q][m].n <= sent[q]
       /\ \A k \in 1..m - 1 : server[q][k].n < server[q][m].n
  /\ \A p \in Ports : sent[p] = 0 => got[p] = 0

\* No port without a slot uses this one.
Own(i) == i # 0 \/ ~Crowded

\* The oldest request whose answer may still come to the slot's socket.
Oldest(i) ==
  sent[g_sock_mgr[i]] - late[g_sock[i]] + (IF call.sock = g_sock[i] THEN 0 ELSE 1)

\* What waits at socket s was sent by port p, is no older than request lo, younger than
\* what was read, and older than what the server still has.
Placed(p, s, lo) ==
  /\ \A k \in 1..Len(inbox[s]) :
       /\ inbox[s][k].port = p
       /\ lo <= inbox[s][k].n /\ inbox[s][k].n <= sent[p] /\ got[p] < inbox[s][k].n
       /\ \A m \in 1..k - 1 : inbox[s][m].n < inbox[s][k].n
  /\ \A q \in Ports : \A m \in 1..Len(server[q]) :
       server[q][m].sock = s =>
         /\ q = p /\ lo <= server[q][m].n /\ got[p] < server[q][m].n
         /\ \A k \in 1..Len(inbox[s]) : inbox[s][k].n < server[q][m].n

InPlace(i) == Placed(g_sock_mgr[i], g_sock[i], Oldest(i))

Channels ==
  \A i \in Slots : Own(i) =>
    /\ g_sock_mgr[i] # 0 => got[g_sock_mgr[i]] <= sent[g_sock_mgr[i]]
    /\ g_sock[i] > 0 => InPlace(i)

ClientInv == TypeInv /\ SlotsOwned /\ Waiting /\ Queues /\ Channels
-----------------------------------------------------------------------------
(* More ports than slots.                                                  *)

Used == {p \in Ports : sent[p] > 0}

LEMMA Countable ==
  /\ IsFiniteSet(Used) /\ Cardinality(Used) \in Nat
  /\ Crowded <=> Cardinality(Used) > MaxReuse
BY ClientConstants, FS_Subset, FS_CardinalityType DEF Used, Crowded

LEMMA StaysCrowded ==
  ASSUME sent \in [Ports -> Nat], NEW p \in Ports, sent' = [sent EXCEPT ![p] = @ + 1]
  PROVE  Crowded => Crowded'
<1>1. Used \subseteq Used'
  BY DEF Used
<1>2. IsFiniteSet(Used') /\ Cardinality(Used') \in Nat
  BY ClientConstants, FS_Subset, FS_CardinalityType DEF Used
<1>3. Cardinality(Used) <= Cardinality(Used')
  BY <1>1, <1>2, FS_Subset
<1>4. QED  BY <1>2, <1>3, Countable, ClientConstants DEF Used, Crowded

\* A port that finds the table full makes one port more than there are slots.
LEMMA FullIsCrowded ==
  ASSUME TypeInv, SlotsOwned, NEW p \in Ports, Taken(p), sent' = [sent EXCEPT ![p] = @ + 1]
  PROVE  Crowded'
<1> DEFINE Others == Used' \ {p}
           owner == [i \in Slots |-> g_sock_mgr[i]]
<1>1. owner \in Injection(Slots, Others)
  <2>1. \A i \in Slots : g_sock_mgr[i] \in Ports \ {p} /\ sent[g_sock_mgr[i]] > 0
    BY DEF TypeInv, TypeOK, Taken, SlotsOwned
  <2>2. \A i \in Slots : g_sock_mgr[i] \in Others
    BY <2>1 DEF TypeInv, TypeOK, Used
  <2>3. owner \in [Slots -> Others]
    BY <2>2
  <2>4. \A i, j \in Slots : owner[i] = owner[j] => i = j
    <3>1. \A i \in Slots : g_sock_mgr[i] # 0
      BY <2>1, ClientConstants DEF Ports
    <3>2. QED  BY <3>1 DEF SlotsOwned
  <2>5. QED  BY <2>3, <2>4 DEF Injection, IsInjective
<1>2. IsFiniteSet(Used') /\ IsFiniteSet(Others) /\ Cardinality(Used') \in Nat
      /\ Cardinality(Others) = Cardinality(Used') - 1
  <2>1. IsFiniteSet(Used') /\ p \in Used'
    BY ClientConstants, FS_Subset DEF Used, TypeInv, TypeOK
  <2>2. QED  BY <2>1, FS_RemoveElement, FS_CardinalityType
<1>3. Cardinality(Slots) = MaxReuse
  BY ClientConstants, FS_Interval DEF Slots
<1> HIDE DEF owner, Others
<1>4. Cardinality(Slots) <= Cardinality(Others)
  BY <1>1, <1>2, FS_Injection, Zenon
<1>5. QED  BY <1>2, <1>3, <1>4, ClientConstants DEF Used, Crowded
-----------------------------------------------------------------------------
(* A call.                                                                 *)

\* A call of p by way of slot i, from the choice of the slot to sendto.
CallBy(p, i, waits) ==
  /\ call = NoCall /\ calls < MaxCalls /\ calls' = calls + 1
  /\ sent' = [sent EXCEPT ![p] = @ + 1]
  /\ IsIdx(i, p) /\ Claim(i, p) /\ CallIn(p, i, waits)
  /\ UNCHANGED <<inbox, got>>

\* The socket it uses.
SockOf(i) == IF g_sock[i] > 0 THEN g_sock[i] ELSE opened + 1

LEMMA CallIsBy ==
  ASSUME NEW p \in Ports, NEW waits \in BOOLEAN, Call(p, waits)
  PROVE  \E i \in Slots : CallBy(p, i, waits)
BY DEF Call, CallBy

\* The slot of a call: the port's own, a free one that it takes, or slot 0 of a full table.
TakesSlot(p, i) ==
  \/ /\ i = 0 /\ Crowded' /\ \A j \in Slots : g_sock_mgr[j] \notin {p, 0}
     /\ g_sock_mgr' = g_sock_mgr
  \/ g_sock_mgr[i] = p /\ g_sock_mgr' = g_sock_mgr
  \/ /\ g_sock_mgr[i] = 0 /\ g_sock[i] = 0 /\ sent[p] = 0 /\ got[p] = 0
     /\ \A j \in Slots : g_sock_mgr[j] # p
     /\ g_sock_mgr' = [g_sock_mgr EXCEPT ![i] = p]

LEMMA SlotOfCall ==
  ASSUME ClientInv, NEW p \in Ports, NEW i \in Slots, NEW waits \in BOOLEAN,
         CallBy(p, i, waits)
  PROVE  TakesSlot(p, i)
<1> USE DEF ClientInv, CallBy, TakesSlot
<1>1. CASE Taken(p)
  <2>1. Crowded'
    BY <1>1, FullIsCrowded
  <2>2. QED  BY <1>1, <2>1 DEF Taken, IsIdx, Least, Claim
<1>2. CASE ~Taken(p) /\ Least(i, p)
  <2>1. g_sock_mgr' = [g_sock_mgr EXCEPT ![i] = p] /\ g_sock_mgr[i] = p
    BY <1>2 DEF Claim, Least
  <2>2. QED  BY <2>1 DEF TypeInv, TypeOK
<1>3. CASE ~Taken(p) /\ Least(i, 0) /\ \A j \in Slots : g_sock_mgr[j] # p
  <2>1. g_sock_mgr[i] = 0
    BY <1>3 DEF Least
  <2>2. sent[p] = 0
    <3>1. ~(sent[p] > 0)
      BY <1>3, <2>1 DEF SlotsOwned
    <3>2. sent[p] \in Nat
      BY DEF TypeInv, TypeOK
    <3>3. QED  BY <3>1, <3>2
  <2>3. QED  BY <1>3, <2>1, <2>2 DEF Claim, TypeInv, TypeOK, Queues
<1>4. QED  BY <1>1, <1>2, <1>3 DEF IsIdx, Taken

\* The slot's socket is kept or a new one opened; the request goes out, is lost on the way,
\* or nothing is sent and the slot is left closed.
Sends(p, i) ==
  /\ opened' \in {opened, opened + 1}
  /\ SockOf(i) \in Socks
  /\ \/ /\ g_sock' = [g_sock EXCEPT ![i] = SockOf(i)] /\ SockOf(i) <= opened'
        /\ server' \in {server,
             [server EXCEPT ![p] = Append(@, [sock |-> SockOf(i), n |-> sent'[p]])]}
        /\ \/ p \in RecvPorts /\ call' = [port |-> p, sock |-> SockOf(i)] /\ late' = late
           \/ call' = NoCall /\ late' = [late EXCEPT ![SockOf(i)] = @ + 1]
     \/ /\ g_sock' = [g_sock EXCEPT ![i] = -1]
        /\ call' = NoCall /\ UNCHANGED <<server, late>>

LEMMA OutcomeOfCall ==
  ASSUME ClientInv, NEW p \in Ports, NEW i \in Slots, NEW waits \in BOOLEAN,
         CallBy(p, i, waits), waits => p \in RecvPorts
  PROVE  Sends(p, i)
<1> USE DEF Sends
<1> USE DEF ClientInv, CallBy, SockOf
<1>0. opened \in Nat /\ opened < MaxCalls /\ g_sock[i] \in {-1, 0} \cup 1..opened
  BY ClientConstants DEF TypeInv, TypeOK
<1>1. CASE g_sock[i] > 0 /\ SendTo(p, i, g_sock[i], waits) /\ UNCHANGED <<opened, forever>>
  BY <1>0, <1>1, ClientConstants DEF SendTo, SentAndWaits, SentAndGone, Returned,
                                     SockAfterFail, Socks
<1>2. CASE g_sock[i] <= 0 /\ OpenSock(waits) /\ SendTo(p, i, opened', waits)
  BY <1>0, <1>2, ClientConstants
     DEF SendTo, SentAndWaits, SentAndGone, Returned, SockAfterFail, Socks, OpenSock
<1>3. CASE /\ g_sock[i] <= 0 /\ Fault
           /\ g_sock' = [g_sock EXCEPT ![i] = -1]
           /\ Returned /\ UNCHANGED <<opened, forever, server, late>>
  BY <1>0, <1>3, ClientConstants DEF Returned, Socks
<1>4. QED  BY <1>1, <1>2, <1>3 DEF CallIn
LEMMA CallTyped ==
  ASSUME ClientInv, NEW p \in Ports, NEW i \in Slots, NEW waits \in BOOLEAN,
         CallBy(p, i, waits), waits => p \in RecvPorts
  PROVE  TypeInv'
<1> USE DEF ClientInv
<1>a. TakesSlot(p, i) /\ Sends(p, i)
  BY SlotOfCall, OutcomeOfCall
<1>0. /\ opened \in Nat /\ opened <= calls /\ calls < MaxCalls /\ calls \in Nat
      /\ calls' = calls + 1 /\ forever \subseteq 1..opened /\ MaxCalls \in Nat
      /\ sent' = [sent EXCEPT ![p] = @ + 1] /\ UNCHANGED <<inbox, got>>
  BY ClientConstants DEF TypeInv, TypeOK, CallBy
<1>1. opened' \in {opened, opened + 1} /\ SockOf(i) \in Socks
  BY <1>a DEF Sends
<1>2. opened' \in 0..MaxCalls /\ calls' \in 0..MaxCalls /\ opened' <= calls'
  BY <1>0, <1>1
<1>3. g_sock_mgr' \in [Slots -> Ports \cup {0}] /\ g_sock_mgr'[i] # 0
      /\ \A j \in Slots : g_sock_mgr'[j] = 0 => g_sock_mgr[j] = 0
  <2>1. g_sock_mgr \in [Slots -> Ports \cup {0}] /\ 0 \notin Ports
    BY ClientConstants DEF TypeInv, TypeOK, Ports
  <2>2. QED  BY <1>a, <2>1 DEF TakesSlot
<1>4. g_sock' \in [Slots -> {-1, 0} \cup 1..opened']
      /\ \A j \in Slots \ {i} : g_sock'[j] = g_sock[j]
  <2>1. g_sock \in [Slots -> {-1, 0} \cup 1..opened]
    BY DEF TypeInv, TypeOK
  <2>2. g_sock \in [Slots -> {-1, 0} \cup 1..opened']
    BY <1>0, <1>1, <2>1
  <2>3. SockOf(i) <= opened' => SockOf(i) \in 1..opened'
    BY <1>1, <1>0, ClientConstants DEF Socks
  <2>4. QED  BY <1>a, <2>2, <2>3 DEF Sends
<1>5. forever' \subseteq 1..opened' /\ faults' \in 0..MaxFaults
  <2>1. faults \in 0..MaxFaults
    BY DEF TypeInv, TypeOK
  <2>2. QED  BY <1>0, <1>1, <2>1, ClientConstants
             DEF CallBy, CallIn, SendTo, OpenSock, Fault
<1>6. sent' \in [Ports -> Nat] /\ late' \in [Socks -> Nat] /\ got' \in [Ports -> Nat]
  <2>1. sent \in [Ports -> Nat] /\ late \in [Socks -> Nat] /\ got \in [Ports -> Nat]
    BY DEF TypeInv, TypeOK
  <2>2. sent' \in [Ports -> Nat] /\ got' \in [Ports -> Nat]
    BY <1>0, <2>1
  <2>3. late' \in {late, [late EXCEPT ![SockOf(i)] = @ + 1]}
    BY <1>a DEF Sends
  <2>4. QED  BY <1>1, <2>1, <2>2, <2>3
<1>7. inbox' \in [Socks -> Seq(Answers)] /\ server' \in [Ports -> Seq(Requests)]
  <2>1. inbox \in [Socks -> Seq(Answers)] /\ server \in [Ports -> Seq(Requests)]
    BY DEF TypeInv
  <2>2. [sock |-> SockOf(i), n |-> sent'[p]] \in Requests
    BY <1>1, <1>6 DEF Requests
  <2>3. Append(server[p], [sock |-> SockOf(i), n |-> sent'[p]]) \in Seq(Requests)
    BY <2>1, <2>2
  <2>4. QED  BY <1>a, <1>0, <2>1, <2>3 DEF Sends
<1>8. call' \in [port : RecvPorts \cup {0}, sock : 0..opened']
      /\ call'.port \in RecvPorts \cup {0} /\ call'.sock \in 0..opened'
  <2>1. NoCall \in [port : RecvPorts \cup {0}, sock : 0..opened']
    BY <1>2 DEF NoCall
  <2>2. SockOf(i) <= opened' => SockOf(i) \in 0..opened'
    BY <1>1, <1>0, ClientConstants DEF Socks
  <2>3. QED  BY <1>a, <2>1, <2>2 DEF Sends
<1>9. \A j \in Slots : g_sock_mgr'[j] = 0 => g_sock'[j] = 0
  BY <1>3, <1>4 DEF TypeInv, TypeOK
<1>10. TypeOK'
  BY <1>2, <1>3, <1>4, <1>5, <1>6, <1>8, <1>9 DEF TypeOK
<1>11. QED  BY <1>2, <1>7, <1>8, <1>10 DEF TypeInv

LEMMA CallKeepsSlots ==
  ASSUME ClientInv, NEW p \in Ports, NEW i \in Slots, NEW waits \in BOOLEAN,
         CallBy(p, i, waits), waits => p \in RecvPorts
  PROVE  SlotsOwned'
<1> USE DEF ClientInv
<1>a. TakesSlot(p, i) /\ Sends(p, i)
  BY SlotOfCall, OutcomeOfCall
<1>0. /\ sent \in [Ports -> Nat] /\ sent' = [sent EXCEPT ![p] = @ + 1] /\ 0 \notin Ports
      /\ g_sock_mgr \in [Slots -> Ports \cup {0}] /\ opened \in Nat
      /\ g_sock \in [Slots -> {-1, 0} \cup 1..opened]
  BY ClientConstants DEF TypeInv, TypeOK, CallBy, Ports
<1>1. \A j, k \in Slots : g_sock_mgr'[j] # 0 /\ g_sock_mgr'[j] = g_sock_mgr'[k] => j = k
  BY <1>a, <1>0 DEF TakesSlot, SlotsOwned
<1>2. \A j \in Slots : g_sock_mgr'[j] # 0 => sent'[g_sock_mgr'[j]] > 0
  <2>1. \A j \in Slots : g_sock_mgr'[j] \in {g_sock_mgr[j], p}
    BY <1>a, <1>0 DEF TakesSlot
  <2>2. sent'[p] > 0 /\ \A q \in Ports : sent[q] > 0 => sent'[q] > 0
    BY <1>0
  <2>3. QED  BY <1>0, <2>1, <2>2 DEF SlotsOwned
<1>3. \A q \in Ports : sent'[q] > 0 => \/ \E j \in Slots : g_sock_mgr'[j] = q
                                       \/ \A j \in Slots : g_sock_mgr'[j] # 0
  <2>1. \A q \in Ports \ {p} : sent'[q] = sent[q]
    BY <1>0
  <2>2. \A j \in Slots : g_sock_mgr[j] # 0 => g_sock_mgr'[j] = g_sock_mgr[j]
    BY <1>a, <1>0 DEF TakesSlot
  <2>3. \/ g_sock_mgr'[i] = p \/ \A j \in Slots : g_sock_mgr'[j] # 0
    BY <1>a, <1>0 DEF TakesSlot
  <2>4. QED  BY <1>0, <2>1, <2>2, <2>3 DEF SlotsOwned
<1>4. \A j, k \in Slots : g_sock'[j] > 0 /\ g_sock'[j] = g_sock'[k] => j = k
  <2>1. \A j \in Slots \ {i} : g_sock'[j] = g_sock[j]
    BY <1>a, <1>0 DEF Sends
  <2>2. \A j \in Slots \ {i} : g_sock[j] # SockOf(i) \/ g_sock[j] <= 0
    BY <1>0 DEF SlotsOwned, SockOf
  <2>3. g_sock'[i] \in {SockOf(i), -1}
    BY <1>a, <1>0 DEF Sends
  <2>4. QED  BY <1>0, <2>1, <2>2, <2>3 DEF SlotsOwned
<1>5. QED  BY <1>1, <1>2, <1>3, <1>4 DEF SlotsOwned
\* What a call adds to the servers' queues: its own request, at the end of one.
Adds(p, i) ==
  \A q \in Ports : \A m \in 1..Len(server'[q]) :
    \/ m \in 1..Len(server[q]) /\ server'[q][m] = server[q][m]
    \/ /\ q = p /\ m = Len(server[q]) + 1 /\ SockOf(i) <= opened'
       /\ server'[q][m] = [sock |-> SockOf(i), n |-> sent'[p]]
       /\ g_sock' = [g_sock EXCEPT ![i] = SockOf(i)]

LEMMA RequestAdded ==
  ASSUME ClientInv, NEW p \in Ports, NEW i \in Slots, Sends(p, i)
  PROVE  Adds(p, i)
<1> USE DEF Adds
<1> DEFINE r == [sock |-> SockOf(i), n |-> sent'[p]]
<1>1. server \in [Ports -> Seq(Requests)]
  BY DEF ClientInv, TypeInv
<1>2. CASE server' = server
  BY <1>1, <1>2
<1>3. CASE server' = [server EXCEPT ![p] = Append(@, r)] /\ SockOf(i) <= opened'
           /\ g_sock' = [g_sock EXCEPT ![i] = SockOf(i)]
  <2> HIDE DEF r
  <2>1. \A q \in Ports \ {p} : server'[q] = server[q]
    BY <1>1, <1>3
  <2>2. server'[p] = Append(server[p], r) /\ server[p] \in Seq(Requests)
    BY <1>1, <1>3
  <2>3. Len(server'[p]) = Len(server[p]) + 1 /\ Len(server[p]) \in Nat
    BY <2>2
  <2>4. server'[p][Len(server[p]) + 1] = r
        /\ \A m \in 1..Len(server[p]) : server'[p][m] = server[p][m]
    BY <2>2
  <2>5. QED  BY <1>3, <2>1, <2>3, <2>4 DEF r
<1>4. QED  BY <1>2, <1>3 DEF Sends

LEMMA CallKeepsQueues ==
  ASSUME ClientInv, NEW p \in Ports, NEW i \in Slots, NEW waits \in BOOLEAN,
         CallBy(p, i, waits), waits => p \in RecvPorts
  PROVE  Queues' /\ Waiting'
<1> USE DEF ClientInv
<1>a. TakesSlot(p, i) /\ Sends(p, i)
  BY SlotOfCall, OutcomeOfCall
<1>b. Adds(p, i)
  BY <1>a, RequestAdded
<1>0. /\ sent \in [Ports -> Nat] /\ sent' = [sent EXCEPT ![p] = @ + 1]
      /\ opened \in Nat /\ inbox' = inbox /\ got' = got /\ late \in [Socks -> Nat]
      /\ g_sock \in [Slots -> {-1, 0} \cup 1..opened]
      /\ g_sock_mgr \in [Slots -> Ports \cup {0}] /\ 0 \notin Ports
  BY ClientConstants DEF TypeInv, TypeOK, CallBy, Ports
<1>1. opened' \in {opened, opened + 1} /\ SockOf(i) \in Socks /\ SockOf(i) \in Nat \ {0}
  BY <1>a, ClientConstants DEF Sends, Socks
<1>2. \A s \in Socks : s > opened' => inbox'[s] = <<>> /\ late'[s] = 0
  <2>1. \A s \in Socks : s > opened' => s > opened
    BY <1>0, <1>1, ClientConstants DEF Socks
  <2>2. \A s \in Socks : late'[s] = late[s] \/ (s = SockOf(i) /\ SockOf(i) <= opened')
    BY <1>a, <1>0, <1>1 DEF Sends
  <2>3. QED  BY <1>0, <1>1, <2>1, <2>2, ClientConstants DEF Queues, Socks
<1>3. \A q \in Ports : sent[q] <= sent'[q] /\ (sent'[q] = 0 => got'[q] = 0)
  BY <1>0 DEF Queues
<1>4. ASSUME NEW q \in Ports, NEW m \in 1..Len(server'[q])
      PROVE  /\ server'[q][m].sock <= opened' /\ server'[q][m].n <= sent'[q]
             /\ \A k \in 1..m - 1 : server'[q][k].n < server'[q][m].n
  <2>0. /\ server[q] \in Seq(Requests) /\ server'[q] \in Seq(Requests)
        /\ Len(server[q]) \in Nat /\ Len(server'[q]) \in Nat
        /\ sent[q] \in Nat /\ sent'[q] \in Nat /\ sent[q] <= sent'[q]
    BY <1>0, <1>3, CallTyped DEF TypeInv
  <2>1. \A k \in 1..m - 1 :
          k \in 1..Len(server[q]) /\ server'[q][k] = server[q][k]
    <3> SUFFICES ASSUME NEW k \in 1..m - 1
                 PROVE  k \in 1..Len(server[q]) /\ server'[q][k] = server[q][k]
      OBVIOUS
    <3>1. k \in 1..Len(server'[q]) /\ k < m
      BY <2>0
    <3>2. m <= Len(server[q]) + 1
      BY <1>b, <2>0 DEF Adds
    <3>3. k # Len(server[q]) + 1
      BY <2>0, <3>1, <3>2
    <3>4. QED  BY <1>b, <3>1, <3>3 DEF Adds
  <2>2. \A k \in 1..Len(server[q]) : server[q][k].sock \in Nat /\ server[q][k].n \in Nat
    <3>1. \A r \in Requests : r.sock \in Nat /\ r.n \in Nat
      BY ClientConstants DEF Requests, Socks
    <3>2. QED  BY <2>0, <3>1
  <2>3. CASE m \in 1..Len(server[q]) /\ server'[q][m] = server[q][m]
    <3>1. server[q][m].sock <= opened /\ server[q][m].n <= sent[q]
          /\ \A k \in 1..m - 1 : server[q][k].n < server[q][m].n
      BY <2>3 DEF Queues
    <3>2. \A k \in 1..m - 1 : server'[q][k].n < server'[q][m].n
      BY <2>1, <2>3, <3>1
    <3>3. server'[q][m].sock <= opened' /\ server'[q][m].n <= sent'[q]
      BY <1>0, <1>1, <2>0, <2>2, <2>3, <3>1
    <3>4. QED  BY <3>2, <3>3
  <2>4. CASE /\ q = p /\ m = Len(server[q]) + 1 /\ SockOf(i) <= opened'
             /\ server'[q][m] = [sock |-> SockOf(i), n |-> sent'[p]]
    <3>1. \A k \in 1..m - 1 : server'[q][k].n <= sent[q] /\ server'[q][k].n \in Nat
      BY <2>1, <2>2 DEF Queues
    <3>2. server'[q][m].n = sent[q] + 1 /\ server'[q][m].n = sent'[q]
          /\ server'[q][m].sock <= opened'
      BY <1>0, <2>4
    <3>3. \A k \in 1..m - 1 : server'[q][k].n < server'[q][m].n
      BY <2>0, <3>1, <3>2
    <3>4. QED  BY <2>0, <3>2, <3>3
  <2>5. QED  BY <1>b, <1>4, <2>3, <2>4 DEF Adds
<1>5. Queues'
  BY <1>2, <1>3, <1>4 DEF Queues
<1>6. Waiting'
  <2>1. CASE call' = NoCall
    BY <2>1 DEF Waiting
  <2>2. CASE /\ g_sock' = [g_sock EXCEPT ![i] = SockOf(i)] /\ p \in RecvPorts
             /\ call' = [port |-> p, sock |-> SockOf(i)]
    <3>1. g_sock'[i] > 0 /\ call'.sock = g_sock'[i] /\ call'.port = p
      BY <1>0, <1>1, <2>2
    <3>2. sent'[p] > 0 /\ p # 0
      BY <1>0
    <3>3. \/ g_sock_mgr'[i] = p
          \/ i = 0 /\ Crowded' /\ \A j \in Slots : g_sock_mgr'[j] # p
      BY <1>a, <1>0 DEF TakesSlot
    <3>4. QED  BY <3>1, <3>2, <3>3 DEF Waiting
  <2>3. QED  BY <1>a, <2>1, <2>2 DEF Sends
<1>7. QED  BY <1>5, <1>6
LEMMA Numbers ==
  ASSUME TypeInv
  PROVE  /\ \A s \in Socks : /\ Len(inbox[s]) \in Nat
                             /\ \A k \in 1..Len(inbox[s]) : inbox[s][k].n \in Nat
         /\ \A q \in Ports : /\ Len(server[q]) \in Nat
                             /\ \A m \in 1..Len(server[q]) : /\ server[q][m].n \in Nat
                                                             /\ server[q][m].sock \in Socks
<1>1. \A a \in Answers : a.n \in Nat
  BY DEF Answers
<1>2. \A r \in Requests : r.n \in Nat /\ r.sock \in Socks
  BY DEF Requests
<1>3. QED  BY <1>1, <1>2 DEF TypeInv

LEMMA OpenSocks ==
  ASSUME TypeInv
  PROVE  \A i \in Slots : g_sock[i] > 0 =>
           g_sock[i] \in Socks /\ g_sock[i] <= opened /\ g_sock_mgr[i] \in Ports
<1>1. /\ opened \in 0..MaxCalls /\ MaxCalls \in Nat
      /\ \A i \in Slots : g_sock[i] \in {-1, 0} \cup 1..opened
      /\ \A i \in Slots : g_sock_mgr[i] \in Ports \cup {0}
      /\ \A i \in Slots : g_sock_mgr[i] = 0 => g_sock[i] = 0
  BY ClientConstants DEF TypeInv, TypeOK
<1>2. QED  BY <1>1 DEF Socks

\* A call adds at most its own request, which is younger than all there is.
LEMMA PlacedAtCall ==
  ASSUME TypeInv, NEW p \in Ports, NEW s \in Socks, NEW lo \in Int, Placed(p, s, lo),
         UNCHANGED <<inbox, got>>, sent'[p] \in Nat, sent[p] <= sent'[p],
         \A q \in Ports : \A m \in 1..Len(server'[q]) : server'[q][m].sock = s =>
           \/ m \in 1..Len(server[q]) /\ server'[q][m] = server[q][m]
           \/ /\ q = p /\ server'[q][m].n = sent'[p]
              /\ lo <= sent'[p] /\ got[p] <= sent[p] /\ sent[p] < sent'[p]
  PROVE  Placed(p, s, lo)'
<1>0. sent[p] \in Nat /\ got[p] \in Nat
  BY DEF TypeInv, TypeOK
<1>1. \A k \in 1..Len(inbox[s]) : inbox[s][k].n \in Nat /\ inbox[s][k].n <= sent'[p]
  BY <1>0, Numbers DEF Placed
<1>2. ASSUME NEW q \in Ports, NEW m \in 1..Len(server'[q]), server'[q][m].sock = s
      PROVE  /\ q = p /\ lo <= server'[q][m].n /\ got[p] < server'[q][m].n
             /\ \A k \in 1..Len(inbox[s]) : inbox[s][k].n < server'[q][m].n
  <2>1. CASE m \in 1..Len(server[q]) /\ server'[q][m] = server[q][m]
    BY <1>2, <2>1 DEF Placed
  <2>2. CASE /\ q = p /\ server'[q][m].n = sent'[p]
             /\ lo <= sent'[p] /\ got[p] <= sent[p] /\ sent[p] < sent'[p]
    <3>1. \A k \in 1..Len(inbox[s]) : inbox[s][k].n <= sent[p]
      BY DEF Placed
    <3>2. QED  BY <1>0, <1>1, <2>2, <3>1
  <2>3. QED  BY <1>2, <2>1, <2>2
<1>3. /\ \A k \in 1..Len(inbox'[s]) :
           /\ inbox'[s][k].port = p
           /\ lo <= inbox'[s][k].n /\ inbox'[s][k].n <= sent'[p] /\ got'[p] < inbox'[s][k].n
           /\ \A m \in 1..k - 1 : inbox'[s][m].n < inbox'[s][k].n
  BY <1>1 DEF Placed
<1>4. QED  BY <1>2, <1>3 DEF Placed

\* A slot the call does not use keeps its port, socket and answers.
LEMMA CallLeavesOthers ==
  ASSUME ClientInv, NEW p \in Ports, NEW i \in Slots, NEW waits \in BOOLEAN,
         CallBy(p, i, waits), waits => p \in RecvPorts,
         NEW j \in Slots \ {i}, Own(j)
  PROVE  /\ g_sock_mgr'[j] # 0 => got'[g_sock_mgr'[j]] <= sent'[g_sock_mgr'[j]]
         /\ g_sock'[j] > 0 => InPlace(j)'
<1> USE DEF ClientInv
<1>a. TakesSlot(p, i) /\ Sends(p, i)
  BY SlotOfCall, OutcomeOfCall
<1>b. Adds(p, i)
  BY <1>a, RequestAdded
<1>0. /\ sent \in [Ports -> Nat] /\ sent' = [sent EXCEPT ![p] = @ + 1]
      /\ inbox' = inbox /\ got' = got /\ late \in [Socks -> Nat] /\ call = NoCall
      /\ g_sock \in [Slots -> {-1, 0} \cup 1..opened] /\ opened \in Nat
      /\ g_sock_mgr \in [Slots -> Ports \cup {0}] /\ 0 \notin Ports
      /\ \A k \in Slots : g_sock_mgr[k] = 0 => g_sock[k] = 0
  BY ClientConstants DEF TypeInv, TypeOK, CallBy, Ports
<1>1. g_sock_mgr'[j] = g_sock_mgr[j] /\ g_sock'[j] = g_sock[j]
  BY <1>a, <1>0 DEF TakesSlot, Sends
<1>2. g_sock_mgr[j] # 0 => g_sock_mgr[j] # p
  BY <1>a, <1>0 DEF TakesSlot, SlotsOwned
<1>3. g_sock_mgr[j] # 0 => g_sock_mgr[j] \in Ports /\ sent'[g_sock_mgr[j]] = sent[g_sock_mgr[j]]
  BY <1>0, <1>2
<1>4. g_sock_mgr'[j] # 0 => got'[g_sock_mgr'[j]] <= sent'[g_sock_mgr'[j]]
  BY <1>0, <1>1, <1>3 DEF Channels
<1>5. ASSUME g_sock'[j] > 0 PROVE InPlace(j)'
  <2>0. g_sock[j] > 0 /\ g_sock_mgr[j] \in Ports /\ InPlace(j)
    BY <1>0, <1>1, <1>5 DEF Channels
  <2>1. PICK s \in Socks, o \in Ports : s = g_sock[j] /\ o = g_sock_mgr[j]
    BY <2>0, OpenSocks
  <2>2. s # SockOf(i) /\ o # p /\ s > 0
    BY <1>0, <1>2, <2>0, <2>1 DEF SockOf, SlotsOwned
  <2>3. late'[s] = late[s] /\ call.sock # s /\ call'.sock # s
    <3>1. late'[s] = late[s]
      BY <1>a, <1>0, <2>2 DEF Sends
    <3>2. call'.sock \in {0, SockOf(i)} /\ call.sock = 0
      BY <1>a, <1>0 DEF Sends, NoCall
    <3>3. QED  BY <2>2, <3>1, <3>2
  <2>4. PICK lo \in Int : lo = Oldest(j)
    BY <1>0, <2>1, <2>3 DEF Oldest
  <2>5. lo = Oldest(j)'
    BY <1>0, <1>1, <2>1, <2>2, <2>3, <2>4 DEF Oldest
  <2>6. \A q \in Ports : \A m \in 1..Len(server'[q]) :
          server'[q][m].sock = s => /\ m \in 1..Len(server[q])
                                    /\ server'[q][m] = server[q][m]
    BY <1>b, <2>2 DEF Adds
  <2>7. Placed(o, s, lo)
    BY <2>0, <2>1, <2>4 DEF InPlace
  <2>8. sent'[o] \in Nat /\ sent[o] <= sent'[o]
    BY <1>0, <2>2
  <2>9. Placed(o, s, lo)'
    BY <1>0, <2>6, <2>7, <2>8, PlacedAtCall
  <2>10. QED  BY <1>1, <2>1, <2>5, <2>9 DEF InPlace
<1>6. QED  BY <1>4, <1>5

\* A slot that is the port's own takes the request behind those already there.
LEMMA CallKeepsOwn ==
  ASSUME ClientInv, NEW p \in Ports, NEW i \in Slots, NEW waits \in BOOLEAN,
         CallBy(p, i, waits), waits => p \in RecvPorts,
         Own(i)'
  PROVE  /\ g_sock_mgr'[i] # 0 => got'[g_sock_mgr'[i]] <= sent'[g_sock_mgr'[i]]
         /\ g_sock'[i] > 0 => InPlace(i)'
<1> USE DEF ClientInv
<1>a. TakesSlot(p, i) /\ Sends(p, i)
  BY SlotOfCall, OutcomeOfCall
<1>b. Adds(p, i)
  BY <1>a, RequestAdded
<1>0. /\ sent \in [Ports -> Nat] /\ sent' = [sent EXCEPT ![p] = @ + 1]
      /\ got \in [Ports -> Nat]
      /\ inbox' = inbox /\ got' = got /\ late \in [Socks -> Nat] /\ call = NoCall
      /\ g_sock \in [Slots -> {-1, 0} \cup 1..opened] /\ opened \in Nat
      /\ g_sock_mgr \in [Slots -> Ports \cup {0}] /\ 0 \notin Ports
  BY ClientConstants DEF TypeInv, TypeOK, CallBy, Ports
<1>1. Own(i)
  BY <1>0, StaysCrowded DEF Own
<1>2. /\ g_sock_mgr'[i] = p
      /\ \/ g_sock_mgr[i] = p
         \/ g_sock_mgr[i] = 0 /\ g_sock[i] = 0 /\ sent[p] = 0 /\ got[p] = 0
  BY <1>a, <1>0 DEF TakesSlot, Own
<1>3. got[p] <= sent[p] /\ sent'[p] = sent[p] + 1
  BY <1>0, <1>1, <1>2 DEF Channels
<1>4. ASSUME g_sock'[i] > 0 PROVE InPlace(i)'
  <2>0. /\ g_sock'[i] = SockOf(i) /\ SockOf(i) \in Socks
        /\ \/ call'.sock = SockOf(i) /\ late' = late
           \/ call'.sock = 0 /\ late'[SockOf(i)] = late[SockOf(i)] + 1
    BY <1>a, <1>0, <1>4 DEF Sends, NoCall
  <2>1. PICK s \in Socks : s = SockOf(i) /\ s > 0
    BY <2>0, ClientConstants DEF Socks
  <2>2. late[s] \in Nat /\ sent[p] \in Nat /\ sent'[p] \in Nat
    BY <1>0, <1>3
  <2>3. PICK lo \in Int : lo = sent[p] - late[s] + 1
    BY <2>2
  <2>4. lo = Oldest(i)' /\ lo <= sent'[p]
    BY <1>2, <1>3, <2>0, <2>1, <2>2, <2>3 DEF Oldest
  <2>5. Placed(p, s, lo)
    <3>1. CASE g_sock[i] > 0
      <4>1. s = g_sock[i] /\ InPlace(i) /\ g_sock_mgr[i] = p
        BY <1>0, <1>1, <1>2, <2>1, <3>1 DEF Channels, SockOf
      <4>2. Oldest(i) = lo
        BY <1>0, <2>1, <2>2, <2>3, <4>1 DEF Oldest, NoCall
      <4>3. QED  BY <4>1, <4>2 DEF InPlace
    <3>2. CASE g_sock[i] <= 0
      <4>1. s = opened + 1
        BY <1>0, <2>1, <3>2 DEF SockOf
      <4>2. inbox[s] = <<>>
        BY <1>0, <4>1 DEF Queues
      <4>3. \A q \in Ports : \A m \in 1..Len(server[q]) : server[q][m].sock # s
        <5>1. \A q \in Ports : \A m \in 1..Len(server[q]) : server[q][m].sock <= opened
          BY DEF Queues
        <5>2. ~(s <= opened)
          BY <1>0, <4>1
        <5>3. QED  BY <5>1, <5>2
      <4>4. QED  BY <4>2, <4>3 DEF Placed
    <3>3. QED  BY <1>0, <3>1, <3>2
  <2>6. \A q \in Ports : \A m \in 1..Len(server'[q]) :
          \/ m \in 1..Len(server[q]) /\ server'[q][m] = server[q][m]
          \/ q = p /\ server'[q][m].n = sent'[p]
    BY <1>b DEF Adds
  <2>7. sent[p] < sent'[p] /\ sent[p] <= sent'[p]
    BY <1>3, <2>2
  <2>8. Placed(p, s, lo)'
    BY <1>0, <1>3, <2>2, <2>4, <2>5, <2>6, <2>7, PlacedAtCall
  <2>9. QED  BY <1>2, <2>0, <2>1, <2>4, <2>8 DEF InPlace
<1>5. QED  BY <1>0, <1>2, <1>3, <1>4

LEMMA CallKeeps ==
  ASSUME ClientInv, NEW p \in Ports, NEW waits \in BOOLEAN, Call(p, waits),
  waits => p \in RecvPorts
  PROVE  ClientInv'
<1>1. PICK i \in Slots : CallBy(p, i, waits)
  BY CallIsBy
<1>2. \A j \in Slots : Own(j)' => Own(j)
  <2>1. sent \in [Ports -> Nat] /\ sent' = [sent EXCEPT ![p] = @ + 1]
    BY <1>1 DEF CallBy, ClientInv, TypeInv, TypeOK
  <2>2. QED  BY <2>1, StaysCrowded DEF Own
<1>3. Channels'
  <2>1. ASSUME NEW j \in Slots, Own(j)'
        PROVE  /\ g_sock_mgr'[j] # 0 => got'[g_sock_mgr'[j]] <= sent'[g_sock_mgr'[j]]
               /\ g_sock'[j] > 0 => InPlace(j)'
    <3>1. CASE j = i
      BY <1>1, <2>1, <3>1, CallKeepsOwn
    <3>2. CASE j # i
      BY <1>1, <1>2, <2>1, <3>2, CallLeavesOthers
    <3>3. QED  BY <3>1, <3>2
  <2>2. QED  BY <2>1 DEF Channels
<1>4. QED  BY <1>1, <1>3, CallTyped, CallKeepsSlots, CallKeepsQueues DEF ClientInv
-----------------------------------------------------------------------------
(* The end of a call, and the servers.                                     *)

\* A call waits at one slot; if that is no other port's, it is its own.
LEMMA SlotOfWait ==
  ASSUME ClientInv, call # NoCall
  PROVE  /\ call.port \in Ports /\ call.sock \in Socks /\ call.sock <= opened /\ call.sock > 0
         /\ sent[call.port] > 0
         /\ \A j \in Slots : Own(j) =>
              /\ g_sock[j] = call.sock => g_sock_mgr[j] = call.port
              /\ g_sock_mgr[j] = call.port => g_sock[j] = call.sock
<1> USE DEF ClientInv
<1>1. PICK i \in Slots :
        /\ g_sock[i] > 0 /\ call.sock = g_sock[i]
        /\ \/ g_sock_mgr[i] = call.port
           \/ i = 0 /\ Crowded /\ \A j \in Slots : g_sock_mgr[j] # call.port
  BY DEF Waiting
<1>2. call.port \in Ports /\ sent[call.port] > 0
  BY DEF Waiting, TypeInv, TypeOK, Ports
<1>3. opened \in 0..MaxCalls /\ MaxCalls \in Nat /\ g_sock[i] \in {-1, 0} \cup 1..opened
  BY ClientConstants DEF TypeInv, TypeOK
<1>4. call.sock \in Socks /\ call.sock <= opened /\ call.sock > 0
  BY <1>1, <1>3 DEF Socks
<1>5. ASSUME NEW j \in Slots, Own(j)
      PROVE  /\ g_sock[j] = call.sock => g_sock_mgr[j] = call.port
             /\ g_sock_mgr[j] = call.port => g_sock[j] = call.sock
  <2>1. g_sock[j] = call.sock => j = i
    BY <1>1 DEF SlotsOwned
  <2>2. g_sock_mgr[j] = call.port => j = i
    BY <1>1, <1>2, ClientConstants DEF SlotsOwned, Ports
  <2>3. QED  BY <1>1, <1>5, <2>1, <2>2 DEF Own
<1>6. QED  BY <1>2, <1>4, <1>5

LEMMA TimeoutKeeps == ASSUME ClientInv, RecvTimeout PROVE ClientInv'
<1> USE DEF ClientInv
<1>0. /\ call # NoCall /\ call' = NoCall /\ late' = [late EXCEPT ![call.sock] = @ + 1]
      /\ UNCHANGED <<g_sock_mgr, g_sock, opened, forever, inbox, server, calls, sent, got,
                     faults>>
  BY DEF RecvTimeout, SentAndGone, Returned, sockVars
<1>1. /\ call.sock \in Socks /\ call.sock <= opened /\ late \in [Socks -> Nat]
      /\ opened \in Nat /\ sent \in [Ports -> Nat] /\ call.sock > 0
  BY <1>0, SlotOfWait DEF TypeInv, TypeOK
<1>2. TypeInv'
  <2>1. late' \in [Socks -> Nat]
    BY <1>0, <1>1
  <2>2. NoCall \in [port : RecvPorts \cup {0}, sock : 0..opened]
        /\ NoCall.port \in RecvPorts \cup {0} /\ NoCall.sock \in 0..opened
    BY <1>1 DEF NoCall
  <2>3. QED  BY <1>0, <2>1, <2>2 DEF TypeInv, TypeOK
<1>3. SlotsOwned' /\ Waiting'
  BY <1>0 DEF SlotsOwned, Waiting
<1>4. Queues'
  BY <1>0, <1>1, ClientConstants DEF Queues, Socks
<1>5. ASSUME NEW i \in Slots, Own(i)', g_sock'[i] > 0 PROVE InPlace(i)'
  <2>1. Own(i) /\ g_sock[i] > 0 /\ InPlace(i)
    BY <1>0, <1>5 DEF Own, Crowded, Channels
  <2>2. g_sock_mgr[i] \in Ports /\ g_sock[i] \in Socks
    BY <2>1, OpenSocks
  <2>3. Oldest(i)' = Oldest(i)
    BY <1>0, <1>1, <2>1, <2>2 DEF Oldest, NoCall
  <2>4. QED  BY <1>0, <2>1, <2>3 DEF InPlace, Placed
<1>6. Channels'
  <2>1. \A i \in Slots : Own(i)' => Own(i)
    BY <1>0 DEF Own, Crowded
  <2>2. QED  BY <1>0, <1>5, <2>1 DEF Channels
<1>7. QED  BY <1>2, <1>3, <1>4, <1>6

\* The call reads the head of what waits at its own socket; other slots are as they were.
LEMMA AnswerKeeps == ASSUME ClientInv, RecvAnswer PROVE ClientInv'
<1> USE DEF ClientInv
<1>0. /\ call # NoCall /\ call' = NoCall /\ inbox[call.sock] # <<>>
      /\ got' = [got EXCEPT ![call.port] = Head(inbox[call.sock]).n]
      /\ inbox' = [inbox EXCEPT ![call.sock] = Tail(@)]
      /\ UNCHANGED <<g_sock_mgr, g_sock, opened, forever, server, calls, sent, late,
                     faults>>
  BY DEF RecvAnswer, Returned, sockVars
<1>1. /\ call.port \in Ports /\ call.sock \in Socks /\ call.sock <= opened /\ call.sock > 0
      /\ sent[call.port] > 0 /\ late \in [Socks -> Nat]
      /\ opened \in Nat /\ sent \in [Ports -> Nat] /\ got \in [Ports -> Nat]
      /\ inbox \in [Socks -> Seq(Answers)]
  BY <1>0, SlotOfWait DEF TypeInv, TypeOK
<1>2. PICK box \in Seq(Answers) : box = inbox[call.sock]
  BY <1>1
<1>3. /\ Len(box) \in Nat \ {0} /\ Tail(box) \in Seq(Answers) /\ Len(Tail(box)) = Len(box) - 1
      /\ Head(box) = box[1] /\ \A k \in 1..Len(box) - 1 : Tail(box)[k] = box[k + 1]
      /\ \A k \in 1..Len(box) : box[k] \in Answers
  BY <1>0, <1>2
<1>4. got'[call.port] = box[1].n /\ box[1].n \in Nat
      /\ \A q \in Ports \ {call.port} : got'[q] = got[q]
  BY <1>0, <1>1, <1>2, <1>3 DEF Answers
<1>5. TypeInv'
  <2>1. inbox' \in [Socks -> Seq(Answers)] /\ got' \in [Ports -> Nat]
    BY <1>0, <1>1, <1>2, <1>3, <1>4
  <2>2. NoCall \in [port : RecvPorts \cup {0}, sock : 0..opened]
        /\ NoCall.port \in RecvPorts \cup {0} /\ NoCall.sock \in 0..opened
    BY <1>1 DEF NoCall
  <2>3. QED  BY <1>0, <2>1, <2>2 DEF TypeInv, TypeOK
<1>6. SlotsOwned' /\ Waiting'
  BY <1>0 DEF SlotsOwned, Waiting
<1>7. Queues'
  <2>1. \A s \in Socks : s > opened => inbox'[s] = <<>> /\ late'[s] = 0
    BY <1>0, <1>1, ClientConstants DEF Queues, Socks
  <2>2. \A q \in Ports : sent'[q] = 0 => got'[q] = 0
    BY <1>0, <1>1, <1>4 DEF Queues
  <2>3. QED  BY <1>0, <2>1, <2>2 DEF Queues
<1>8. ASSUME NEW i \in Slots, Own(i)
      PROVE  /\ g_sock_mgr'[i] # 0 => got'[g_sock_mgr'[i]] <= sent'[g_sock_mgr'[i]]
             /\ g_sock'[i] > 0 => InPlace(i)'
  <2>0. /\ g_sock[i] = call.sock => g_sock_mgr[i] = call.port
        /\ g_sock_mgr[i] = call.port => g_sock[i] = call.sock
        /\ g_sock_mgr[i] # 0 => got[g_sock_mgr[i]] <= sent[g_sock_mgr[i]]
        /\ g_sock[i] > 0 => InPlace(i) /\ g_sock_mgr[i] # 0
        /\ g_sock_mgr[i] \in Ports \cup {0}
    BY <1>0, <1>8, SlotOfWait DEF Channels, TypeInv, TypeOK
  <2>1. CASE g_sock[i] = call.sock
    <3>1. PICK p \in Ports, s \in Socks : p = call.port /\ s = call.sock
      BY <1>1
    <3>2. PICK lo \in Int : lo = Oldest(i) /\ lo = sent[p] - late[s]
      <4>1. g_sock_mgr[i] = p /\ g_sock[i] = s /\ call.sock = g_sock[i]
        BY <2>0, <2>1, <3>1
      <4>2. sent[p] \in Nat /\ late[s] \in Nat
        BY <1>1
      <4>3. Oldest(i) = sent[p] - late[s] /\ sent[p] - late[s] \in Int
        BY <4>1, <4>2 DEF Oldest
      <4>4. QED  BY <4>3
    <3>3. Oldest(i)' = lo + 1
      BY <1>0, <1>1, <2>0, <2>1, <3>1, <3>2 DEF Oldest, NoCall
    <3>4. Placed(p, s, lo)
      BY <1>1, <2>0, <2>1, <3>1, <3>2 DEF InPlace
    <3>5. /\ inbox[s] = box /\ inbox'[s] = Tail(box)
          /\ got'[p] = box[1].n /\ box[1].n <= sent[p] /\ lo <= box[1].n
      BY <1>0, <1>1, <1>2, <1>3, <1>4, <3>1, <3>4 DEF Placed
    <3>6. ASSUME NEW k \in 1..Len(Tail(box))
          PROVE  /\ Tail(box)[k].port = p
                 /\ lo + 1 <= Tail(box)[k].n /\ Tail(box)[k].n <= sent[p]
                 /\ box[1].n < Tail(box)[k].n
                 /\ \A m \in 1..k - 1 : Tail(box)[m].n < Tail(box)[k].n
      <4>1. k + 1 \in 1..Len(box) /\ 1 \in 1..(k + 1) - 1 /\ Tail(box)[k] = box[k + 1]
        BY <1>3
      <4>2. /\ box[k + 1].port = p /\ box[k + 1].n <= sent[p]
            /\ \A m \in 1..(k + 1) - 1 : box[m].n < box[k + 1].n
        BY <3>4, <3>5, <4>1 DEF Placed
      <4>3. \A m \in 1..k - 1 : m + 1 \in 1..(k + 1) - 1 /\ Tail(box)[m] = box[m + 1]
        BY <1>3
      <4>4. box[k + 1].n \in Nat
        BY <1>3, <4>1 DEF Answers
      <4>5. QED  BY <1>4, <3>5, <4>1, <4>2, <4>3, <4>4
    <3>7. ASSUME NEW q \in Ports, NEW m \in 1..Len(server[q]), server[q][m].sock = s
          PROVE  /\ q = p /\ lo + 1 <= server[q][m].n /\ box[1].n < server[q][m].n
                 /\ \A k \in 1..Len(Tail(box)) : Tail(box)[k].n < server[q][m].n
      <4>1. q = p /\ \A k \in 1..Len(box) : box[k].n < server[q][m].n
        BY <3>4, <3>5, <3>7 DEF Placed
      <4>2. server[q][m].n \in Nat
        BY Numbers
      <4>3. \A k \in 1..Len(Tail(box)) : k + 1 \in 1..Len(box) /\ Tail(box)[k] = box[k + 1]
        BY <1>3
      <4>4. QED  BY <1>3, <1>4, <3>5, <4>1, <4>2, <4>3
    <3>8. Placed(p, s, lo + 1)'
      BY <1>0, <3>5, <3>6, <3>7 DEF Placed
    <3>9. g_sock_mgr'[i] = p /\ g_sock'[i] = s
      BY <1>0, <2>0, <2>1, <3>1
    <3>10. QED  BY <1>0, <3>3, <3>5, <3>8, <3>9 DEF InPlace
  <2>2. CASE g_sock[i] # call.sock
    <3>1. g_sock_mgr[i] # call.port
      BY <2>0, <2>2
    <3>2. g_sock_mgr[i] # 0 => got'[g_sock_mgr[i]] = got[g_sock_mgr[i]]
      BY <1>4, <2>0, <3>1
    <3>3. ASSUME g_sock[i] > 0 PROVE InPlace(i)'
      <4>1. Oldest(i)' = Oldest(i)
        BY <1>0, <2>2, <3>3 DEF Oldest, NoCall
      <4>2. inbox'[g_sock[i]] = inbox[g_sock[i]]
        <5>1. g_sock[i] \in Socks
          BY <3>3, OpenSocks
        <5>2. QED  BY <1>0, <1>1, <2>2, <5>1
      <4>3. QED  BY <1>0, <2>0, <3>2, <3>3, <4>1, <4>2 DEF InPlace, Placed
    <3>4. QED  BY <1>0, <2>0, <3>2, <3>3
  <2>3. QED  BY <2>1, <2>2
<1>9. Channels'
  <2>1. \A i \in Slots : Own(i)' => Own(i)
    BY <1>0 DEF Own, Crowded
  <2>2. QED  BY <1>8, <2>1 DEF Channels
<1>10. QED  BY <1>5, <1>6, <1>7, <1>9

\* A server takes the oldest request of its port.
LEMMA ServeKeeps == ASSUME ClientInv, NEW p \in Ports, Serve(p) PROVE ClientInv'
<1> USE DEF ClientInv
<1>0. /\ server[p] # <<>> /\ server' = [server EXCEPT ![p] = Tail(@)]
      /\ \/ UNCHANGED inbox
         \/ /\ Open(Head(server[p]).sock)
            /\ inbox' = [inbox EXCEPT ![Head(server[p]).sock] =
                           Append(@, [port |-> p, n |-> Head(server[p]).n])]
      /\ UNCHANGED <<g_sock_mgr, g_sock, opened, forever, call, calls, sent, late, got>>
  BY DEF Serve, ServerAfter, sockVars
<1>1. faults' \in 0..MaxFaults
  BY ClientConstants DEF Serve, Fault, TypeInv, TypeOK
<1>2. /\ server \in [Ports -> Seq(Requests)] /\ inbox \in [Socks -> Seq(Answers)]
      /\ sent \in [Ports -> Nat] /\ opened \in Nat
  BY DEF TypeInv, TypeOK
<1>3. PICK queue \in Seq(Requests) : queue = server[p]
  BY <1>2
<1>4. /\ Len(queue) \in Nat \ {0} /\ Tail(queue) \in Seq(Requests)
      /\ Len(Tail(queue)) = Len(queue) - 1 /\ Head(queue) = queue[1]
      /\ \A k \in 1..Len(queue) - 1 : Tail(queue)[k] = queue[k + 1]
      /\ \A k \in 1..Len(queue) : queue[k] \in Requests
  BY <1>0, <1>3
<1>5. PICK r \in Requests : r = queue[1]
  BY <1>4
<1>6. r.n \in Nat /\ r.sock \in Socks /\ r.n <= sent[p] /\ r.sock <= opened
      /\ \A k \in 2..Len(queue) : r.n < queue[k].n
  <2>1. r.n \in Nat /\ r.sock \in Socks
    BY DEF Requests
  <2>2. 1 \in 1..Len(queue) /\ \A k \in 2..Len(queue) : k \in 1..Len(queue) /\ 1 \in 1..k - 1
    BY <1>4
  <2>3. QED  BY <1>3, <1>5, <2>1, <2>2 DEF Queues
<1>7. \A q \in Ports : \A m \in 1..Len(server'[q]) :
        \/ q # p /\ m \in 1..Len(server[q]) /\ server'[q][m] = server[q][m]
        \/ /\ q = p /\ m + 1 \in 2..Len(queue) /\ m + 1 \in 1..Len(server[q])
           /\ server'[q][m] = queue[m + 1] /\ queue[m + 1] = server[q][m + 1]
  <2>1. server'[p] = Tail(queue) /\ \A q \in Ports \ {p} : server'[q] = server[q]
    BY <1>0, <1>2, <1>3
  <2>2. \A m \in 1..Len(Tail(queue)) : /\ m + 1 \in 2..Len(queue) /\ m + 1 \in 1..Len(queue)
                                       /\ Tail(queue)[m] = queue[m + 1]
    BY <1>4
  <2>3. QED  BY <1>3, <2>1, <2>2
<1>8. \/ UNCHANGED inbox
      \/ /\ \E j \in Slots : g_sock[j] = r.sock
         /\ inbox' = [inbox EXCEPT ![r.sock] = Append(@, [port |-> p, n |-> r.n])]
  BY <1>0, <1>3, <1>4, <1>5 DEF Open
<1>9. TypeInv'
  <2>1. server' \in [Ports -> Seq(Requests)]
    BY <1>0, <1>2, <1>3, <1>4
  <2>2. [port |-> p, n |-> r.n] \in Answers
    BY <1>6 DEF Answers
  <2>3. inbox' \in [Socks -> Seq(Answers)]
    <3>1. Append(inbox[r.sock], [port |-> p, n |-> r.n]) \in Seq(Answers)
      BY <1>2, <1>6, <2>2
    <3>2. QED  BY <1>2, <1>8, <3>1
  <2>4. QED  BY <1>0, <1>1, <2>1, <2>3 DEF TypeInv, TypeOK
<1>10. SlotsOwned' /\ Waiting'
  BY <1>0 DEF SlotsOwned, Waiting, Crowded
<1>11. Queues'
  <2>1. \A s \in Socks : s > opened => inbox'[s] = <<>> /\ late'[s] = 0
    <3>1. \A s \in Socks : s > opened => s # r.sock
      BY <1>2, <1>6, ClientConstants DEF Socks
    <3>2. QED  BY <1>0, <1>2, <1>8, <3>1 DEF Queues
  <2>2. ASSUME NEW q \in Ports, NEW m \in 1..Len(server'[q])
        PROVE  /\ server'[q][m].sock <= opened /\ server'[q][m].n <= sent[q]
               /\ \A k \in 1..m - 1 : server'[q][k].n < server'[q][m].n
    <3>1. \A k \in 1..m - 1 : k \in 1..Len(server'[q])
      BY <1>9 DEF TypeInv
    <3>2. CASE q # p
      BY <1>7, <2>2, <3>1, <3>2 DEF Queues
    <3>3. CASE q = p
      <4>1. m + 1 \in 1..Len(server[q]) /\ server'[q][m] = server[q][m + 1]
        BY <1>7, <2>2, <3>3
      <4>2. \A k \in 1..m - 1 : server'[q][k] = server[q][k + 1] /\ k + 1 \in 1..(m + 1) - 1
        BY <1>7, <3>1, <3>3
      <4>3. QED  BY <4>1, <4>2 DEF Queues
    <3>4. QED  BY <3>2, <3>3
  <2>3. QED  BY <1>0, <2>1, <2>2 DEF Queues
<1>12. ASSUME NEW i \in Slots, Own(i), g_sock[i] > 0 PROVE InPlace(i)'
  <2>1. PICK s \in Socks, o \in Ports : s = g_sock[i] /\ o = g_sock_mgr[i]
    BY <1>12, OpenSocks
  <2>2. PICK lo \in Int : lo = Oldest(i)
    BY <2>1 DEF Oldest, TypeInv, TypeOK
  <2>3. Placed(o, s, lo)
    BY <1>12, <2>1, <2>2 DEF InPlace, Channels
  <2>4. ASSUME NEW q \in Ports, NEW m \in 1..Len(server'[q]), server'[q][m].sock = s
        PROVE  /\ q = o /\ lo <= server'[q][m].n /\ got[o] < server'[q][m].n
               /\ \A k \in 1..Len(inbox[s]) : inbox[s][k].n < server'[q][m].n
    <3>1. \E l \in 1..Len(server[q]) : server'[q][m] = server[q][l]
      BY <1>7, <2>4
    <3>2. QED  BY <2>3, <2>4, <3>1 DEF Placed
  <2>5. CASE inbox'[s] = inbox[s]
    <3>1. Placed(o, s, lo)'
      BY <1>0, <2>3, <2>4, <2>5 DEF Placed
    <3>2. QED  BY <1>0, <2>1, <2>2, <3>1 DEF InPlace, Oldest
  <2>6. CASE inbox'[s] # inbox[s]
    <3>1. r.sock = s /\ inbox'[s] = Append(inbox[s], [port |-> p, n |-> r.n])
      BY <1>2, <1>8, <2>6
    <3>2. /\ p = o /\ lo <= r.n /\ got[o] < r.n
          /\ \A k \in 1..Len(inbox[s]) : inbox[s][k].n < r.n
      <4>1. 1 \in 1..Len(server[p]) /\ server[p][1] = r
        BY <1>3, <1>4, <1>5
      <4>2. QED  BY <2>3, <3>1, <4>1 DEF Placed
    <3>3. /\ Len(inbox'[s]) = Len(inbox[s]) + 1 /\ Len(inbox[s]) \in Nat
          /\ inbox'[s][Len(inbox[s]) + 1] = [port |-> p, n |-> r.n]
          /\ \A k \in 1..Len(inbox[s]) : inbox'[s][k] = inbox[s][k]
      BY <1>2, <3>1
    <3>4. ASSUME NEW k \in 1..Len(inbox'[s])
          PROVE  /\ inbox'[s][k].port = o
                 /\ lo <= inbox'[s][k].n /\ inbox'[s][k].n <= sent[o]
                 /\ got[o] < inbox'[s][k].n
                 /\ \A m \in 1..k - 1 : inbox'[s][m].n < inbox'[s][k].n
      <4>1. \A m \in 1..k - 1 : m \in 1..Len(inbox[s])
        BY <3>3
      <4>2. CASE k \in 1..Len(inbox[s])
        BY <2>3, <3>3, <4>1, <4>2 DEF Placed
      <4>3. CASE k = Len(inbox[s]) + 1
        <5>1. inbox'[s][k].port = p /\ inbox'[s][k].n = r.n
          BY <3>3, <4>3
        <5>2. \A m \in 1..k - 1 : inbox'[s][m].n < r.n
          BY <3>2, <3>3, <4>1
        <5>3. QED  BY <1>6, <3>2, <5>1, <5>2
      <4>4. QED  BY <3>3, <4>2, <4>3
    <3>5. ASSUME NEW q \in Ports, NEW m \in 1..Len(server'[q]), server'[q][m].sock = s
          PROVE  \A k \in 1..Len(inbox'[s]) : inbox'[s][k].n < server'[q][m].n
      <4>1. q = p /\ r.n < server'[q][m].n
        BY <1>6, <1>7, <2>4, <3>2, <3>5
      <4>2. \A k \in 1..Len(inbox[s]) : inbox'[s][k].n < server'[q][m].n
        BY <2>4, <3>3, <3>5
      <4>3. inbox'[s][Len(inbox[s]) + 1].n < server'[q][m].n
        BY <3>3, <4>1
      <4>4. QED  BY <3>3, <4>2, <4>3
    <3>6. Placed(o, s, lo)'
      BY <1>0, <2>4, <3>4, <3>5 DEF Placed
    <3>7. QED  BY <1>0, <2>1, <2>2, <3>6 DEF InPlace, Oldest
  <2>7. QED  BY <2>5, <2>6
<1>13. Channels'
  <2>1. \A i \in Slots : Own(i)' => Own(i)
    BY <1>0 DEF Own, Crowded
  <2>2. QED  BY <1>0, <1>12, <2>1 DEF Channels
<1>14. QED  BY <1>9, <1>10, <1>11, <1>13

-----------------------------------------------------------------------------

LEMMA ClientInit == Init => ClientInv
<1> SUFFICES ASSUME Init PROVE ClientInv
  OBVIOUS
<1> USE ClientConstants DEF Init
<1>1. TypeInv
  <2>1. NoCall \in [port : RecvPorts \cup {0}, sock : 0..opened]
        /\ NoCall.port \in RecvPorts \cup {0} /\ NoCall.sock \in 0..opened
    BY DEF NoCall
  <2>2. TypeOK
    BY <2>1 DEF TypeOK
  <2>3. inbox \in [Socks -> Seq(Answers)] /\ server \in [Ports -> Seq(Requests)]
    OBVIOUS
  <2>4. QED  BY <2>1, <2>2, <2>3 DEF TypeInv
<1>2. SlotsOwned /\ Waiting
  BY DEF SlotsOwned, Waiting
<1>3. Queues
  BY DEF Queues
<1>4. Channels
  BY DEF Channels
<1>5. QED  BY <1>1, <1>2, <1>3, <1>4 DEF ClientInv

LEMMA ClientStep == ClientInv /\ [Next]_vars => ClientInv'
<1> SUFFICES ASSUME ClientInv, [Next]_vars PROVE ClientInv'
  OBVIOUS
<1>1. ASSUME NEW p \in Ports, Send(p) PROVE ClientInv'
  BY <1>1, CallKeeps DEF Send
<1>2. ASSUME NEW p \in Ports, SendRecv(p) PROVE ClientInv'
  BY <1>2, CallKeeps DEF SendRecv
<1>3. CASE UNCHANGED vars
  <2> USE <1>3 DEF vars, sockVars, ClientInv
  <2>1. TypeInv' /\ SlotsOwned'
    BY DEF TypeInv, TypeOK, SlotsOwned
  <2>2. Waiting' /\ Queues'
    BY DEF Waiting, Crowded, Queues
  <2>3. Channels'
    BY DEF Channels, InPlace, Placed, Oldest, Own, Crowded
  <2>4. QED  BY <2>1, <2>2, <2>3
<1>4. QED  BY <1>1, <1>2, <1>3, ServeKeeps, AnswerKeeps, TimeoutKeeps DEF Next

THEOREM ClientInvariant == Spec => []ClientInv
BY ClientInit, ClientStep, PTL DEF Spec

\* Slots, sockets and calls keep their types; there are never more sockets than calls.
THEOREM ClientTypes == Spec => []TypeOK
<1>1. ClientInv => TypeOK
  BY DEF ClientInv, TypeInv
<1>2. QED  BY <1>1, ClientInvariant, PTL

\* What a call reads at a slot that is its port's own.
LEMMA AnswerRead ==
  ASSUME ClientInv, RecvAnswer, OwnSlot
  PROVE  /\ Head(inbox[call.sock]).port = call.port
         /\ got'[call.port] > got[call.port]
         /\ sent[call.port] - got'[call.port] <= late[call.sock]
<1> USE DEF ClientInv
<1>1. call # NoCall /\ inbox[call.sock] # <<>>
      /\ got' = [got EXCEPT ![call.port] = Head(inbox[call.sock]).n]
  BY DEF RecvAnswer
<1>2. PICK i \in Slots :
        /\ g_sock[i] > 0 /\ call.sock = g_sock[i]
        /\ \/ g_sock_mgr[i] = call.port
           \/ i = 0 /\ Crowded /\ \A j \in Slots : g_sock_mgr[j] # call.port
  BY <1>1 DEF Waiting
<1>3. Own(i)
  BY <1>2 DEF OwnSlot, Own
<1>4. PICK p \in Ports, s \in Socks : p = call.port /\ s = call.sock
  BY <1>1, SlotOfWait
<1>5. /\ Placed(p, s, sent[p] - late[s])
      /\ sent[p] \in Nat /\ late[s] \in Nat /\ got \in [Ports -> Nat]
  <2>1. sent[p] \in Nat /\ late[s] \in Nat /\ got \in [Ports -> Nat]
    BY DEF TypeInv, TypeOK
  <2>2. g_sock_mgr[i] = p /\ g_sock[i] = s
    BY <1>1, <1>2, <1>3, <1>4, SlotOfWait
  <2>3. Oldest(i) = sent[p] - late[s]
    BY <1>4, <2>1, <2>2 DEF Oldest
  <2>4. QED  BY <1>2, <1>3, <2>1, <2>2, <2>3 DEF Channels, InPlace
<1>6. Head(inbox[s]) = inbox[s][1] /\ 1 \in 1..Len(inbox[s]) /\ inbox[s][1].n \in Nat
  BY <1>1, <1>4, Numbers DEF TypeInv
<1>7. QED  BY <1>1, <1>4, <1>5, <1>6 DEF Placed

\* A port with a slot of its own is never given another's answer ...
THEOREM AnswersOfPort == Spec => AnswerOfPort
<1>1. ClientInv /\ [Next]_vars
        => [RecvAnswer /\ OwnSlot => Head(inbox[call.sock]).port = call.port]_vars
  BY AnswerRead
<1>2. QED  BY <1>1, ClientInvariant, PTL DEF Spec, AnswerOfPort

\* ... gets its own in the order of its calls, whatever is late, lost or closed ...
THEOREM AnswersOrdered == Spec => AnswersInOrder
<1>1. ClientInv /\ [Next]_vars
        => [RecvAnswer /\ OwnSlot => got'[call.port] > got[call.port]]_vars
  BY AnswerRead
<1>2. QED  BY <1>1, ClientInvariant, PTL DEF Spec, AnswersInOrder

\* ... and none older than the calls that gave up on the same socket account for.
THEOREM LagIsBounded == Spec => LagBounded
<1>1. ClientInv /\ [Next]_vars
        => [RecvAnswer /\ OwnSlot => sent[call.port] - got'[call.port] <= late[call.sock]]_vars
  BY AnswerRead
<1>2. QED  BY <1>1, ClientInvariant, PTL DEF Spec, LagBounded

-----------------------------------------------------------------------------
(* What makes a call return, apart from the fairness CallReturns needs.    *)

\* The socket of a slot that is not shared was opened by a call of its own port.
SocksTimed ==
  \A i \in Slots :
    Own(i) /\ g_sock_mgr[i] \in RecvPorts \ SendPorts /\ g_sock[i] > 0
      => g_sock[i] \notin forever

\* A port that is never called with the plain send opens its socket with a timeout.
LEMMA TimeoutSet ==
  ASSUME NEW p, NEW i, NEW waits \in BOOLEAN, CallIn(p, i, waits)
  PROVE  /\ forever' \subseteq forever \cup {opened + 1}
         /\ waits => forever' = forever
BY DEF CallIn, OpenSock, TimesOut

LEMMA CallTimes ==
  ASSUME ClientInv, SocksTimed, NEW p \in Ports, NEW waits \in BOOLEAN, Call(p, waits),
         IF waits THEN p \in RecvPorts ELSE p \in SendPorts
  PROVE  SocksTimed'
<1>1. PICK i \in Slots : CallBy(p, i, waits)
  BY CallIsBy
<1>2. TakesSlot(p, i) /\ Sends(p, i)
  BY <1>1, SlotOfCall, OutcomeOfCall
<1>3. /\ forever' \subseteq forever \cup {opened + 1} /\ (waits => forever' = forever)
  BY <1>1, TimeoutSet DEF CallBy
<1>4. /\ opened \in Nat /\ forever \subseteq 1..opened
      /\ g_sock \in [Slots -> {-1, 0} \cup 1..opened]
      /\ g_sock_mgr \in [Slots -> Ports \cup {0}] /\ 0 \notin Ports
      /\ \A j \in Slots : g_sock_mgr[j] = 0 => g_sock[j] = 0
  BY ClientConstants DEF ClientInv, TypeInv, TypeOK, Ports
<1>5. \A j \in Slots : Own(j)' => Own(j)
  BY <1>1, StaysCrowded DEF CallBy, Own, ClientInv, TypeInv, TypeOK
<1> SUFFICES ASSUME NEW j \in Slots, Own(j)', g_sock_mgr'[j] \in RecvPorts \ SendPorts,
                    g_sock'[j] > 0
             PROVE  g_sock'[j] \notin forever'
  BY DEF SocksTimed
<1>6. CASE j # i
  <2>1. g_sock'[j] = g_sock[j] /\ g_sock_mgr'[j] = g_sock_mgr[j]
    BY <1>2, <1>4, <1>6 DEF Sends, TakesSlot
  <2>2. g_sock[j] \notin forever /\ g_sock[j] # opened + 1
    BY <1>4, <1>5, <2>1 DEF SocksTimed
  <2>3. QED  BY <1>3, <2>1, <2>2
<1>7. CASE j = i
  <2>1. /\ g_sock_mgr'[i] = p
        /\ g_sock_mgr[i] = p \/ (g_sock_mgr[i] = 0 /\ g_sock[i] = 0)
    <3>1. ~(i = 0 /\ Crowded')
      BY <1>7 DEF Own
    <3>2. \/ g_sock_mgr[i] = p /\ g_sock_mgr' = g_sock_mgr
          \/ /\ g_sock_mgr[i] = 0 /\ g_sock[i] = 0
             /\ g_sock_mgr' = [g_sock_mgr EXCEPT ![i] = p]
      BY <1>2, <3>1 DEF TakesSlot
    <3>3. QED  BY <1>4, <3>2
  <2>2. waits /\ forever' = forever
    BY <1>3, <1>7, <2>1
  <2>3. g_sock'[i] = SockOf(i)
    BY <1>2, <1>4, <1>7 DEF Sends
  <2>4. CASE g_sock[i] > 0
    BY <1>5, <1>7, <2>1, <2>2, <2>3, <2>4 DEF SocksTimed, SockOf
  <2>5. CASE ~(g_sock[i] > 0)
    BY <1>4, <1>7, <2>2, <2>3, <2>5 DEF SockOf
  <2>6. QED  BY <2>4, <2>5
<1>8. QED  BY <1>6, <1>7

\* A call to a port that is never called with the plain send waits on a socket that has a
\* timeout, whoever closed and opened it again, unless it shares a slot.
CallTimed ==
  call.port \in RecvPorts \ SendPorts /\ OwnSlot => call.sock \notin forever

THEOREM CallsTimed == Spec => []CallTimed
<1>1. Init => SocksTimed
  BY DEF Init, SocksTimed
<1>2. ClientInv /\ SocksTimed /\ [Next]_vars => SocksTimed'
  <2> SUFFICES ASSUME ClientInv, SocksTimed, [Next]_vars PROVE SocksTimed'
    OBVIOUS
  <2>1. ASSUME NEW p \in Ports, Send(p) \/ SendRecv(p) PROVE SocksTimed'
    BY <2>1, CallTimes DEF Send, SendRecv
  <2>2. CASE RecvAnswer \/ RecvTimeout \/ (\E p \in Ports : Serve(p)) \/ UNCHANGED vars
    <3>1. UNCHANGED <<sockVars, sent>>
      BY <2>2 DEF RecvAnswer, RecvTimeout, Serve, vars
    <3>2. QED  BY <3>1 DEF sockVars, SocksTimed, Own, Crowded
  <2>3. QED  BY <2>1, <2>2 DEF Next
<1>3. ClientInv /\ SocksTimed => CallTimed
  <2> SUFFICES ASSUME ClientInv, SocksTimed, call.port \in RecvPorts \ SendPorts, OwnSlot
               PROVE  call.sock \notin forever
    BY DEF CallTimed
  <2>1. call # NoCall
    BY ClientConstants DEF NoCall
  <2>2. PICK i \in Slots :
          /\ g_sock[i] > 0 /\ call.sock = g_sock[i]
          /\ \/ g_sock_mgr[i] = call.port
             \/ i = 0 /\ Crowded /\ \A j \in Slots : g_sock_mgr[j] # call.port
    BY <2>1 DEF ClientInv, Waiting
  <2>3. QED  BY <2>2 DEF SocksTimed, Own, OwnSlot
<1>4. QED  BY <1>1, <1>2, <1>3, ClientInvariant, PTL DEF Spec
=============================================================================
