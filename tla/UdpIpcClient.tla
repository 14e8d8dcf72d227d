---------------------------- MODULE UdpIpcClient ----------------------------
(***************************************************************************)
(* The UDP client of a process (mds_upd_ipc_clnt.cpp, one caller at a      *)
(* time): a socket per port, opened by the first call and kept, with that  *)
(* first call's receive timeout.  A call that gives up waiting leaves its  *)
(* answer to come: it will be read by a later call.  The servers (the loop *)
(* of mds_udp_ipc_svr.cpp) take requests in order and answer each, late or *)
(* at once; datagrams of one host may be dropped and are never reordered.  *)
(* Each port has one server: requests are broadcast to 127.255.255.255 and *)
(* servers bind with SO_REUSEADDR, so two on a port would both answer.     *)
(***************************************************************************)
EXTENDS Integers, Sequences, FiniteSets

CONSTANTS
  MaxReuse,    \* MAX_REUSE_SOCK_CNT
  RecvPorts,   \* ports called with udp_ipc_broadcast_send_recv
  SendPorts,   \* ports called with udp_ipc_broadcast_send
  MaxCalls,    \* bound: calls
  MaxFaults    \* bound: socket and sendto failures and dropped datagrams

Ports == RecvPorts \cup SendPorts

ASSUME ClientConstants ==
  /\ RecvPorts \subseteq Nat \ {0} /\ SendPorts \subseteq Nat \ {0}
  /\ MaxReuse \in Nat \ {0} /\ MaxCalls \in Nat /\ MaxFaults \in Nat
  /\ IsFiniteSet(Ports)

VARIABLES
  g_sock_mgr,   \* the port each slot was given to, 0 if free
  g_sock,       \* the socket of each slot: 0 never opened, -1 closed
  opened,       \* sockets are numbered as they are opened
  forever,      \* sockets whose receive timeout is 0: they wait for ever
  inbox,        \* the answers waiting at each socket
  server,       \* the requests waiting at each port
  call,         \* the send_recv that waits: its port and socket
  calls,        \* history: calls made
  sent,         \* history: calls made to each port
  late,         \* history: for each socket, requests sent that were not waited for to
                \* the end
  got,          \* history: the request of each port whose answer was read last
  faults

sockVars == <<g_sock_mgr, g_sock, opened, forever>>
vars == <<sockVars, inbox, server, call, calls, sent, late, got, faults>>

Slots == 0..MaxReuse - 1
Socks == 1..MaxCalls
NoCall == [port |-> 0, sock |-> 0]

TypeOK ==
  /\ g_sock_mgr \in [Slots -> Ports \cup {0}]
  /\ g_sock \in [Slots -> {-1, 0} \cup 1..opened] /\ opened \in 0..MaxCalls
  /\ \A i \in Slots : g_sock_mgr[i] = 0 => g_sock[i] = 0
  /\ forever \subseteq 1..opened
  /\ call.port \in RecvPorts \cup {0} /\ call.sock \in 0..opened
  /\ sent \in [Ports -> Nat] /\ late \in [Socks -> Nat] /\ got \in [Ports -> Nat]
  /\ calls \in 0..MaxCalls /\ faults \in 0..MaxFaults

Init ==
  /\ g_sock_mgr = [i \in Slots |-> 0] /\ g_sock = [i \in Slots |-> 0]
  /\ opened = 0 /\ forever = {}
  /\ inbox = [s \in Socks |-> <<>>] /\ server = [p \in Ports |-> <<>>]
  /\ call = NoCall /\ calls = 0 /\ faults = 0
  /\ sent = [p \in Ports |-> 0] /\ late = [s \in Socks |-> 0] /\ got = [p \in Ports |-> 0]

Least(i, q) == g_sock_mgr[i] = q /\ \A j \in 0..i - 1 : g_sock_mgr[j] # q
Taken(p) == \A j \in Slots : g_sock_mgr[j] \notin {p, 0}

IsIdx_Zero(i, p) == i = 0   \* mutant: every port is given slot 0
\* _get_sock_idx finds slot i: the one that has the port, or else the first free one, or,
\* with every slot taken, slot 0.
IsIdx(i, p) ==
  \/ Least(i, p)
  \/ Least(i, 0) /\ \A j \in Slots : g_sock_mgr[j] # p
  \/ i = 0 /\ Taken(p)

Claim_Forget(i, p) == UNCHANGED g_sock_mgr   \* mutant: the slot is used and not taken
Claim(i, p) == g_sock_mgr' = IF Taken(p) THEN g_sock_mgr ELSE [g_sock_mgr EXCEPT ![i] = p]

Fault == faults < MaxFaults /\ faults' = faults + 1

Returned == call' = NoCall

\* A request that is sent and not waited for.
SentAndGone(s) == Returned /\ late' = [late EXCEPT ![s] = @ + 1]
SentAndWaits(p, s) == call' = [port |-> p, sock |-> s] /\ UNCHANGED late

SockAfterFail_Kept(s) == s   \* mutant: the socket is not closed
SockAfterFail(s) == -1

\* sendto on socket s of slot i: the request reaches the server, or is dropped on the way,
\* or sendto fails and the socket is closed.
SendTo(p, i, s, waits) ==
  \/ /\ \/ server' = [server EXCEPT ![p] = Append(@, [sock |-> s, n |-> sent'[p]])]
           /\ UNCHANGED faults
        \/ Fault /\ UNCHANGED server
     /\ g_sock' = [g_sock EXCEPT ![i] = s]
     /\ IF waits THEN SentAndWaits(p, s) ELSE SentAndGone(s)
  \/ /\ Fault
     /\ g_sock' = [g_sock EXCEPT ![i] = SockAfterFail(s)]
     /\ Returned /\ UNCHANGED <<server, late>>

TimesOut_Never(waits) == FALSE   \* mutant: no socket is given a receive timeout
TimesOut(waits) == waits

\* socket and setsockopt: the timeout is that of the call that opens it; a plain send
\* passes 0.
OpenSock(waits) ==
  /\ opened' = opened + 1
  /\ forever' = IF TimesOut(waits) THEN forever ELSE forever \cup {opened + 1}

\* _init_ipc_sock and sendto.  A socket() that fails leaves the slot closed.
CallIn(p, i, waits) ==
  \/ g_sock[i] > 0 /\ SendTo(p, i, g_sock[i], waits) /\ UNCHANGED <<opened, forever>>
  \/ g_sock[i] <= 0 /\ OpenSock(waits) /\ SendTo(p, i, opened', waits)
  \/ /\ g_sock[i] <= 0 /\ Fault
     /\ g_sock' = [g_sock EXCEPT ![i] = -1]
     /\ Returned /\ UNCHANGED <<opened, forever, server, late>>

Call(p, waits) ==
  /\ call = NoCall
  /\ calls < MaxCalls /\ calls' = calls + 1
  /\ sent' = [sent EXCEPT ![p] = @ + 1]
  /\ \E i \in Slots : IsIdx(i, p) /\ Claim(i, p) /\ CallIn(p, i, waits)
  /\ UNCHANGED <<inbox, got>>

Send(p) == p \in SendPorts /\ Call(p, FALSE)
SendRecv(p) == p \in RecvPorts /\ Call(p, TRUE)

\* recvfrom returns the answer that has waited longest ...
RecvAnswer ==
  /\ call # NoCall /\ inbox[call.sock] # <<>>
  /\ got' = [got EXCEPT ![call.port] = Head(inbox[call.sock]).n]
  /\ inbox' = [inbox EXCEPT ![call.sock] = Tail(@)]
  /\ Returned
  /\ UNCHANGED <<sockVars, server, calls, sent, late, faults>>

\* ... or after the socket's timeout, if it has one, nothing.
RecvTimeout ==
  /\ call # NoCall /\ inbox[call.sock] = <<>> /\ call.sock \notin forever
  /\ SentAndGone(call.sock)
  /\ UNCHANGED <<sockVars, inbox, server, calls, sent, got, faults>>

Open(s) == \E i \in Slots : g_sock[i] = s

ServerAfter_Kept(p) == server[p]   \* mutant: the request is answered and kept
ServerAfter(p) == Tail(server[p])

\* The server of the port answers its next request; the answer may be dropped, and
\* is if the socket has been closed.
Serve(p) ==
  /\ server[p] # <<>>
  /\ server' = [server EXCEPT ![p] = ServerAfter(p)]
  /\ LET r == Head(server[p])
     IN  \/ /\ Open(r.sock)
            /\ inbox' = [inbox EXCEPT ![r.sock] = Append(@, [port |-> p, n |-> r.n])]
            /\ UNCHANGED faults
         \/ Fault /\ UNCHANGED inbox
         \/ ~Open(r.sock) /\ UNCHANGED <<inbox, faults>>
  /\ UNCHANGED <<sockVars, call, calls, sent, late, got>>

Next ==
  \/ \E p \in Ports : Send(p) \/ SendRecv(p) \/ Serve(p)
  \/ RecvAnswer \/ RecvTimeout

\* The kernel's timer; the servers owe nothing.
Spec == Init /\ [][Next]_vars
FairSpec == Spec /\ WF_vars(RecvAnswer \/ RecvTimeout)
-----------------------------------------------------------------------------
(* Properties.                                                             *)

\* With more ports than slots the ports without one share slot 0 with its owner.
Crowded == Cardinality({p \in Ports : sent[p] > 0}) > MaxReuse
OwnSlot == ~Crowded \/ call.sock # g_sock[0]

\* A call reads the answer of another port's server at worst on slot 0, in a process that
\* has called more ports than it has slots: one socket lives through many calls, and
\* answers come late, but nowhere else are they mixed up.
AnswerOfPort ==
  [][RecvAnswer /\ OwnSlot => Head(inbox[call.sock]).port = call.port]_vars

\* Answers of a port are read once each and in the order of their requests: a late
\* answer may be taken for a newer one's, never a newer one be followed by an older.
AnswersInOrder == [][RecvAnswer /\ OwnSlot => got'[call.port] > got[call.port]]_vars

\* How old an answer can be: at most as many requests behind the call that reads it
\* as were left unanswered on this very socket.  With none left, an answer is the
\* call's own, and closing the socket wipes the slate clean.
LagBounded ==
  [][RecvAnswer /\ OwnSlot => sent[call.port] - got'[call.port] <= late[call.sock]]_vars

\* A call to a port that is never called with the plain send returns, unless it shares
\* a slot: then another port may have opened its socket.
CallReturns ==
  call.port \in RecvPorts \ SendPorts /\ OwnSlot ~> call = NoCall
=============================================================================
