-------------------------------- MODULE Logd --------------------------------
(***************************************************************************)
(* mds_logd (mds_logd.cpp): every thread of the daemon logs through one    *)
(* socket, opened by the first that finds _logfd at -1.  The lock around   *)
(* it was taken out (the comment at line 91), so testing _logfd, socket(), *)
(* storing its result and sendto, which reads _logfd again, are four steps *)
(* of each thread, in any order with the others'.                          *)
(***************************************************************************)
EXTENDS Integers, FiniteSets

CONSTANTS
  Threads,
  MaxMsgs,   \* bound: messages logged
  MaxFails,  \* bound: socket() calls that fail
  MaxRefused \* bound: sendto() calls that fail on an open socket

ASSUME ConstantsAssumption ==
  IsFiniteSet(Threads) /\ MaxMsgs \in Nat /\ MaxFails \in Nat /\ MaxRefused \in Nat

VARIABLES
  _logfd,
  pc, fd,           \* where each thread is in mds_logd; what socket() gave it
  msgs,             \* messages so far
  opened, fails,    \* descriptors opened, socket() calls that failed
  refused,          \* sendto() calls that failed on an open socket
  lost              \* history: messages that reached no one

vars == <<_logfd, pc, fd, msgs, opened, fails, refused, lost>>

TypeOK ==
  /\ _logfd \in -1..opened
  /\ pc \in [Threads -> {"idle", "check", "socket", "store", "send"}]
  /\ fd \in [Threads -> -1..opened]
  /\ msgs \in 0..MaxMsgs /\ fails \in 0..MaxFails /\ refused \in 0..MaxRefused
  /\ opened + fails <= msgs   \* a message takes one socket() at most

Init ==
  /\ _logfd = -1
  /\ pc = [t \in Threads |-> "idle"] /\ fd = [t \in Threads |-> -1]
  /\ msgs = 0 /\ opened = 0 /\ fails = 0 /\ refused = 0 /\ lost = 0

Goto(t, l) == pc' = [pc EXCEPT ![t] = l]

Log(t) ==
  /\ pc[t] = "idle" /\ msgs < MaxMsgs
  /\ Goto(t, "check") /\ msgs' = msgs + 1
  /\ UNCHANGED <<_logfd, fd, opened, fails, refused, lost>>

Opened_Never == FALSE   \* mutant: _logfd is opened for every message
Opened == _logfd # -1

Check(t) ==
  /\ pc[t] = "check"
  /\ Goto(t, IF Opened THEN "send" ELSE "socket")
  /\ UNCHANGED <<_logfd, fd, msgs, opened, fails, refused, lost>>

Socket(t) ==
  /\ pc[t] = "socket" /\ Goto(t, "store")
  /\ \/ fd' = [fd EXCEPT ![t] = opened + 1] /\ opened' = opened + 1 /\ UNCHANGED fails
     \/ /\ fails < MaxFails /\ fails' = fails + 1
        /\ fd' = [fd EXCEPT ![t] = -1] /\ UNCHANGED opened
  /\ UNCHANGED <<_logfd, msgs, refused, lost>>

AfterFailure_Retry == "check"   \* mutant: a call whose socket() failed starts over
AfterFailure == "idle"

\* The result is stored, over a descriptor another thread stored meanwhile, and a
\* failure too; the call then returns without sending.
Store(t) ==
  /\ pc[t] = "store"
  /\ _logfd' = fd[t]
  /\ IF fd[t] < 0 THEN Goto(t, AfterFailure) /\ lost' = lost + 1
                  ELSE Goto(t, "send") /\ UNCHANGED lost
  /\ UNCHANGED <<fd, msgs, opened, fails, refused>>

AfterSend_Closed == -1   \* mutant: the socket is given up after each message
AfterSend == _logfd

\* sendto does not wait (MSG_DONTWAIT): with the log daemon's queue full, or nobody at
\* its address, the message is dropped, and the result is not looked at.
Send(t) ==
  /\ pc[t] = "send" /\ Goto(t, "idle")
  /\ \/ lost' = (IF _logfd = -1 THEN lost + 1 ELSE lost) /\ UNCHANGED refused
     \/ /\ _logfd # -1 /\ refused < MaxRefused
        /\ refused' = refused + 1 /\ lost' = lost + 1
  /\ _logfd' = AfterSend
  /\ UNCHANGED <<fd, msgs, opened, fails>>

Next == \E t \in Threads : Log(t) \/ Check(t) \/ Socket(t) \/ Store(t) \/ Send(t)
Spec == Init /\ [][Next]_vars
-----------------------------------------------------------------------------
(* Properties.                                                             *)

\* The race leaks a descriptor per thread and outage at most: threads that meet
\* at an unopened _logfd open one each, and none is opened after that until
\* socket() fails.
LeakBounded == opened <= Cardinality(Threads) * (fails + 1)

\* Beside the messages sendto could not place, messages are lost only to failures of
\* socket(), each of which costs its own and at most one of every other thread, whose
\* descriptor it overwrites: the race loses none by itself.
LossBounded == lost <= Cardinality(Threads) * fails + refused
=============================================================================
