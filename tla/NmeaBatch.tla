------------------------------ MODULE NmeaBatch -----------------------------
(***************************************************************************)
(* mds_gps_tools_nmea_callback (garden_tools.cpp): sentences from the      *)
(* location library are collected in a static buffer and broadcast as one  *)
(* datagram when the fix sentence (GPGGA) arrives.  Buffer and size are    *)
(* static: they outlive a session.  The library calls back from one thread.*)
(*                                                                         *)
(* A sentence is a record: its number n among the accepted ones, the       *)
(* session it came in, its length.  send_buff is the sequence of sentences *)
(* it holds; each takes its length and a carriage return.                  *)
(***************************************************************************)
EXTENDS Integers, Sequences

CONSTANTS
  Cap,            \* the size of send_buff (1024)
  Lens,           \* the lengths of sentences
  MaxSentences,   \* bound: sentences accepted
  MaxSessions     \* bound: sessions

ASSUME ConstantsAssumption ==
  /\ Cap \in Nat /\ Lens \subseteq 1..Cap
  /\ MaxSentences \in Nat /\ MaxSessions \in Nat \ {0}

VARIABLES
  send_buff, send_to_size,
  datagram,   \* the last batch broadcast on UDP_IPC_PORT__GPS_NMEA_DATA_CH, and its size
  seen,       \* history: sentences accepted
  session     \* history: the session the library is in

vars == <<send_buff, send_to_size, datagram, seen, session>>

Sentence == [n : 1..MaxSentences, session : 1..MaxSessions, len : Lens]

\* Through any sequence of sentences, discards, sends and sessions the buffer holds at
\* most its capacity and one: the test for a full buffer leaves out the carriage
\* return that sprintf adds.
TypeOK ==
  /\ send_buff \in Seq(Sentence) /\ send_to_size \in 0..Cap + 1
  /\ datagram.batch \in Seq(Sentence) /\ datagram.size \in 0..Cap + 1
  /\ seen \in 0..MaxSentences /\ session \in 1..MaxSessions

NoBatch == [batch |-> <<>>, size |-> 0]

Init ==
  /\ send_buff = <<>> /\ send_to_size = 0 /\ datagram = NoBatch
  /\ seen = 0 /\ session = 1

\* A new session leaves the buffer as the last one left it.
NewSession ==
  /\ session < MaxSessions /\ session' = session + 1
  /\ UNCHANGED <<send_buff, send_to_size, datagram, seen>>

Full_OffByOne(len) == send_to_size + len > Cap + 1   \* mutant: one character more fits
Full(len) == send_to_size + len > Cap

\* The buffer a sentence is appended to: what is there, or nothing once it is full.
Kept(len) == IF Full(len) THEN <<>> ELSE send_buff

KeptSize_Stale(len) == send_to_size   \* mutant: the size is not reset with the buffer
KeptSize(len) == IF Full(len) THEN 0 ELSE send_to_size

\* sprintf appends the sentence to it.
Batch(len) == Append(Kept(len), [n |-> seen + 1, session |-> session, len |-> len])

Reset_Not(batch) == batch   \* mutant: a batch stays in the buffer when it is sent
Reset(batch) == <<>>

\* With the fix sentence the batch is sent and the buffer reset. sprintf also writes a
\* terminator: a buffer filled to Cap takes it one character past the end, and one filled
\* to Cap + 1 two. What lies behind send_buff is taken to be padding: the model goes on
\* as if nothing were destroyed.
Collect(len, gga) ==
  LET size == KeptSize(len) + len + 1
  IN  /\ send_buff' = IF gga THEN Reset(Batch(len)) ELSE Batch(len)
      /\ send_to_size' = IF gga THEN 0 ELSE size
      /\ datagram' = IF gga THEN [batch |-> Batch(len), size |-> size] ELSE datagram

\* A sentence that has "$GP" in it; others are dropped before anything is touched.
Nmea(len, gga) ==
  /\ seen < MaxSentences
  /\ seen' = seen + 1
  /\ Collect(len, gga)
  /\ UNCHANGED session

Next == NewSession \/ \E len \in Lens, gga \in BOOLEAN : Nmea(len, gga)
Spec == Init /\ [][Next]_vars
-----------------------------------------------------------------------------
(* Properties.                                                             *)

\* The sentences numbered from n to m.
Run(batch, n, m) ==
  Len(batch) = m - n + 1 /\ \A i \in 1..Len(batch) : batch[i].n = n + i - 1
Newest(batch) == batch[Len(batch)]

\* No sentence goes out twice or out of order, and none is missing inside a batch:
\* a batch is a run of consecutive sentences that ends with the newest and starts
\* after the batch before it.
BatchesInOrder ==
  [][datagram' # datagram =>
       LET before == datagram.batch
           batch == datagram'.batch
       IN  /\ batch # <<>> /\ Run(batch, batch[1].n, seen')
           /\ before # <<>> => Newest(before).n < batch[1].n]_vars

\* Sentences of an earlier session only ever go out in the first batch of a later
\* one: a batch that follows another of the same session is all of that session.
StaleOnlyFirst ==
  [][datagram' # datagram /\ datagram.batch # <<>> /\ Newest(datagram.batch).session = session
       => \A i \in 1..Len(datagram'.batch) : datagram'.batch[i].session = session]_vars
=============================================================================
