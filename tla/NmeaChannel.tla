----------------------------- MODULE NmeaChannel ----------------------------
(***************************************************************************)
(* The NMEA channel: an application polls for the batches of NmeaBatch     *)
(* with udp_ipc_data_recv_timeout (mds_udp_ipc_svr.cpp).  Each call binds  *)
(* a socket of its own, takes the first datagram that comes, or gives up,  *)
(* and closes it: what is broadcast between two calls is not seen.         *)
(***************************************************************************)
EXTENDS NmeaBatch

CONSTANTS
  IPC_BUFF_SIZE,   \* the size of buff_rcv (1024)
  BuffLens         \* the lengths of the buffers callers pass

\* Both ends were given buffers of one size.
ASSUME ChannelConstants == IPC_BUFF_SIZE = Cap /\ BuffLens \subseteq Nat

VARIABLES
  bound, socket,   \* a call waits; the datagrams that have come to its socket
  buff_len,        \* its argument, 0 before the first call
  buff, result,    \* the batch in the caller's buffer; what the last call returned
  since            \* history: the sentences accepted before the call

callVars == <<bound, socket, buff_len, buff, result, since>>
channelVars == <<vars, callVars>>

ChannelTypeOK ==
  /\ TypeOK
  /\ bound \in BOOLEAN /\ result \in -1..IPC_BUFF_SIZE /\ since \in 0..seen
  /\ buff_len \in BuffLens \cup {0}
  /\ buff.batch \in Seq(Sentence) /\ buff.size \in 0..Cap + 1
  /\ Len(socket) <= seen - since

ChannelInit ==
  /\ Init
  /\ bound = FALSE /\ socket = <<>> /\ buff_len = 0 /\ buff = NoBatch /\ result = 0 /\ since = 0

\* The callback; a datagram of the local network may be lost.
Sender ==
  \/ /\ NewSession \/ \E len \in Lens : Nmea(len, FALSE)
     /\ UNCHANGED callVars
  \/ /\ \E len \in Lens : Nmea(len, TRUE)
     /\ socket' \in {socket} \cup (IF bound THEN {Append(socket, datagram')} ELSE {})
     /\ UNCHANGED <<bound, buff_len, buff, result, since>>

Bind ==
  /\ ~bound /\ bound' = TRUE
  /\ buff_len' \in BuffLens /\ since' = seen
  /\ UNCHANGED <<vars, socket, buff, result>>

\* bind fails, or nothing comes in time.
Fails ==
  /\ ~bound \/ socket = <<>>
  /\ bound' = FALSE /\ result' = -1
  /\ UNCHANGED <<vars, socket, buff_len, buff, since>>

AtClose_Kept == Tail(socket)   \* mutant: a socket that stays open from call to call
AtClose == <<>>

Fits_WithEnd(size) == buff_len > size + 1   \* mutant: room is also kept for a terminator
Fits(size) == buff_len > size

\* recvfrom cuts the datagram to the size of buff_rcv; the caller is told its size even
\* if its own buffer is too small and is left as it was.
Receive ==
  /\ bound /\ socket # <<>>
  /\ bound' = FALSE /\ socket' = AtClose
  /\ LET d == Head(socket)
         read_size == IF d.size > IPC_BUFF_SIZE THEN IPC_BUFF_SIZE ELSE d.size
     IN  /\ result' = read_size
         /\ buff' = IF Fits(read_size) THEN d ELSE buff
  /\ UNCHANGED <<vars, buff_len, since>>

ChannelNext == Sender \/ Bind \/ Fails \/ Receive
ChannelSpec == ChannelInit /\ [][ChannelNext]_channelVars
-----------------------------------------------------------------------------
(* Properties.                                                             *)

\* The size of the batch is returned either way: whether it was handed over a caller can
\* tell by holding that against the length of its buffer.
HandedOver == Receive /\ buff_len > result'

\* The characters of a batch.
Length(s) ==
  LET upTo[i \in 0..Len(s)] == IF i = 0 THEN 0 ELSE upTo[i - 1] + s[i].len + 1
  IN  upTo[Len(s)]

\* A call hands over one batch, and all of it: the character a batch may have too many
\* for the receiver is the carriage return after the fix sentence.  So the size that was
\* counted and sent along is right, through every discard and reset.
ReceivedWhole == [][HandedOver => Length(buff'.batch) \in {result', result' + 1}]_channelVars

\* Call after call, whatever is lost, missed or too long for the caller in between, a
\* sentence is handed over once, and none after a later one: by the size alone a caller
\* never takes the batch it has for a new one.
ReceivedOnce ==
  [][HandedOver /\ buff.batch # <<>> => Newest(buff.batch).n < buff'.batch[1].n]_channelVars

\* A call never hands over an old position: the fix was taken after it was made.
FreshFix == [][HandedOver => Newest(buff'.batch).n > since]_channelVars
=============================================================================
