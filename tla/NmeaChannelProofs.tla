-------------------------- MODULE NmeaChannelProofs -------------------------
(***************************************************************************)
(* Proofs about the NMEA channel, for any buffer sizes, sentence lengths,  *)
(* sessions and polls: the batches the callback sends, and what a caller   *)
(* of udp_ipc_data_recv_timeout gets of them.                              *)
(***************************************************************************)
EXTENDS NmeaChannel, Recursion

Batches == [batch : Seq(Sentence), size : 0..Cap + 1]

\* The buffer holds the newest sentences, none missing; the last batch ended before them.
Numbered ==
  /\ Run(send_buff, seen - Len(send_buff) + 1, seen)
  /\ datagram.batch # <<>> => Newest(datagram.batch).n <= seen - Len(send_buff)

\* What an earlier session left in the buffer goes with the first batch of the next.
Sessions ==
  /\ \A i \in 1..Len(send_buff) : send_buff[i].session <= session
  /\ \A i \in 1..Len(datagram.batch) : datagram.batch[i].session <= session
  /\ datagram.batch # <<>> /\ Newest(datagram.batch).session = session =>
       \A i \in 1..Len(send_buff) : send_buff[i].session = session

SenderInv ==
  /\ send_buff \in Seq(Sentence) /\ send_to_size \in 0..Cap + 1
  /\ datagram \in Batches
  /\ seen \in 0..MaxSentences /\ session \in 1..MaxSessions
  /\ Numbered /\ Sessions

\* What the callback adds never takes the buffer past its capacity and one.
LEMMA SizeBound ==
  ASSUME NEW len \in Lens, send_to_size \in 0..Cap + 1
  PROVE  KeptSize(len) + len + 1 \in 0..Cap + 1
BY ConstantsAssumption DEF KeptSize, Full

\* What every sentence of the callback does to the histories.
Accepted == seen < MaxSentences /\ seen' = seen + 1 /\ session' = session

\* The batch a sentence makes, with what it was added to.
LEMMA AppendFacts ==
  ASSUME SenderInv, NEW len \in Lens, Accepted
  PROVE  /\ Batch(len) \in Seq(Sentence) /\ Len(Batch(len)) = Len(Kept(len)) + 1
         /\ Kept(len) \in {send_buff, <<>>}
         /\ Newest(Batch(len)) = [n |-> seen + 1, session |-> session, len |-> len]
         /\ \A i \in 1..Len(Kept(len)) : Batch(len)[i] = send_buff[i]
         /\ seen' = seen + 1 /\ seen' \in 0..MaxSentences /\ session' = session
         /\ seen \in Nat /\ session \in Nat
<1> DEFINE s == [n |-> seen + 1, session |-> session, len |-> len]
<1>1. Batch(len) = Append(Kept(len), s)
  BY DEF Batch
<1> USE ConstantsAssumption DEF SenderInv
<1>2. s \in Sentence
  BY DEF Accepted, Sentence
<1> HIDE DEF s
<1>3. Kept(len) \in Seq(Sentence) /\ Kept(len) \in {send_buff, <<>>}
  BY DEF Kept
<1>4. Batch(len) \in Seq(Sentence) /\ Len(Batch(len)) = Len(Kept(len)) + 1
  BY <1>1, <1>2, <1>3
<1>5. Newest(Batch(len)) = s
  BY <1>1, <1>2, <1>3, <1>4 DEF Newest
<1>6. \A i \in 1..Len(Kept(len)) : Batch(len)[i] = Kept(len)[i]
  BY <1>1, <1>2, <1>3
<1>7. \A i \in 1..Len(Kept(len)) : Batch(len)[i] = send_buff[i]
  BY <1>3, <1>6
<1>8. QED  BY <1>2, <1>3, <1>4, <1>5, <1>7 DEF Accepted, s

\* A batch is a run that ends with the sentence just accepted, and starts after the last.
LEMMA BatchFacts ==
  ASSUME SenderInv, NEW len \in Lens, Accepted, NEW batch, batch = Batch(len)
  PROVE  /\ Run(batch, seen' - Len(batch) + 1, seen') /\ Len(batch) >= 1
         /\ datagram.batch # <<>> => Newest(datagram.batch).n < batch[1].n
         /\ datagram.batch # <<>> => Newest(datagram.batch).n <= seen' - Len(batch)
         /\ \A i \in 1..Len(batch) : batch[i].session <= session
         /\ datagram.batch # <<>> /\ Newest(datagram.batch).session = session =>
              \A i \in 1..Len(batch) : batch[i].session = session
<1> USE ConstantsAssumption
<1>1. /\ batch \in Seq(Sentence) /\ Len(batch) = Len(Kept(len)) + 1
      /\ Kept(len) \in {send_buff, <<>>}
      /\ Newest(batch) = [n |-> seen + 1, session |-> session, len |-> len]
      /\ \A i \in 1..Len(Kept(len)) : batch[i] = send_buff[i]
      /\ seen' = seen + 1 /\ seen \in Nat /\ session \in Nat
  BY AppendFacts
<1>2. Len(Kept(len)) \in Nat /\ Len(Kept(len)) \in {Len(send_buff), 0} /\ Len(send_buff) \in Nat
  BY <1>1 DEF SenderInv
<1>3. batch[Len(batch)].n = seen' /\ batch[Len(batch)].session = session
  BY <1>1 DEF Newest
<1>4. \A i \in 1..Len(batch) : batch[i].n = seen' - Len(batch) + 1 + i - 1
  <2> SUFFICES ASSUME NEW i \in 1..Len(batch)
               PROVE  batch[i].n = seen' - Len(batch) + 1 + i - 1
    OBVIOUS
  <2>1. CASE i = Len(batch)
    BY <1>1, <1>2, <1>3, <2>1
  <2>2. CASE i # Len(batch)
    <3>1. i \in 1..Len(Kept(len)) /\ Len(Kept(len)) = Len(send_buff)
      BY <1>1, <1>2, <2>2
    <3>2. send_buff[i].n = seen - Len(send_buff) + 1 + i - 1
      BY <3>1 DEF SenderInv, Numbered, Run
    <3>3. batch[i] = send_buff[i]
      BY <1>1, <3>1
    <3>4. seen - Len(send_buff) = seen' - Len(batch)
      BY <1>1, <1>2, <3>1
    <3>5. QED  BY <3>2, <3>3, <3>4
  <2>3. QED  BY <2>1, <2>2
<1>5. Run(batch, seen' - Len(batch) + 1, seen') /\ Len(batch) >= 1
  BY <1>1, <1>2, <1>4 DEF Run
<1>6. datagram.batch # <<>> =>
        /\ Newest(datagram.batch).n \in Nat
        /\ Newest(datagram.batch).n <= seen - Len(send_buff)
  <2>1. datagram.batch \in Seq(Sentence)
    BY DEF SenderInv, Batches
  <2>2. datagram.batch # <<>> => Newest(datagram.batch) \in Sentence
    BY <2>1 DEF Newest
  <2>3. QED  BY <2>2 DEF SenderInv, Numbered, Sentence
<1>7. batch[1].n = seen' - Len(batch) + 1
  BY <1>1, <1>2, <1>4
<1>8. \A i \in 1..Len(batch) :
        i = Len(batch) \/ (i \in 1..Len(send_buff) /\ batch[i] = send_buff[i])
  BY <1>1, <1>2
<1>9. /\ \A i \in 1..Len(batch) : batch[i].session <= session
      /\ datagram.batch # <<>> /\ Newest(datagram.batch).session = session =>
           \A i \in 1..Len(batch) : batch[i].session = session
  BY <1>1, <1>3, <1>8 DEF SenderInv, Sessions
<1>10. QED  BY <1>1, <1>2, <1>5, <1>6, <1>7, <1>9

LEMMA SenderInit == Init => SenderInv
BY ConstantsAssumption
   DEF Init, SenderInv, NoBatch, Batches, Numbered, Sessions, Run

LEMMA CollectKeeps ==
  ASSUME SenderInv, NEW len \in Lens, NEW gga \in BOOLEAN, Nmea(len, gga)
  PROVE  SenderInv'
<1> USE ConstantsAssumption
<1> DEFINE batch == Batch(len)
           size == KeptSize(len) + len + 1
<1>1. Accepted
  BY DEF Nmea, Accepted
<1>2. /\ batch \in Seq(Sentence) /\ seen' = seen + 1 /\ seen' \in 0..MaxSentences
      /\ session' = session /\ seen \in Nat
      /\ Newest(batch) = [n |-> seen + 1, session |-> session, len |-> len]
  BY <1>1, AppendFacts
<1>3. /\ batch \in Seq(Sentence) /\ seen' = seen + 1 /\ seen' \in 0..MaxSentences
      /\ session' = session /\ seen \in Nat
      /\ Newest(batch).n = seen' /\ Newest(batch).session = session
  BY <1>2
<1>4. /\ Run(batch, seen' - Len(batch) + 1, seen') /\ Len(batch) >= 1
      /\ datagram.batch # <<>> => Newest(datagram.batch).n <= seen' - Len(batch)
      /\ \A i \in 1..Len(batch) : batch[i].session <= session
      /\ datagram.batch # <<>> /\ Newest(datagram.batch).session = session =>
           \A i \in 1..Len(batch) : batch[i].session = session
  BY <1>1, BatchFacts
<1>5. size \in 0..Cap + 1
  BY SizeBound DEF SenderInv
<1>6. /\ gga => /\ send_buff' = <<>> /\ send_to_size' = 0
                /\ datagram' = [batch |-> batch, size |-> size]
      /\ ~gga => send_buff' = batch /\ send_to_size' = size /\ datagram' = datagram
  BY DEF Nmea, Collect, Reset
<1> HIDE DEF batch, size
<1>7. CASE gga
  <2>1. send_buff' = <<>> /\ Len(send_buff') = 0 /\ datagram'.batch = batch
    BY <1>6, <1>7
  <2>2. datagram' \in Batches
    BY <1>3, <1>5, <1>6, <1>7 DEF Batches
  <2>3. Numbered'
    BY <1>3, <2>1 DEF Numbered, Run, Newest
  <2>4. Sessions'
    BY <1>3, <1>4, <2>1 DEF Sessions
  <2>5. send_buff' \in Seq(Sentence) /\ send_to_size' \in 0..Cap + 1
    BY <1>5, <1>6, <1>7, <2>1
  <2>6. QED  BY <1>3, <2>2, <2>3, <2>4, <2>5 DEF SenderInv
<1>8. CASE ~gga
  <2>1. send_buff' = batch /\ datagram' = datagram
    BY <1>6, <1>8
  <2>2. Numbered'
    BY <1>3, <1>4, <2>1 DEF Numbered, Newest
  <2>3. Sessions'
    BY <1>3, <1>4, <2>1 DEF Sessions, SenderInv, Newest
  <2>4. QED  BY <1>3, <1>5, <1>6, <1>8, <2>1, <2>2, <2>3 DEF SenderInv
<1>9. QED  BY <1>7, <1>8

LEMMA NewSessionKeeps == ASSUME SenderInv, NewSession PROVE SenderInv'
<1> USE ConstantsAssumption
<1>1. /\ UNCHANGED <<send_buff, send_to_size, datagram, seen>>
      /\ session' = session + 1 /\ session' \in 1..MaxSessions /\ session \in Nat
  BY DEF NewSession, SenderInv
<1>2. \A i \in 1..Len(send_buff) : send_buff[i] \in Sentence
  BY DEF SenderInv
<1>3. datagram.batch \in Seq(Sentence)
  BY DEF SenderInv, Batches
<1>4. \A i \in 1..Len(datagram.batch) : datagram.batch[i] \in Sentence
  BY <1>3
<1>5. Sessions'
  <2>1. datagram.batch # <<>> => Len(datagram.batch) \in 1..Len(datagram.batch)
    BY <1>3
  <2>2. \A k \in Nat : k <= session => k # session + 1 /\ k <= session + 1
    BY <1>1
  <2>3. \A i \in 1..Len(send_buff) : send_buff[i].session \in Nat
    BY <1>2 DEF Sentence
  <2>4. \A i \in 1..Len(datagram.batch) : datagram.batch[i].session \in Nat
    BY <1>4 DEF Sentence
  <2>5. /\ \A i \in 1..Len(send_buff) : send_buff[i].session <= session'
        /\ \A i \in 1..Len(datagram.batch) : datagram.batch[i].session <= session'
        /\ \A i \in 1..Len(datagram.batch) : datagram.batch[i].session # session'
    BY <1>1, <2>2, <2>3, <2>4 DEF Sessions, SenderInv
  <2>6. datagram.batch # <<>> => Newest(datagram.batch).session # session'
    BY <2>1, <2>5 DEF Newest
  <2>7. QED  BY <1>1, <2>5, <2>6 DEF Sessions, Newest
<1>6. Numbered'
  BY <1>1 DEF Numbered, SenderInv, Run, Newest
<1>7. QED  BY <1>1, <1>5, <1>6 DEF SenderInv

-----------------------------------------------------------------------------
(* The poll.                                                               *)

\* What waits for a call was all sent since it was made, and after what the caller has.
Waiting ==
  /\ socket \in Seq(Batches)
  /\ \A i \in 1..Len(socket) :
       LET batch == socket[i].batch
       IN  /\ batch # <<>> /\ datagram.batch # <<>>
           /\ since < Newest(batch).n /\ Newest(batch).n <= Newest(datagram.batch).n
           /\ buff.batch # <<>> => Newest(buff.batch).n < batch[1].n

PollInv ==
  /\ SenderInv /\ ChannelTypeOK /\ Waiting
  /\ ~bound => socket = <<>>
  /\ buff \in Batches
  /\ buff.batch # <<>> =>
       datagram.batch # <<>> /\ Newest(buff.batch).n <= Newest(datagram.batch).n

LEMMA PollInit == ChannelInit => PollInv
<1> SUFFICES ASSUME ChannelInit PROVE PollInv
  OBVIOUS
<1>1. SenderInv
  BY SenderInit DEF ChannelInit
<1>2. NoBatch \in Batches
  BY ConstantsAssumption DEF NoBatch, Batches
<1>3. TypeOK
  BY <1>1 DEF TypeOK, SenderInv, Batches
<1>4. ChannelTypeOK
  <2>1. buff.batch \in Seq(Sentence) /\ buff.size \in 0..Cap + 1 /\ bound \in BOOLEAN
        /\ buff_len \in BuffLens \cup {0}
    BY <1>2 DEF ChannelInit, Batches
  <2>2. result \in -1..IPC_BUFF_SIZE /\ since \in 0..seen /\ Len(socket) <= seen - since
    BY <1>1, ConstantsAssumption, ChannelConstants DEF ChannelInit, SenderInv
  <2>3. QED  BY <1>3, <2>1, <2>2, Zenon DEF ChannelTypeOK
<1>5. Waiting
  BY DEF Waiting, ChannelInit
<1>6. QED  BY <1>1, <1>2, <1>4, <1>5 DEF PollInv, ChannelInit, NoBatch

\* A batch that is sent comes after all that was sent before.
LEMMA SendKeeps ==
  ASSUME PollInv, NEW len \in Lens, Nmea(len, TRUE),
         socket' \in {socket} \cup (IF bound THEN {Append(socket, datagram')} ELSE {}),
         UNCHANGED <<bound, buff_len, buff, result, since>>
  PROVE  PollInv'
<1> USE ConstantsAssumption
<1> DEFINE batch == Batch(len)
<1>1. SenderInv' /\ SenderInv
  BY CollectKeeps DEF PollInv
<1>2. datagram' = [batch |-> batch, size |-> KeptSize(len) + len + 1] /\ datagram' \in Batches
  BY <1>1 DEF Nmea, Collect, SenderInv
<1>3. Accepted
  BY DEF Nmea, Accepted
<1>4. /\ batch \in Seq(Sentence) /\ seen' = seen + 1 /\ seen \in Nat
      /\ Newest(batch) = [n |-> seen + 1, session |-> session, len |-> len]
  BY <1>3, <1>1, AppendFacts
<1>5. Len(batch) >= 1 /\ (datagram.batch # <<>> => Newest(datagram.batch).n < batch[1].n)
  BY <1>3, <1>1, BatchFacts
<1>6. datagram'.batch = batch /\ batch \in Seq(Sentence) /\ Len(batch) >= 1
      /\ Newest(batch).n = seen' /\ seen' = seen + 1 /\ seen \in Nat
      /\ (datagram.batch # <<>> => Newest(datagram.batch).n < batch[1].n)
  BY <1>2, <1>4, <1>5
<1>7. datagram.batch # <<>> =>
        Newest(datagram.batch).n \in Nat /\ Newest(datagram.batch).n <= seen
  <2>1. datagram.batch \in Seq(Sentence) /\ Len(send_buff) \in Nat
    BY <1>1 DEF SenderInv, Batches
  <2>2. datagram.batch # <<>> => Newest(datagram.batch) \in Sentence
    BY <2>1 DEF Newest
  <2>3. datagram.batch # <<>> => Newest(datagram.batch).n \in Nat
    BY <2>2 DEF Sentence
  <2>4. datagram.batch # <<>> => Newest(datagram.batch).n <= seen - Len(send_buff)
    BY <1>1 DEF SenderInv, Numbered
  <2>5. QED  BY <1>6, <2>1, <2>3, <2>4
<1>8. batch[1].n \in Nat /\ batch # <<>>
  <2>1. batch[1] \in Sentence
    BY <1>6
  <2>2. QED  BY <1>6, <2>1 DEF Sentence
<1> HIDE DEF batch
<1>9. \A d \in Batches : d.batch # <<>> => Newest(d.batch).n \in Nat
  <2> SUFFICES ASSUME NEW d \in Batches, d.batch # <<>> PROVE Newest(d.batch).n \in Nat
    OBVIOUS
  <2>1. d.batch \in Seq(Sentence)
    BY DEF Batches
  <2>2. Newest(d.batch) \in Sentence
    BY <2>1 DEF Newest
  <2>3. QED  BY <2>2 DEF Sentence
<1>10. buff \in Batches /\ buff' = buff /\ since' = since /\ since \in 0..seen
  BY DEF PollInv, ChannelTypeOK
<1>11. buff.batch # <<>> => Newest(buff.batch).n < batch[1].n /\ Newest(buff.batch).n <= seen
  BY <1>6, <1>7, <1>8, <1>9, <1>10 DEF PollInv
<1>12. socket \in Seq(Batches) /\ socket' \in Seq(Batches)
      /\ Len(socket') <= Len(socket) + 1
      /\ \A i \in 1..Len(socket') :
           socket'[i] = datagram' \/ (i \in 1..Len(socket) /\ socket'[i] = socket[i])
  BY <1>2 DEF PollInv, Waiting
<1>13. Waiting'
  <2> SUFFICES ASSUME NEW i \in 1..Len(socket')
               PROVE  /\ socket'[i].batch # <<>>
                      /\ since < Newest(socket'[i].batch).n
                      /\ Newest(socket'[i].batch).n <= Newest(batch).n
                      /\ buff.batch # <<>> => Newest(buff.batch).n < socket'[i].batch[1].n
    BY <1>6, <1>8, <1>10, <1>12, Zenon DEF Waiting, Newest
  <2>1. CASE socket'[i] = datagram'
    BY <1>6, <1>8, <1>10, <1>11, <2>1
  <2>2. CASE i \in 1..Len(socket) /\ socket'[i] = socket[i]
    <3>1. socket[i] \in Batches
      BY <1>12, <2>2
    <3>2. Newest(socket[i].batch).n \in Nat /\ socket[i].batch # <<>>
      BY <1>9, <2>2, <3>1 DEF PollInv, Waiting
    <3>3. QED  BY <1>6, <1>7, <2>2, <3>2 DEF PollInv, Waiting
  <2>3. QED  BY <1>12, <2>1, <2>2
<1>14. ChannelTypeOK'
  <2>1. TypeOK'
    BY <1>1 DEF TypeOK, SenderInv, Batches
  <2>2. Len(socket') <= seen' - since' /\ since' \in 0..seen'
    <3>1. Len(socket) <= seen - since
      BY DEF PollInv, ChannelTypeOK
    <3>2. QED  BY <1>6, <1>10, <1>12, <3>1
  <2>3. bound' \in BOOLEAN /\ result' \in -1..IPC_BUFF_SIZE /\ buff_len' \in BuffLens \cup {0}
    BY DEF PollInv, ChannelTypeOK
  <2>4. buff'.batch \in Seq(Sentence) /\ buff'.size \in 0..Cap + 1
    BY <1>10 DEF Batches
  <2>5. QED  BY <2>1, <2>2, <2>3, <2>4, Zenon DEF ChannelTypeOK
<1>15. ~bound' => socket' = <<>>
  BY DEF PollInv
<1>16. buff'.batch # <<>> =>
         datagram'.batch # <<>> /\ Newest(buff'.batch).n <= Newest(datagram'.batch).n
  <2>1. buff.batch # <<>> => Newest(buff.batch).n \in Nat
    BY <1>9, <1>10
  <2>2. QED  BY <1>6, <1>8, <1>10, <1>11, <2>1
<1>17. QED  BY <1>1, <1>10, <1>13, <1>14, <1>15, <1>16 DEF PollInv

\* A sentence that is only collected, and a new session, leave the channel alone.
LEMMA QuietKeeps ==
  ASSUME PollInv, SenderInv', UNCHANGED <<callVars, datagram>>, seen' >= seen
  PROVE  PollInv'
<1> USE ConstantsAssumption
<1>1. UNCHANGED <<bound, socket, buff_len, buff, result, since>> /\ datagram' = datagram
  BY DEF callVars
<1>2. Waiting'
  BY <1>1, Zenon DEF PollInv, Waiting, Newest
<1>3. ChannelTypeOK'
  <2>1. TypeOK'
    BY DEF TypeOK, SenderInv, Batches
  <2>2. /\ bound' \in BOOLEAN /\ result' \in -1..IPC_BUFF_SIZE /\ buff_len' \in BuffLens \cup {0}
        /\ buff'.batch \in Seq(Sentence) /\ buff'.size \in 0..Cap + 1
    BY <1>1 DEF PollInv, ChannelTypeOK
  <2>3. since' \in 0..seen' /\ Len(socket') <= seen' - since'
    <3>1. Len(socket) \in Nat
      BY DEF PollInv, Waiting
    <3>2. QED  BY <1>1, <3>1 DEF PollInv, ChannelTypeOK, SenderInv
  <2>4. QED  BY <2>1, <2>2, <2>3, Zenon DEF ChannelTypeOK
<1>4. QED  BY <1>1, <1>2, <1>3 DEF PollInv, Newest

\* A new call starts with an empty socket.
LEMMA BindKeeps == ASSUME PollInv, Bind PROVE PollInv'
<1>1. UNCHANGED <<send_buff, send_to_size, datagram, seen, session, socket, buff, result>>
      /\ bound' = TRUE /\ since' = seen /\ socket = <<>> /\ buff_len' \in BuffLens
  BY DEF Bind, vars, PollInv
<1>2. SenderInv'
  BY <1>1 DEF PollInv, SenderInv, Numbered, Sessions, Run, Newest
<1>3. ChannelTypeOK'
  <2>1. TypeOK'
    BY <1>1 DEF TypeOK, PollInv, ChannelTypeOK
  <2>2. since' \in 0..seen' /\ Len(socket') <= seen' - since'
    BY <1>1, ConstantsAssumption DEF PollInv, SenderInv
  <2>3. QED  BY <1>1, <2>1, <2>2 DEF ChannelTypeOK, PollInv
<1>4. Waiting'
  BY <1>1 DEF Waiting
<1>5. QED  BY <1>1, <1>2, <1>3, <1>4 DEF PollInv, Newest

LEMMA FailsKeeps == ASSUME PollInv, Fails PROVE PollInv'
<1>1. UNCHANGED <<send_buff, send_to_size, datagram, seen, session, socket, buff_len, buff,
                  since>>
      /\ bound' = FALSE /\ result' = -1 /\ socket = <<>>
  BY DEF Fails, vars, PollInv
<1>2. SenderInv'
  BY <1>1 DEF PollInv, SenderInv, Numbered, Sessions, Run, Newest
<1>3. ChannelTypeOK'
  <2>1. TypeOK'
    BY <1>1 DEF TypeOK, PollInv, ChannelTypeOK
  <2>2. result' \in -1..IPC_BUFF_SIZE
    BY <1>1, ConstantsAssumption, ChannelConstants
  <2>3. QED  BY <1>1, <2>1, <2>2 DEF ChannelTypeOK, PollInv
<1>4. Waiting'
  BY <1>1 DEF Waiting
<1>5. QED  BY <1>1, <1>2, <1>3, <1>4 DEF PollInv, Newest

\* What a call takes off the socket: the first batch of those that wait.
LEMMA Delivered ==
  ASSUME PollInv, Receive
  PROVE  /\ Head(socket) \in Batches /\ Head(socket).batch # <<>>
         /\ since < Newest(Head(socket).batch).n
         /\ Newest(Head(socket).batch).n <= Newest(datagram.batch).n
         /\ datagram.batch # <<>>
         /\ buff.batch # <<>> => Newest(buff.batch).n < Head(socket).batch[1].n
         /\ buff' \in {Head(socket), buff}
         /\ HandedOver => buff' = Head(socket)
<1>1. socket \in Seq(Batches) /\ socket # <<>>
  BY DEF PollInv, Waiting, Receive
<1>2. 1 \in 1..Len(socket) /\ Head(socket) = socket[1] /\ socket[1] \in Batches
  BY <1>1
<1>3. buff' \in {Head(socket), buff}
  BY DEF Receive
<1>4. HandedOver => buff' = Head(socket)
  <2>1. Head(socket).size \in Nat
    BY <1>2, ConstantsAssumption DEF Batches
  <2>2. QED  BY <2>1, ConstantsAssumption, ChannelConstants DEF Receive, Fits, HandedOver
<1>5. QED  BY <1>2, <1>3, <1>4, Zenon DEF PollInv, Waiting

LEMMA ReceiveKeeps == ASSUME PollInv, Receive PROVE PollInv'
<1>1. UNCHANGED <<send_buff, send_to_size, datagram, seen, session, buff_len, since>>
      /\ bound' = FALSE /\ socket' = <<>>
  BY DEF Receive, vars, AtClose
<1>2. SenderInv'
  BY <1>1 DEF PollInv, SenderInv, Numbered, Sessions, Run, Newest
<1>3. buff' \in Batches
  BY Delivered DEF PollInv
<1>4. buff'.batch # <<>> =>
        datagram'.batch # <<>> /\ Newest(buff'.batch).n <= Newest(datagram'.batch).n
  BY <1>1, Delivered, Zenon DEF PollInv
<1>5. ChannelTypeOK'
  <2>1. TypeOK'
    BY <1>1 DEF TypeOK, PollInv, ChannelTypeOK
  <2>2. result' \in -1..IPC_BUFF_SIZE
    <3>1. Head(socket).size \in 0..Cap + 1
      BY Delivered DEF Batches
    <3>2. QED  BY <3>1, ConstantsAssumption, ChannelConstants DEF Receive
  <2>3. since' \in 0..seen' /\ Len(socket') <= seen' - since'
    BY <1>1, ConstantsAssumption DEF PollInv, SenderInv, ChannelTypeOK
  <2>4. buff'.batch \in Seq(Sentence) /\ buff'.size \in 0..Cap + 1
    BY <1>3 DEF Batches
  <2>5. buff_len' \in BuffLens \cup {0}
    BY <1>1 DEF PollInv, ChannelTypeOK
  <2>6. QED  BY <1>1, <2>1, <2>2, <2>3, <2>4, <2>5 DEF ChannelTypeOK
<1>6. Waiting'
  BY <1>1 DEF Waiting
<1>7. QED  BY <1>1, <1>2, <1>3, <1>4, <1>5, <1>6 DEF PollInv

LEMMA PollStep == PollInv /\ [ChannelNext]_channelVars => PollInv'
<1> SUFFICES ASSUME PollInv, [ChannelNext]_channelVars PROVE PollInv'
  OBVIOUS
<1>1. ASSUME NewSession, UNCHANGED callVars PROVE PollInv'
  <2>1. SenderInv' /\ UNCHANGED <<datagram, seen>> /\ seen \in Nat
    BY <1>1, NewSessionKeeps, ConstantsAssumption DEF PollInv, SenderInv, NewSession
  <2>2. QED  BY <1>1, <2>1, QuietKeeps
<1>2. ASSUME NEW len \in Lens, Nmea(len, FALSE), UNCHANGED callVars PROVE PollInv'
  <2>1. SenderInv'
    BY <1>2, CollectKeeps DEF PollInv
  <2>2. UNCHANGED datagram /\ seen' = seen + 1 /\ seen \in Nat
    BY <1>2, ConstantsAssumption DEF Nmea, Collect, PollInv, SenderInv
  <2>3. QED  BY <1>2, <2>1, <2>2, QuietKeeps
<1>3. ASSUME NEW len \in Lens, Nmea(len, TRUE), UNCHANGED <<bound, buff_len, buff, result, since>>,
             socket' \in {socket} \cup (IF bound THEN {Append(socket, datagram')} ELSE {})
      PROVE  PollInv'
  BY <1>3, SendKeeps
<1>4. CASE UNCHANGED channelVars
  <2>1. SenderInv' /\ UNCHANGED <<datagram, seen, callVars>> /\ seen \in Nat
    BY <1>4, ConstantsAssumption
       DEF channelVars, vars, PollInv, SenderInv, Numbered, Sessions, Run, Newest
  <2>2. QED  BY <2>1, QuietKeeps
<1>5. QED
  BY <1>1, <1>2, <1>3, <1>4, BindKeeps, FailsKeeps, ReceiveKeeps DEF ChannelNext, Sender

THEOREM PollInvariant == ChannelSpec => []PollInv
BY PollInit, PollStep, PTL DEF ChannelSpec

-----------------------------------------------------------------------------
(* The properties.                                                         *)

\* The callback's buffer and the channel keep their types and bounds: never more than the
\* capacity and one character, and no more batches wait than sentences have come.
THEOREM ChannelTypes == ChannelSpec => []ChannelTypeOK
BY PollInvariant, PTL DEF PollInv

\* What a step of the channel is to the batches.
LEMMA Broadcasts ==
  ASSUME PollInv, [ChannelNext]_channelVars, datagram' # datagram
  PROVE  \E len \in Lens : Nmea(len, TRUE) /\ datagram'.batch = Batch(len)
<1>1. CASE Sender
  BY <1>1 DEF Sender, NewSession, Nmea, Collect
<1>2. CASE Bind \/ Fails \/ Receive \/ UNCHANGED channelVars
  BY <1>2 DEF Bind, Fails, Receive, channelVars, vars
<1>3. QED  BY <1>1, <1>2 DEF ChannelNext

\* Batches go out in order: none repeats a sentence, and none misses one inside.
THEOREM BatchesOrdered == ChannelSpec => BatchesInOrder
<1>1. ASSUME PollInv, [ChannelNext]_channelVars, datagram' # datagram
      PROVE  LET batch == datagram'.batch
             IN  /\ batch # <<>> /\ Run(batch, batch[1].n, seen')
                 /\ datagram.batch # <<>> => Newest(datagram.batch).n < batch[1].n
  <2>1. PICK len \in Lens : Nmea(len, TRUE) /\ datagram'.batch = Batch(len)
    BY <1>1, Broadcasts
  <2> DEFINE batch == datagram'.batch
  <2>2. SenderInv /\ Accepted
    BY <1>1, <2>1 DEF PollInv, Accepted, Nmea
  <2>3. /\ Run(batch, seen' - Len(batch) + 1, seen') /\ Len(batch) >= 1
        /\ datagram.batch # <<>> => Newest(datagram.batch).n < batch[1].n
    BY <2>1, <2>2, BatchFacts
  <2>4. Len(batch) \in Nat /\ seen' \in Nat
    BY <2>1, <2>2, AppendFacts, ConstantsAssumption
  <2>5. batch[1].n = seen' - Len(batch) + 1
    BY <2>3, <2>4 DEF Run
  <2>6. QED  BY <2>3, <2>4, <2>5
<1>2. PollInv /\ [ChannelNext]_channelVars =>
        [datagram' # datagram =>
           LET before == datagram.batch
               batch == datagram'.batch
           IN  /\ batch # <<>> /\ Run(batch, batch[1].n, seen')
               /\ before # <<>> => Newest(before).n < batch[1].n]_vars
  BY <1>1
<1>3. QED  BY <1>2, PollInvariant, PTL DEF ChannelSpec, BatchesInOrder

\* Positions of a stopped session reach nobody after the first batch of the next.
THEOREM StaleFirst == ChannelSpec => StaleOnlyFirst
<1>1. ASSUME PollInv, [ChannelNext]_channelVars, datagram' # datagram,
             datagram.batch # <<>>, Newest(datagram.batch).session = session
      PROVE  \A i \in 1..Len(datagram'.batch) : datagram'.batch[i].session = session
  <2>1. PICK len \in Lens : Nmea(len, TRUE) /\ datagram'.batch = Batch(len)
    BY <1>1, Broadcasts
  <2>2. SenderInv /\ Accepted
    BY <1>1, <2>1 DEF PollInv, Accepted, Nmea
  <2>3. QED  BY <1>1, <2>1, <2>2, BatchFacts
<1>2. PollInv /\ [ChannelNext]_channelVars =>
        [datagram' # datagram /\ datagram.batch # <<>>
            /\ Newest(datagram.batch).session = session
           => \A i \in 1..Len(datagram'.batch) : datagram'.batch[i].session = session]_vars
  BY <1>1
<1>3. QED  BY <1>2, PollInvariant, PTL DEF ChannelSpec, StaleOnlyFirst

\* Whatever is lost or missed, no sentence is handed over twice or out of order.
THEOREM ReceivedOnceEach == ChannelSpec => ReceivedOnce
<1>1. PollInv /\ [ChannelNext]_channelVars =>
        [HandedOver /\ buff.batch # <<>>
           => Newest(buff.batch).n < buff'.batch[1].n]_channelVars
  BY Delivered DEF HandedOver
<1>2. QED  BY <1>1, PollInvariant, PTL DEF ChannelSpec, ReceivedOnce

\* The fix a call returns with was taken after the call was made.
THEOREM FixIsFresh == ChannelSpec => FreshFix
<1>1. PollInv /\ [ChannelNext]_channelVars =>
        [HandedOver => Newest(buff'.batch).n > since]_channelVars
  <2> SUFFICES ASSUME PollInv, HandedOver PROVE Newest(buff'.batch).n > since
    OBVIOUS
  <2>1. buff' = Head(socket) /\ since < Newest(Head(socket).batch).n
    BY Delivered DEF HandedOver
  <2>2. QED  BY <2>1
<1>2. QED  BY <1>1, PollInvariant, PTL DEF ChannelSpec, FreshFix

-----------------------------------------------------------------------------
(* The size that is counted next to a batch.                               *)

\* The recursion that counts a batch has a value: a total kept character by character.
LEMMA LengthFacts ==
  ASSUME NEW s \in Seq(Sentence)
  PROVE  \E f \in [0..Len(s) -> Nat] :
           /\ f[0] = 0 /\ \A i \in 1..Len(s) : f[i] = f[i - 1] + s[i].len + 1
           /\ Length(s) = f[Len(s)]
<1> DEFINE Def(f) == [i \in 0..Len(s) |-> IF i = 0 THEN 0 ELSE f[i - 1] + s[i].len + 1]
           upTo == CHOOSE f : f = Def(f)
           step == [i \in 1..Len(s) |-> [v \in Nat |-> v + s[i].len + 1]]
<1>1. Length(s) = upTo[Len(s)]
  BY DEF Length
<1>2. Len(s) \in Nat /\ \A i \in 1..Len(s) : s[i].len \in Nat
  <2>1. \A x \in Sentence : x.len \in Lens
    BY DEF Sentence
  <2>2. Len(s) \in Nat /\ \A i \in 1..Len(s) : s[i] \in Sentence
    OBVIOUS
  <2>3. Lens \subseteq Nat
    BY ConstantsAssumption
  <2>4. QED  BY <2>1, <2>2, <2>3
<1>3. \A v \in Nat, i \in 1..Len(s) : step[i][v] = v + s[i].len + 1 /\ step[i][v] \in Nat
  BY <1>2
<1>4. PICK f : Iterates(f, Nat, 0, Len(s), step)
  <2>1. step \in [1..Len(s) -> [Nat -> Nat]]
    BY <1>2 DEF step
  <2> HIDE DEF step
  <2>2. QED  BY <1>2, <2>1, Iteration
<1>5. /\ f \in [0..Len(s) -> Nat] /\ f[0] = 0
      /\ \A i \in 1..Len(s) : f[i] = f[i - 1] + s[i].len + 1
  <2> HIDE DEF step
  <2>1. f \in [0..Len(s) -> Nat] /\ f[0] = 0
    BY <1>4 DEF Iterates
  <2>2. ASSUME NEW i \in 1..Len(s) PROVE f[i] = f[i - 1] + s[i].len + 1
    <3>1. i - 1 \in 0..Len(s) /\ f[i - 1] \in Nat
      BY <1>2, <2>1
    <3>2. f[i] = step[i][f[i - 1]]
      BY <1>4 DEF Iterates
    <3>3. QED  BY <1>3, <3>1, <3>2
  <2>3. QED  BY <2>1, <2>2
<1>6. f = Def(f)
  <2> HIDE DEF step
  <2>1. QED  BY <1>5
<1>7. upTo = Def(upTo)
  <2> HIDE DEF Def
  <2>1. QED  BY <1>6
<1>8. /\ upTo[0] = 0
      /\ \A i \in 1..Len(s) : upTo[i] = upTo[i - 1] + s[i].len + 1
      /\ DOMAIN upTo = 0..Len(s) /\ upTo = [i \in 0..Len(s) |-> upTo[i]]
  <2> HIDE DEF upTo
  <2>1. QED  BY <1>7
<1>9. Iterates(upTo, Nat, 0, Len(s), step)
  <2>1. step \in [1..Len(s) -> [Nat -> Nat]]
    BY <1>2
  <2>2. \A i \in 1..Len(s) : upTo[i - 1] \in Nat => upTo[i] = step[i][upTo[i - 1]]
    <3> HIDE DEF upTo
    <3>1. QED  BY <1>8
  <2> HIDE DEF upTo, step
  <2>3. QED  BY <1>2, <1>8, <2>1, <2>2, Iterating
<1>10. QED
  <2> HIDE DEF upTo, step
  <2>1. QED  BY <1>1, <1>8, <1>9 DEF Iterates

\* An empty buffer has no characters; a sentence adds its own and a carriage return.
LEMMA LengthOfEmpty == Length(<<>>) = 0
<1>1. <<>> \in Seq(Sentence) /\ Len(<<>>) = 0
  OBVIOUS
<1>2. QED  BY <1>1, LengthFacts

LEMMA LengthOfAppend ==
  ASSUME NEW s \in Seq(Sentence), NEW x \in Sentence
  PROVE  Length(Append(s, x)) = Length(s) + x.len + 1
<1> DEFINE t == Append(s, x)
<1>1. Len(s) \in Nat /\ t \in Seq(Sentence) /\ Len(t) = Len(s) + 1 /\ t[Len(t)] = x
      /\ \A i \in 1..Len(s) : t[i] = s[i]
  OBVIOUS
<1>2. PICK f \in [0..Len(s) -> Nat] :
           /\ f[0] = 0 /\ \A i \in 1..Len(s) : f[i] = f[i - 1] + s[i].len + 1
           /\ Length(s) = f[Len(s)]
  BY LengthFacts
<1>3. PICK g \in [0..Len(t) -> Nat] :
           /\ g[0] = 0 /\ \A i \in 1..Len(t) : g[i] = g[i - 1] + t[i].len + 1
           /\ Length(t) = g[Len(t)]
  BY <1>1, LengthFacts
<1> HIDE DEF t
<1> DEFINE P == {i \in Nat : i <= Len(s) => g[i] = f[i]}
<1>4. 0 \in P
  BY <1>2, <1>3
<1>9. ASSUME NEW i \in Nat, i \in P PROVE i + 1 \in P
  <2>1. SUFFICES ASSUME i + 1 <= Len(s) PROVE g[i + 1] = f[i + 1]
    OBVIOUS
  <2>2. i + 1 \in 1..Len(s) /\ i + 1 \in 1..Len(t) /\ (i + 1) - 1 = i /\ g[i] = f[i]
    BY <1>1, <1>9, <2>1
  <2>3. QED  BY <1>1, <1>2, <1>3, <2>2
<1>5. Nat \subseteq P
  <2> HIDE DEF P
  <2>1. QED  BY <1>4, <1>9, Induction
<1>6. g[Len(s)] = f[Len(s)]
  BY <1>5
<1>7. g[Len(t)] = g[Len(s)] + x.len + 1
  BY <1>1, <1>3
<1>8. QED  BY <1>2, <1>3, <1>6, <1>7 DEF t

\* The size the callback keeps is the length of its buffer, and so is the size of every
\* batch that waits for a caller.
Counted ==
  /\ send_to_size = Length(send_buff)
  /\ \A i \in 1..Len(socket) : socket[i].size = Length(socket[i].batch)

\* What is kept of the buffer, and the batch it becomes, are counted right.
LEMMA BatchCounted ==
  ASSUME PollInv, Counted, NEW len \in Lens, NEW gga \in BOOLEAN, Nmea(len, gga)
  PROVE  Length(Batch(len)) = KeptSize(len) + len + 1
<1> DEFINE s == [n |-> seen + 1, session |-> session, len |-> len]
<1>1. s \in Sentence /\ s.len = len
  BY ConstantsAssumption DEF Sentence, Nmea, PollInv, SenderInv
<1>2. Kept(len) \in Seq(Sentence)
  BY DEF Kept, PollInv, SenderInv
<1>3. Length(Kept(len)) = KeptSize(len)
  BY LengthOfEmpty DEF Kept, KeptSize, Counted
<1>4. Batch(len) = Append(Kept(len), s)
  BY DEF Batch
<1> HIDE DEF s
<1>5. QED  BY <1>1, <1>2, <1>3, <1>4, LengthOfAppend

LEMMA CountedStep == PollInv /\ Counted /\ [ChannelNext]_channelVars => Counted'
<1> SUFFICES ASSUME PollInv, Counted, [ChannelNext]_channelVars PROVE Counted'
  OBVIOUS
<1>1. ASSUME UNCHANGED <<send_buff, send_to_size>>, socket' \in {socket, <<>>}
      PROVE  Counted'
  <2>1. send_to_size' = Length(send_buff')
    BY <1>1 DEF Counted
  <2>2. \A i \in 1..Len(socket') : i \in 1..Len(socket) /\ socket'[i] = socket[i]
    BY <1>1
  <2>3. QED  BY <2>1, <2>2 DEF Counted
<1>2. ASSUME NEW len \in Lens, Nmea(len, FALSE), UNCHANGED socket PROVE Counted'
  <2>1. send_buff' = Batch(len) /\ send_to_size' = KeptSize(len) + len + 1
    BY <1>2 DEF Nmea, Collect
  <2>2. Length(send_buff') = send_to_size'
    BY <1>2, <2>1, BatchCounted
  <2>3. QED  BY <1>2, <2>2 DEF Counted
<1>3. ASSUME NEW len \in Lens, Nmea(len, TRUE),
             socket' \in {socket} \cup (IF bound THEN {Append(socket, datagram')} ELSE {})
      PROVE  Counted'
  <2>1. /\ send_buff' = <<>> /\ send_to_size' = 0
        /\ datagram' = [batch |-> Batch(len), size |-> KeptSize(len) + len + 1]
    BY <1>3 DEF Nmea, Collect, Reset
  <2>2. datagram'.size = Length(datagram'.batch)
    BY <1>3, <2>1, BatchCounted
  <2>3. datagram' \in Batches
    BY <1>3, CollectKeeps DEF PollInv, SenderInv
  <2>4. \A i \in 1..Len(socket') :
          socket'[i] = datagram' \/ (i \in 1..Len(socket) /\ socket'[i] = socket[i])
    BY <1>3, <2>3 DEF PollInv, Waiting
  <2>5. \A i \in 1..Len(socket') : socket'[i].size = Length(socket'[i].batch)
    BY <2>2, <2>4 DEF Counted
  <2>6. Length(send_buff') = send_to_size'
    BY <2>1, LengthOfEmpty
  <2>7. QED  BY <2>5, <2>6 DEF Counted, Length
<1>4. QED
  <2>1. CASE Sender
    <3>1. CASE NewSession /\ UNCHANGED callVars
      BY <1>1, <3>1 DEF NewSession, callVars
    <3>2. CASE ~NewSession \/ ~UNCHANGED callVars
      BY <1>2, <1>3, <2>1, <3>2 DEF Sender, callVars
    <3>3. QED  BY <3>1, <3>2
  <2>2. CASE Bind \/ Fails \/ Receive \/ UNCHANGED channelVars
    BY <1>1, <2>2 DEF Bind, Fails, Receive, AtClose, channelVars, callVars, vars
  <2>3. QED  BY <2>1, <2>2 DEF ChannelNext

THEOREM CountInvariant == ChannelSpec => []Counted
<1>1. ChannelInit => Counted
  BY LengthOfEmpty DEF ChannelInit, Init, Counted
<1>2. QED  BY <1>1, CountedStep, PollInvariant, PTL DEF ChannelSpec

\* A call hands over all of a batch, but for the carriage return that may not fit: the
\* size that was counted beside the buffer is its length, through every discard and reset.
THEOREM WholeBatch == ChannelSpec => ReceivedWhole
<1>1. PollInv /\ Counted /\ [ChannelNext]_channelVars =>
        [HandedOver => Length(buff'.batch) \in {result', result' + 1}]_channelVars
  <2> SUFFICES ASSUME PollInv, Counted, HandedOver
               PROVE  Length(buff'.batch) \in {result', result' + 1}
    OBVIOUS
  <2>1. buff' = Head(socket) /\ Head(socket) \in Batches
    BY Delivered DEF HandedOver
  <2>2. Head(socket).size = Length(Head(socket).batch)
    <3>1. 1 \in 1..Len(socket) /\ Head(socket) = socket[1]
      BY DEF PollInv, Waiting, HandedOver, Receive
    <3>2. QED  BY <3>1 DEF Counted
  <2>3. Head(socket).size \in 0..Cap + 1 /\ IPC_BUFF_SIZE = Cap /\ Cap \in Nat
    BY <2>1, ConstantsAssumption, ChannelConstants DEF Batches
  <2>4. result' = IF Head(socket).size > Cap THEN Cap ELSE Head(socket).size
    BY <2>3 DEF HandedOver, Receive
  <2>5. QED  BY <2>1, <2>2, <2>3, <2>4
<1>2. QED  BY <1>1, CountInvariant, PollInvariant, PTL DEF ChannelSpec, ReceivedWhole
=============================================================================
