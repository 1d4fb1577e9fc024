--------------------------- MODULE ReceiverProofs ---------------------------
(***************************************************************************)
(* The receiver's steps preserve the invariant of TrtpInv.                 *)
(***************************************************************************)
EXTENDS SenderProofs, SequenceTheorems

-----------------------------------------------------------------------------
\* A datagram leaves the channel.
LEMMA FwdTail ==
  ASSUME TypeInv, ProtocolInv, fwd # <<>>, fwd' = Tail(fwd),
         sendPktCount' = sendPktCount, faults' = faults
  PROVE  /\ FwdInv' /\ FwdSlack' = FwdSlack
         /\ FwdLate /\ receiver # "crashed" => Ordered(fwd', FwdSlack')
         /\ \A j \in DOMAIN fwd' : /\ j + 1 \in DOMAIN fwd /\ 1 < j + 1
                                   /\ fwd'[j] = fwd[j + 1]
                                   /\ fwd'[j] \in Packets
<1>1. fwd \in Seq(Packets) /\ FwdSlack' = FwdSlack
  BY Channels, SlackFrame
<1>2. \A j \in DOMAIN fwd' : /\ j + 1 \in DOMAIN fwd /\ 1 < j + 1
                             /\ fwd'[j] = fwd[j + 1] /\ fwd'[j] \in Packets
  BY <1>1, TailElements
<1>3. ASSUME FwdLate, receiver # "crashed" PROVE Ordered(fwd', FwdSlack)
  BY <1>1, <1>3, OrderedTail DEF FwdLate
<1>4. FwdInv'
  BY <1>2 DEF ProtocolInv, FwdInv
<1> QED BY <1>1, <1>2, <1>3, <1>4

\* The head of the channel is a packet of the stream, or what an unfilled slot
\* held.
LEMMA HeadSound ==
  ASSUME TypeInv, ProtocolInv, fwd # <<>>
  PROVE  /\ Head(fwd) \in Packets /\ 1 \in DOMAIN fwd /\ Head(fwd) = fwd[1]
         /\ Sound(Head(fwd), sendPktCount)
  BY Channels, HeadTail DEF ProtocolInv, FwdInv

\* Steps of the receiver leave the sender's part alone.
LEMMA ReceiverFrame ==
  ASSUME ProtocolInv, UNCHANGED senderVars
  PROVE  /\ WindowInv' /\ TimeInv' /\ BufInv' /\ LastAckInv'
         /\ UNCHANGED <<sender, sendPktCount, updateSendingTimeCount,
                        sendBufCount, receivingAvaiableSlotCount>>
  BY DEF ProtocolInv, WindowInv, TimeInv, BufInv, LastAckInv,
         senderVars, ackVars

\* The receiver's part stays as it is while a datagram is dropped.
LEMMA StoreFrame ==
  ASSUME TypeInv, ProtocolInv, UNCHANGED <<storeVars, sendPktCount, faults>>,
         receiver # "crashed", receiver' # "crashed",
         fwd # <<>>, fwd' = Tail(fwd)
  PROVE  InOrder' /\ StoreInv' /\ FwdInv' /\ (FwdLate => FwdLate')
<1>1. InOrder' /\ StoreInv'
  BY DEF ProtocolInv, InOrder, StoreInv, storeVars
<1>2. ASSUME FwdLate PROVE WithinReach(fwd, FwdSlack)'
  BY <1>2, FwdTail DEF FwdLate, WithinReach, storeVars
<1>3. ASSUME FwdLate PROVE FwdLate'
  <2>1. Ordered(fwd', FwdSlack')
    BY <1>3, FwdTail
  <2> QED BY <1>2, <1>3, <2>1 DEF FwdLate, Ordered
<1> QED BY <1>1, <1>3, FwdTail

-----------------------------------------------------------------------------
\* Writing an acknowledgement keeps what is said of the channel: an ACK names
\* the end of the file, a NACK a segment that was within reach.
LEMMA RevGrows ==
  ASSUME TypeInv, ProtocolInv, NEW m \in Packets, SendRev(m),
         UNCHANGED <<updateSendingTimeCount, sendPktCount, faults>>,
         Len(writeFile') \in Nat, Len(writeFile) <= Len(writeFile'),
         \/ AckAt(m, Len(writeFile')) /\ Len(writeFile) <= m.nth
         \/ /\ NackAt(m, sendPktCount)
            /\ FwdLate => Len(writeFile) <= m.nth + (MAX_WINDOW_SIZE + FwdSlack)
  PROVE  RevInv' /\ (LateInv => RevLate')
<1>1. /\ rev \in Seq(Packets) /\ Len(writeFile) \in Nat
      /\ sendPktCount \in Nat /\ sendPktCount <= sendPktCount
      /\ updateSendingTimeCount \in Nat
      /\ updateSendingTimeCount <= Len(writeFile)
      /\ MAX_WINDOW_SIZE \in Nat /\ m.nth \in Nat
  BY Channels, Counters, PacketFields, SizeFacts DEF ProtocolInv
<1>2. /\ RevSlack' = RevSlack /\ AnySlack' = AnySlack
      /\ RevSlack \in Nat /\ AnySlack \in Nat /\ FwdSlack \in Nat
      /\ FwdSlack <= AnySlack
  BY Slacks, SlackFrame
<1>3. CASE rev' = rev
  BY <1>1, <1>3, RevFrame DEF LateInv
<1>4. CASE rev' = Append(rev, m)
  <2>1. ASSUME NEW x \in Packets, AckAt(x, Len(writeFile))
        PROVE  AckAt(x, Len(writeFile'))
    <3>1. x.nth \in Nat
      BY PacketFields
    <3> QED BY <1>1, <2>1, <3>1 DEF AckAt
  <2>2. ASSUME NEW j \in DOMAIN rev'
        PROVE  \/ j \in DOMAIN rev /\ rev'[j] = rev[j] /\ rev[j] \in Packets
               \/ rev'[j] = m
    BY <1>1, <1>4, AppendElements, Elements
  <2>3. RevInv'
    <3>1. ASSUME NEW j \in DOMAIN rev'
          PROVE  \/ AckAt(rev'[j], Len(writeFile'))
                 \/ NackAt(rev'[j], sendPktCount)
      BY <2>1, <2>2 DEF ProtocolInv, RevInv
    <3> QED BY <3>1 DEF RevInv
  <2>4. ASSUME LateInv
        PROVE  Len(writeFile) <= m.nth + Lag(m, RevSlack, AnySlack)
    <3>1. CASE AckAt(m, Len(writeFile')) /\ Len(writeFile) <= m.nth
      BY <1>1, <1>2, <3>1 DEF AckAt, Lag
    <3>2. CASE /\ NackAt(m, sendPktCount)
               /\ Len(writeFile) <= m.nth + (MAX_WINDOW_SIZE + FwdSlack)
      BY <1>1, <1>2, <3>2 DEF NackAt, Lag
    <3> QED BY <2>4, <3>1, <3>2 DEF LateInv
  <2>5. Lag(m, RevSlack, AnySlack) \in Nat
    BY <1>1, <1>2 DEF Lag
  <2>6. ASSUME NEW i \in DOMAIN rev, rev[i].type = "ACK"
        PROVE  rev[i].nth \in Nat /\ rev[i].nth <= Len(writeFile)
    BY <1>1, <2>6, Elements, PacketFields
       DEF ProtocolInv, RevInv, AckAt, NackAt
  <2>7. ASSUME LateInv PROVE RevLate'
    <3>1. AcksOrdered(rev', RevSlack, AnySlack)
      <4>1. ASSUME NEW i \in DOMAIN rev, rev[i].type = "ACK"
            PROVE  rev[i].nth <= m.nth + Lag(m, RevSlack, AnySlack)
        BY <1>1, <2>4, <2>5, <2>6, <2>7, <4>1
      <4> QED BY <1>1, <1>4, <2>7, <4>1, AcksAppend DEF LateInv, RevLate
    <3>2. AcksBehind(rev, RevSlack, AnySlack)'
      <4>1. updateSendingTimeCount <= m.nth + Lag(m, RevSlack, AnySlack)
        BY <1>1, <2>4, <2>5, <2>7
      <4> QED BY <1>2, <2>2, <2>7, <4>1 DEF LateInv, RevLate, AcksBehind
    <3> QED BY <1>2, <3>1, <3>2 DEF RevLate, AcksOrdered
  <2> QED BY <2>3, <2>7
<1> QED BY <1>3, <1>4 DEF SendRev

\* Once something is written, an ACK names the number of chunks written.
LEMMA SendAckKeeps ==
  ASSUME TypeInv, ProtocolInv, NEW n \in Nat, 1 <= n,
         Len(writeFile) <= n, Len(writeFile') = n,
         NEW last, last = (n - 1) % SeqSpace, NEW emptySlot \in Int,
         SendAck(last, emptySlot, n),
         UNCHANGED <<updateSendingTimeCount, sendPktCount, faults>>
  PROVE  RevInv' /\ (LateInv => RevLate')
<1>1. /\ ackWindow \in 0..MAX_WINDOW_SIZE /\ updateSendingTimeCount \in Nat
      /\ updateSendingTimeCount <= Len(writeFile) /\ Len(writeFile) \in Nat
  BY Counters DEF ProtocolInv, TypeInv, TypeOK, ReceiverTypeOK
<1>2. ackWindow' \in 0..MAX_WINDOW_SIZE
  BY <1>1, WindowFieldType DEF SendAck
<1>3. (last + 1) % SeqSpace = n % SeqSpace
  <2>1. n - 1 \in Int /\ 1 \in Int /\ (n - 1) + 1 = n
    OBVIOUS
  <2>2. (((n - 1) % SeqSpace) + 1) % SeqSpace = ((n - 1) + 1) % SeqSpace
    BY <2>1, SizeFacts, ModShift
  <2> QED BY <2>1, <2>2, Zenon
<1>4. n % SeqSpace \in Seqnums
  BY ModFacts
<1> DEFINE m == create_packet_ack(n % SeqSpace, ackWindow', n)
<1>5. m \in Packets
  BY <1>2, <1>4, CreateType
<1>6. SendRev(m)
  BY <1>3 DEF SendAck
<1>7. m.nth = n /\ m.type = "ACK" /\ m.seqnum = n % SeqSpace
  BY DEF create_packet_ack, create_packet
<1> HIDE DEF m
<1>8. AckAt(m, Len(writeFile'))
  BY <1>1, <1>7 DEF AckAt
<1> QED BY <1>5, <1>6, <1>7, <1>8, RevGrows

-----------------------------------------------------------------------------
\* What a chunk that reaches the receiver is, and where it belongs: index is
\* its distance from the next one to write, or -1 when it is written already.
LEMMA DataAt ==
  ASSUME TypeInv, ProtocolInv, Timely, NEW index, ReceiveData(index)
  PROVE  /\ fwd # <<>> /\ fwd' = Tail(fwd) /\ Listening /\ faults' = faults
         /\ Head(fwd) \in Packets /\ Head(fwd) = fwd[1] /\ 1 \in DOMAIN fwd
         /\ Head(fwd).type = "DATA"
         /\ Head(fwd).nth \in Nat /\ Head(fwd).nth < NChunks
         /\ Head(fwd).nth < sendPktCount
         /\ Head(fwd).nth < Len(writeFile) + MAX_WINDOW_SIZE
         /\ Head(fwd).seqnum = Head(fwd).nth % SeqSpace
         /\ Head(fwd).payload = Head(fwd).nth
         /\ index = IF Len(writeFile) <= Head(fwd).nth
                    THEN Head(fwd).nth - Len(writeFile) ELSE -1
<1> DEFINE m == Head(fwd)
           k == m.nth
           n == Len(writeFile)
<1>1. /\ fwd # <<>> /\ fwd' = Tail(fwd) /\ Listening /\ faults' = faults
      /\ m.type = "DATA" /\ m.payload # NoPayload
      /\ index = find_pkt(m.seqnum, receivingWindow)
  BY DEF ReceiveData, ReadDatagram, IsData
<1>2. /\ m \in Packets /\ 1 \in DOMAIN fwd /\ m = fwd[1]
      /\ Sound(m, sendPktCount)
  BY <1>1, HeadSound
<1>3. k < sendPktCount /\ Carries(m, k)
  BY <1>1, <1>2 DEF Sound
<1>4. /\ k \in Nat /\ n \in Nat /\ sendPktCount \in Nat /\ NChunks \in Nat
      /\ updateSendingTimeCount \in Nat /\ MAX_WINDOW_SIZE \in Nat
      /\ SeqSpace \in Nat /\ 2 * MAX_WINDOW_SIZE < SeqSpace
      /\ sendPktCount <= NChunks + 1
      /\ sendPktCount <= updateSendingTimeCount + MAX_WINDOW_SIZE
      /\ updateSendingTimeCount <= n
  BY <1>2, PacketFields, Counters, SizeFacts DEF ProtocolInv
<1>5. m.seqnum = k % SeqSpace /\ m.payload = PacketAt(k).payload
  BY <1>3 DEF Carries
<1>6. k # NChunks
  BY <1>1, <1>5 DEF PacketAt, create_packet_deco, create_packet
<1>7. k < NChunks /\ m.payload = k
  BY <1>3, <1>4, <1>5, <1>6
     DEF PacketAt, create_packet_data, create_packet
<1>8. n + MAX_WINDOW_SIZE <= k + SeqSpace
  BY <1>1, <1>2 DEF Timely, Listening
<1>9. \A i \in Slots : receivingWindow[i] = (n + i) % SeqSpace
  BY <1>1 DEF ProtocolInv, StoreInv, Listening
<1>10. /\ k < n + MAX_WINDOW_SIZE /\ n + MAX_WINDOW_SIZE <= k + SeqSpace
       /\ k < n + SeqSpace
  BY <1>3, <1>4, <1>8
<1>11. index = IF n <= k /\ k < n + MAX_WINDOW_SIZE THEN k - n ELSE -1
  <2> DEFINE found == find_pkt(k % SeqSpace, receivingWindow)
  <2>1. found = IF n <= k /\ k < n + MAX_WINDOW_SIZE THEN k - n ELSE -1
    BY <1>4, <1>9, <1>10, FindPkt
  <2>2. index = found
    BY <1>1, <1>5
  <2> HIDE DEF found
  <2> QED BY <2>1, <2>2
<1>12. index = IF n <= k THEN k - n ELSE -1
  BY <1>10, <1>11
<1> QED BY <1>1, <1>2, <1>3, <1>4, <1>5, <1>7, <1>10, <1>12

-----------------------------------------------------------------------------
\* A file in order stays so when the next chunks are appended.
LEMMA InOrderAppend ==
  ASSUME NEW f \in Seq(Chunks), f = [j \in 1..Len(f) |-> j - 1],
         Len(f) \in Chunks
  PROVE  /\ Append(f, Len(f)) = [j \in 1..(Len(f) + 1) |-> j - 1]
         /\ Append(f, Len(f)) \in Seq(Chunks)
         /\ Len(Append(f, Len(f))) = Len(f) + 1
<1> DEFINE g == Append(f, Len(f))
           h == [j \in 1..(Len(f) + 1) |-> j - 1]
<1>1. Len(f) \in Nat /\ g \in Seq(Chunks) /\ Len(g) = Len(f) + 1
  BY AppendType
<1>2. ASSUME NEW j \in 1..(Len(f) + 1)
      PROVE  g[j] = j - 1
  <2>1. CASE j = Len(f) + 1
    BY <1>1, <2>1
  <2>2. CASE j # Len(f) + 1
    <3>1. j \in 1..Len(f)
      BY <1>1, <2>2
    <3>2. g[j] = f[j]
      BY <3>1
    <3> QED BY <3>1, <3>2
  <2> QED BY <2>1, <2>2
<1>3. g \in [1..(Len(f) + 1) -> Chunks]
  BY <1>1, LenProperties
<1> HIDE DEF g
<1>4. g = h
  BY <1>2, <1>3
<1> QED BY <1>1, <1>4 DEF g

\* Chunks that count on from a file in order leave it in order.
LEMMA InOrderConcat ==
  ASSUME NEW f \in Seq(Chunks), f = [j \in 1..Len(f) |-> j - 1],
         NEW g \in Seq(Chunks),
         \A j \in 1..Len(g) : g[j] = (Len(f) - 1) + j
  PROVE  /\ f \o g = [j \in 1..Len(f \o g) |-> j - 1]
         /\ Len(f \o g) = Len(f) + Len(g)
<1> DEFINE h == f \o g
<1>1. /\ Len(f) \in Nat /\ Len(g) \in Nat /\ h \in Seq(Chunks)
      /\ Len(h) = Len(f) + Len(g)
  BY ConcatType
<1>2. ASSUME NEW j \in 1..Len(h)
      PROVE  h[j] = j - 1
  <2>1. CASE j <= Len(f)
    <3>1. j \in 1..Len(f) /\ h[j] = f[j]
      BY <1>1, <2>1
    <3> QED BY <3>1
  <2>2. CASE ~(j <= Len(f))
    <3>1. j - Len(f) \in 1..Len(g) /\ h[j] = g[j - Len(f)]
      BY <1>1, <2>2
    <3>2. h[j] = (Len(f) - 1) + (j - Len(f))
      BY <3>1
    <3> QED BY <1>1, <3>2
  <2> QED BY <2>1, <2>2
<1>3. h \in [1..Len(h) -> Chunks]
  BY <1>1, LenProperties
<1> HIDE DEF h
<1>4. h = [j \in 1..Len(h) |-> j - 1]
  BY <1>2, <1>3
<1> QED BY <1>1, <1>4 DEF h

-----------------------------------------------------------------------------
\* A datagram that is dropped, or answered by a NACK, keeps the invariant.
LEMMA IgnoreKeeps ==
  ASSUME TypeInv, ProtocolInv, UNCHANGED senderVars,
         IgnoreDatagram \/ SendNack \/ Disconnect
  PROVE  Kept
<1>1. /\ fwd # <<>> /\ fwd' = Tail(fwd) /\ UNCHANGED <<storeVars, faults>>
      /\ receiver # "crashed" /\ receiver' # "crashed"
  BY DEF IgnoreDatagram, SendNack, Disconnect, ReadDatagram, Listening
<1>2. /\ UNCHANGED <<sender, sendPktCount, updateSendingTimeCount,
                     sendBufCount, receivingAvaiableSlotCount>>
      /\ WindowInv' /\ TimeInv' /\ BufInv' /\ LastAckInv'
  BY ReceiverFrame
<1>3. InOrder' /\ StoreInv' /\ FwdInv' /\ (FwdLate => FwdLate')
  BY <1>1, <1>2, StoreFrame
<1>4. /\ writeFile' = writeFile /\ Len(writeFile) \in Nat
      /\ sendPktCount \in Nat /\ NChunks \in Nat /\ rev \in Seq(Packets)
      /\ updateSendingTimeCount \in Nat /\ updateSendingTimeCount <= Len(writeFile)
  BY <1>1, Counters, Channels DEF ProtocolInv, storeVars
<1>5. /\ Head(fwd) \in Packets /\ 1 \in DOMAIN fwd /\ Head(fwd) = fwd[1]
      /\ Sound(Head(fwd), sendPktCount)
  BY <1>1, HeadSound
<1>6. CASE IgnoreDatagram
  <2>1. rev' = rev /\ receiver' = "running"
    BY <1>6 DEF IgnoreDatagram
  <2>2. CountInv'
    BY <1>2, <1>4, <2>1 DEF ProtocolInv, CountInv
  <2>3. StartInv' /\ RevInv' /\ (RevLate => RevLate')
    BY <1>1, <1>2, <1>4, <2>1, StartFrame, RevFrame
  <2> QED BY <1>2, <1>3, <2>2, <2>3 DEF Kept, ProtocolInv, LateInv
<1>7. CASE SendNack
  <2> DEFINE m == create_packet_nack(Head(fwd).seqnum, Head(fwd).nth)
  <2>1. /\ receiver' = "running" /\ SendRev(m) /\ Head(fwd).tr = 1
    BY <1>7 DEF SendNack
  <2>2. /\ Head(fwd).nth \in Nat /\ Head(fwd).seqnum \in Seqnums
    BY <1>5, PacketFields
  <2>3. /\ Head(fwd).nth < sendPktCount /\ Head(fwd).type = "DATA"
        /\ Head(fwd).seqnum = Head(fwd).nth % SeqSpace
    BY <1>5, <2>1 DEF Sound, Carries
  <2>4. FwdLate => Len(writeFile) <= Head(fwd).nth + (MAX_WINDOW_SIZE + FwdSlack)
    BY <1>1, <1>5, <2>3 DEF FwdLate, WithinReach
  <2>5. m \in Packets /\ m.nth = Head(fwd).nth
        /\ m.type = "NACK" /\ m.seqnum = Head(fwd).seqnum
    BY <2>2, CreateType, SizeFacts DEF create_packet_nack, create_packet
  <2> HIDE DEF m
  <2>6. NackAt(m, sendPktCount)
    BY <2>3, <2>5 DEF NackAt
  <2>7. RevInv' /\ (LateInv => RevLate')
    BY <1>1, <1>2, <1>4, <2>1, <2>4, <2>5, <2>6, RevGrows
  <2>8. CountInv'
    BY <1>2, <1>4, <2>1 DEF ProtocolInv, CountInv
  <2>9. StartInv'
    <3>1. ASSUME NEW j \in DOMAIN rev'
          PROVE  rev'[j] = m \/ \E i \in DOMAIN rev : rev'[j] = rev[i]
      BY <1>4, <2>1, AppendElements DEF SendRev
    <3> QED BY <1>2, <1>4, <2>5, <3>1 DEF ProtocolInv, StartInv
  <2> QED BY <1>2, <1>3, <2>7, <2>8, <2>9 DEF Kept, ProtocolInv, LateInv
<1>8. CASE Disconnect
  <2>1. /\ rev' = rev /\ receiver' = "disconnected" /\ Head(fwd).type = "DATA"
        /\ Head(fwd).payload = NoPayload
    BY <1>8 DEF Disconnect, IsData
  <2>2. sender = "disconnected"
    <3>1. /\ Head(fwd).nth < sendPktCount /\ Head(fwd).nth \in Nat
          /\ PacketAt(Head(fwd).nth).payload = NoPayload
      BY <1>5, <2>1, PacketFields DEF Sound, Carries
    <3>2. Head(fwd).nth = NChunks
      BY <3>1 DEF PacketAt, create_packet_data, create_packet, NoPayload
    <3>3. sendPktCount = NChunks + 1
      BY <1>4, <3>1, <3>2, Counters DEF ProtocolInv
    <3> QED BY <3>3 DEF ProtocolInv, CountInv
  <2>3. CountInv'
    BY <1>2, <1>4, <2>1, <2>2 DEF ProtocolInv, CountInv
  <2>4. StartInv' /\ RevInv' /\ (RevLate => RevLate')
    BY <1>1, <1>2, <1>4, <2>1, StartFrame, RevFrame
  <2> QED BY <1>2, <1>3, <2>3, <2>4 DEF Kept, ProtocolInv, LateInv
<1> QED BY <1>6, <1>7, <1>8

-----------------------------------------------------------------------------
\* A chunk that is written already: the receiver repeats its last ACK, and has
\* one to repeat.
LEMMA AckOutOfWindowKeeps ==
  ASSUME TypeInv, ProtocolInv, Timely, UNCHANGED senderVars, AckOutOfWindow
  PROVE  Kept
<1> DEFINE k == Head(fwd).nth
           n == Len(writeFile)
<1>1. /\ UNCHANGED <<sender, sendPktCount, updateSendingTimeCount,
                     sendBufCount, receivingAvaiableSlotCount>>
      /\ WindowInv' /\ TimeInv' /\ BufInv' /\ LastAckInv'
  BY ReceiverFrame
<1>2. /\ fwd # <<>> /\ fwd' = Tail(fwd) /\ Listening /\ faults' = faults
      /\ k \in Nat /\ -1 = IF n <= k THEN k - n ELSE -1
  BY DataAt DEF AckOutOfWindow
<1>3. /\ UNCHANGED storeVars /\ receiver' = "running" /\ writeFile' = writeFile
      /\ SendAck(lastAck, receivingEmptySlot, n)
  BY DEF AckOutOfWindow, SendAck, storeVars
<1>4. n \in Nat /\ receivingEmptySlot \in Int
  BY Counters DEF ProtocolInv, TypeInv, TypeOK, ReceiverTypeOK
<1>5. 1 <= n
  BY <1>2, <1>4
<1>6. InOrder' /\ StoreInv' /\ FwdInv' /\ (FwdLate => FwdLate')
  BY <1>1, <1>2, <1>3, StoreFrame DEF Listening
<1>7. CountInv' /\ StartInv'
  BY <1>1, <1>3, <1>4, <1>5 DEF ProtocolInv, CountInv, StartInv
<1>8. RevInv' /\ (LateInv => RevLate')
  <2>1. lastAck = (n - 1) % SeqSpace
    BY <1>2, <1>4, <1>5 DEF ProtocolInv, StoreInv, Listening
  <2> QED BY <1>1, <1>2, <1>3, <1>4, <1>5, <2>1, SendAckKeeps
<1> QED BY <1>1, <1>6, <1>7, <1>8 DEF Kept, ProtocolInv, LateInv

\* A chunk further on is stored where the window has its number.
LEMMA StoreKeeps ==
  ASSUME TypeInv, ProtocolInv, Timely, UNCHANGED senderVars, StoreOutOfOrder
  PROVE  Kept
<1> DEFINE k == Head(fwd).nth
           n == Len(writeFile)
<1>1. /\ UNCHANGED <<sender, sendPktCount, updateSendingTimeCount,
                     sendBufCount, receivingAvaiableSlotCount>>
      /\ WindowInv' /\ TimeInv' /\ BufInv' /\ LastAckInv'
  BY ReceiverFrame
<1>2. PICK index \in Slots \ {0} :
        /\ ReceiveData(index)
        /\ receivingBuf' = [receivingBuf EXCEPT ![index] = Head(fwd)]
        /\ receivingEmptySlot' = receivingEmptySlot - 1
        /\ binaryReceivingBuf' = [binaryReceivingBuf EXCEPT ![index] = 1]
        /\ SendAck(lastAck, receivingEmptySlot', Len(writeFile))
        /\ UNCHANGED <<receivingWindow, lastAck, writeFile>>
  BY DEF StoreOutOfOrder
<1>3. /\ fwd # <<>> /\ fwd' = Tail(fwd) /\ Listening /\ faults' = faults
      /\ Head(fwd) \in Packets /\ Head(fwd) = fwd[1] /\ 1 \in DOMAIN fwd
      /\ Head(fwd).type = "DATA" /\ k \in Nat /\ k < NChunks
      /\ k < sendPktCount /\ Head(fwd).seqnum = k % SeqSpace
      /\ Head(fwd).payload = k
      /\ index = IF n <= k THEN k - n ELSE -1
  BY <1>2, DataAt
<1>4. /\ n \in Nat /\ receivingEmptySlot - 1 \in Int /\ sendPktCount \in Nat
      /\ receivingAvaiableSlotCount \in Nat
      /\ binaryReceivingBuf \in [Slots -> {0, 1}]
      /\ receivingBuf \in [Slots -> Packets \cup {NULL, Uninit}]
  BY Counters, SizeFacts
     DEF ProtocolInv, TypeInv, TypeOK, ReceiverTypeOK, SenderTypeOK
<1>5. index \in Nat /\ 1 <= index /\ k = n + index
  BY <1>2, <1>3, <1>4, SlotBounds
<1>6. 1 <= n
  <2>1. n = 0 => sendPktCount <= 1
    BY <1>4 DEF ProtocolInv, StartInv
  <2> QED BY <1>3, <1>4, <1>5, <2>1
<1>7. receiver' = "running" /\ receiver # "crashed" /\ writeFile' = writeFile
  BY <1>2, <1>3 DEF SendAck, Listening
<1>8. InOrder' /\ CountInv' /\ StartInv'
  BY <1>1, <1>4, <1>6, <1>7 DEF ProtocolInv, InOrder, CountInv, StartInv
<1>9. /\ FwdInv' /\ FwdSlack' = FwdSlack
      /\ FwdLate /\ receiver # "crashed" => Ordered(fwd', FwdSlack')
      /\ \A j \in DOMAIN fwd' : /\ j + 1 \in DOMAIN fwd /\ 1 < j + 1
                                /\ fwd'[j] = fwd[j + 1] /\ fwd'[j] \in Packets
  BY <1>1, <1>3, FwdTail
<1>10. ASSUME NEW i \in Slots
       PROVE  /\ i = index => /\ binaryReceivingBuf'[i] = 1
                              /\ receivingBuf'[i] = Head(fwd)
              /\ i # index => /\ binaryReceivingBuf'[i] = binaryReceivingBuf[i]
                              /\ receivingBuf'[i] = receivingBuf[i]
  BY <1>2, <1>4
<1>11. ASSUME FwdLate PROVE FwdLate'
  <2> DEFINE reach == MAX_WINDOW_SIZE + FwdSlack
  <2>1. ASSUME NEW j \in DOMAIN fwd', fwd'[j].type = "DATA"
        PROVE  /\ n <= fwd'[j].nth + reach
               /\ \A i \in Slots : binaryReceivingBuf'[i] = 1 =>
                    n + i < fwd'[j].nth + reach
    <3>1. /\ j + 1 \in DOMAIN fwd /\ 1 < j + 1 /\ fwd'[j] = fwd[j + 1]
      BY <1>9
    <3>2. k < fwd'[j].nth + reach
      BY <1>3, <1>7, <1>11, <2>1, <3>1 DEF FwdLate, Ordered
    <3>3. /\ n <= fwd'[j].nth + reach
          /\ \A i \in Slots : binaryReceivingBuf[i] = 1 =>
                             n + i < fwd'[j].nth + reach
      BY <1>7, <1>11, <2>1, <3>1 DEF FwdLate, WithinReach
    <3> HIDE DEF reach
    <3> QED BY <1>5, <1>10, <3>2, <3>3
  <2>2. WithinReach(fwd, FwdSlack)'
    BY <1>7, <1>9, <2>1 DEF WithinReach
  <2> QED BY <1>7, <1>9, <1>11, <2>2 DEF FwdLate, Ordered
<1>12. StoreInv'
  <2>1. 0 \in Slots /\ 0 # index
    BY <1>5, SlotBounds, SizeFacts
  <2>2. binaryReceivingBuf'[0] = 0
    BY <1>7, <1>10, <2>1 DEF ProtocolInv, StoreInv
  <2>3. ASSUME NEW i \in Slots, binaryReceivingBuf'[i] = 1
        PROVE  /\ receivingBuf'[i] \in Packets
               /\ receivingBuf'[i].seqnum = (n + i) % SeqSpace
               /\ receivingBuf'[i].payload = n + i
               /\ n + i < sendPktCount /\ n + i < NChunks
    <3>1. CASE i = index
      BY <1>3, <1>5, <1>10, <3>1
    <3>2. CASE i # index
      BY <1>7, <1>10, <2>3, <3>2 DEF ProtocolInv, StoreInv
    <3> QED BY <3>1, <3>2
  <2> QED BY <1>1, <1>2, <1>7, <2>2, <2>3 DEF ProtocolInv, StoreInv
<1>13. RevInv' /\ (LateInv => RevLate')
  <2>1. lastAck = (n - 1) % SeqSpace
    BY <1>4, <1>6, <1>7 DEF ProtocolInv, StoreInv
  <2>2. SendAck(lastAck, receivingEmptySlot - 1, n)
    BY <1>2
  <2> QED BY <1>1, <1>3, <1>4, <1>6, <1>7, <2>1, <2>2, SendAckKeeps
<1> QED BY <1>1, <1>8, <1>9, <1>11, <1>12, <1>13 DEF Kept, ProtocolInv, LateInv

-----------------------------------------------------------------------------
\* The next chunk is written, and with it the chunks stored behind it without
\* a gap: d of them.
LEMMA WriteKeeps ==
  ASSUME TypeInv, ProtocolInv, Timely, UNCHANGED senderVars, WriteInOrder, TypeInv'
  PROVE  Kept
<1> DEFINE k == Head(fwd).nth
           n == Len(writeFile)
<1>1. /\ UNCHANGED <<sender, sendPktCount, updateSendingTimeCount,
                     sendBufCount, receivingAvaiableSlotCount>>
      /\ WindowInv' /\ TimeInv' /\ BufInv' /\ LastAckInv'
  BY ReceiverFrame
<1>2. PICK d \in Slots :
        /\ Drains(d)
        /\ writeFile' = Append(writeFile, Head(fwd).payload)
                          \o [j \in 1..d |-> receivingBuf[j].payload]
        /\ lastAck' = IF d = 0 THEN Head(fwd).seqnum ELSE receivingBuf[d].seqnum
        /\ receivingWindow' = window_slides(receivingWindow, d + 1)
        /\ binaryReceivingBuf' = update_bufs(binaryReceivingBuf, 0, d + 1)
        /\ receivingBuf' = update_bufs(receivingBuf, NULL, d + 1)
        /\ receivingEmptySlot' = receivingEmptySlot + d
  BY DEF WriteInOrder
<1>3. ReceiveData(0) /\ SendAck(lastAck', receivingEmptySlot', Len(writeFile'))
  BY DEF WriteInOrder
<1>4. /\ fwd # <<>> /\ fwd' = Tail(fwd) /\ Listening /\ faults' = faults
      /\ Head(fwd) \in Packets /\ Head(fwd) = fwd[1] /\ 1 \in DOMAIN fwd
      /\ Head(fwd).type = "DATA" /\ k \in Nat /\ k < NChunks
      /\ k < sendPktCount /\ Head(fwd).seqnum = k % SeqSpace
      /\ Head(fwd).payload = k
      /\ 0 = IF n <= k THEN k - n ELSE -1
  BY <1>3, DataAt
<1>5. /\ n \in Nat /\ sendPktCount \in Nat /\ NChunks \in Nat
      /\ updateSendingTimeCount \in Nat /\ updateSendingTimeCount <= n
      /\ writeFile \in Seq(Chunks)
  BY Counters DEF ProtocolInv, TypeInv, TypeOK, ReceiverTypeOK
<1>6. k = n
  BY <1>4, <1>5
<1>7. d \in Nat /\ d < MAX_WINDOW_SIZE /\ \A j \in 1..d : j \in Slots /\ j \in Nat
  BY SlotBounds, SizeFacts
<1>8. receiver' = "running" /\ receiver # "crashed"
  BY <1>3, <1>4 DEF SendAck, Listening
<1>9. ASSUME NEW j \in 1..d
      PROVE  /\ binaryReceivingBuf[j] = 1
             /\ receivingBuf[j].payload = n + j
             /\ receivingBuf[j].seqnum = (n + j) % SeqSpace
             /\ n + j < sendPktCount /\ n + j < NChunks
  <2>1. binaryReceivingBuf[j] = 1 /\ j \in Slots
    BY <1>2, <1>7 DEF Drains
  <2> QED BY <1>8, <2>1 DEF ProtocolInv, StoreInv
<1>10. InOrder' /\ Len(writeFile') = n + (d + 1)
  <2> DEFINE f == Append(writeFile, n)
             g == [j \in 1..d |-> receivingBuf[j].payload]
  <2>1. n \in Chunks /\ \A j \in 1..d : n + j \in Chunks
    <3>1. n \in Chunks
      BY <1>4, <1>5, <1>6 DEF Chunks
    <3>2. ASSUME NEW j \in 1..d
          PROVE  n + j \in Chunks
      <4>1. n + j < NChunks /\ j \in Nat
        BY <1>7, <1>9
      <4> QED BY <1>5, <4>1 DEF Chunks
    <3> QED BY <3>1, <3>2
  <2>2. writeFile = [j \in 1..n |-> j - 1]
    BY DEF ProtocolInv, InOrder
  <2>3. f = [j \in 1..(n + 1) |-> j - 1] /\ f \in Seq(Chunks) /\ Len(f) = n + 1
    BY <1>5, <2>1, <2>2, InOrderAppend
  <2>4. g \in [1..d -> Chunks]
    BY <1>9, <2>1
  <2>5. g \in Seq(Chunks) /\ Len(g) = d
    BY <1>7, <2>4, FunctionIsSeq
  <2>6. \A j \in 1..d : g[j] = n + j
    BY <1>9
  <2>7. writeFile' = f \o g
    BY <1>2, <1>4, <1>6
  <2> HIDE DEF f, g
  <2>8. \A j \in 1..Len(g) : g[j] = (Len(f) - 1) + j
    BY <1>5, <1>7, <2>3, <2>5, <2>6
  <2>9. f = [j \in 1..Len(f) |-> j - 1]
    BY <2>3
  <2>10. /\ f \o g = [j \in 1..Len(f \o g) |-> j - 1]
         /\ Len(f \o g) = Len(f) + Len(g)
    BY <2>3, <2>5, <2>8, <2>9, InOrderConcat
  <2>11. Len(f) + Len(g) = n + (d + 1)
    BY <1>5, <1>7, <2>3, <2>5
  <2> QED BY <2>7, <2>10, <2>11 DEF InOrder
<1>11. n + (d + 1) <= sendPktCount /\ n + (d + 1) <= NChunks
  <2>1. CASE d = 0
    BY <1>4, <1>5, <1>6, <2>1
  <2>2. CASE d # 0
    <3>1. d \in 1..d
      BY <1>7, <2>2
    <3>2. n + d < sendPktCount /\ n + d < NChunks
      BY <1>9, <3>1
    <3> QED BY <1>5, <1>7, <3>2
  <2> QED BY <2>1, <2>2
<1>12. CountInv' /\ StartInv'
  BY <1>1, <1>4, <1>5, <1>6, <1>7, <1>8, <1>10, <1>11
     DEF ProtocolInv, CountInv, StartInv
<1>13. /\ FwdInv' /\ FwdSlack' = FwdSlack
       /\ FwdLate /\ receiver # "crashed" => Ordered(fwd', FwdSlack')
       /\ \A j \in DOMAIN fwd' : /\ j + 1 \in DOMAIN fwd /\ 1 < j + 1
                                 /\ fwd'[j] = fwd[j + 1] /\ fwd'[j] \in Packets
  BY <1>1, <1>4, FwdTail
\* what was at distance i + d + 1 is now at distance i
<1>14. ASSUME NEW i \in Slots, binaryReceivingBuf'[i] = 1
       PROVE  /\ i + (d + 1) \in Slots /\ i \in Nat
              /\ binaryReceivingBuf[i + (d + 1)] = 1
              /\ receivingBuf'[i] = receivingBuf[i + (d + 1)]
  <2>1. i + (d + 1) < MAX_WINDOW_SIZE
    BY <1>2, <1>14, UpdatesEntry
  <2>2. i + (d + 1) \in Slots /\ i \in Nat
    BY <1>7, <2>1, SlotBounds
  <2> QED BY <1>2, <1>14, <2>1, <2>2, UpdatesEntry
<1>15. ASSUME FwdLate PROVE FwdLate'
  <2> DEFINE reach == MAX_WINDOW_SIZE + FwdSlack
  <2>1. ASSUME NEW j \in DOMAIN fwd', fwd'[j].type = "DATA"
        PROVE  /\ n + (d + 1) <= fwd'[j].nth + reach
               /\ \A i \in Slots : binaryReceivingBuf'[i] = 1 =>
                    n + (d + 1) + i < fwd'[j].nth + reach
    <3> DEFINE bound == fwd'[j].nth + reach
    <3>1. /\ j + 1 \in DOMAIN fwd /\ 1 < j + 1 /\ fwd'[j] = fwd[j + 1]
      BY <1>13
    <3>2. bound \in Nat
      <4>1. fwd'[j].nth \in Nat /\ reach \in Nat
        BY <1>13, PacketFields, SizeFacts, Slacks
      <4> HIDE DEF reach
      <4> QED BY <4>1
    <3>3. n < bound
      BY <1>4, <1>6, <1>8, <1>15, <2>1, <3>1 DEF FwdLate, Ordered
    <3>4. \A i \in Slots : binaryReceivingBuf[i] = 1 => n + i < bound
      BY <1>8, <1>15, <2>1, <3>1 DEF FwdLate, WithinReach
    <3> HIDE DEF bound
    <3>5. n + (d + 1) <= bound
      <4>1. CASE d = 0
        BY <1>5, <3>2, <3>3, <4>1
      <4>2. CASE d # 0
        <5>1. d \in 1..d
          BY <1>7, <4>2
        <5>2. n + d < bound
          BY <1>9, <3>4, <5>1
        <5> QED BY <1>5, <1>7, <3>2, <5>2
      <4> QED BY <4>1, <4>2
    <3>6. ASSUME NEW i \in Slots, binaryReceivingBuf'[i] = 1
          PROVE  n + (d + 1) + i < bound
      <4>1. n + (i + (d + 1)) < bound /\ i \in Nat
        BY <1>14, <3>4, <3>6
      <4> QED BY <1>5, <1>7, <3>2, <4>1
    <3> QED BY <3>5, <3>6 DEF bound
  <2>2. WithinReach(fwd, FwdSlack)'
    BY <1>10, <1>13, <2>1 DEF WithinReach
  <2> QED BY <1>8, <1>13, <1>15, <2>2 DEF FwdLate, Ordered
<1>16. lastAck' = ((n + (d + 1)) - 1) % SeqSpace
  <2>1. (n + (d + 1)) - 1 = n + d
    BY <1>5, <1>7
  <2>2. CASE d = 0
    <3>1. n + d = n
      BY <1>5, <2>2
    <3>2. lastAck' = n % SeqSpace
      BY <1>2, <1>4, <1>6, <2>2
    <3> QED BY <2>1, <3>1, <3>2, Zenon
  <2>3. CASE d # 0
    <3>1. d \in 1..d
      BY <1>7, <2>3
    <3>2. lastAck' = (n + d) % SeqSpace
      BY <1>2, <1>9, <2>3, <3>1
    <3> QED BY <2>1, <3>2, Zenon
  <2> QED BY <2>2, <2>3
<1>17. StoreInv'
  <2>1. binaryReceivingBuf'[0] = 0
    <3>1. 0 \in Slots /\ 0 + (d + 1) = d + 1
      BY <1>7, SlotBounds, SizeFacts
    <3>2. d + 1 < MAX_WINDOW_SIZE => d + 1 \in Slots
      BY <1>7, SlotBounds
    <3> QED BY <1>2, <3>1, <3>2, UpdatesEntry DEF Drains
  <2>2. lastAck' = IF Len(writeFile') = 0 THEN 0
                   ELSE (Len(writeFile') - 1) % SeqSpace
    <3>1. n + (d + 1) # 0
      BY <1>5, <1>7
    <3> QED BY <1>10, <1>16, <3>1, Zenon
  <2>3. \A i \in Slots : receivingWindow'[i] = (n + (d + 1) + i) % SeqSpace
    <3>1. \A i \in Slots : receivingWindow[i] = (n + i) % SeqSpace
      BY <1>8 DEF ProtocolInv, StoreInv
    <3>2. d + 1 \in Nat
      BY <1>7
    <3> QED BY <1>2, <1>5, <3>1, <3>2, WindowSlidesShift
  <2>4. ASSUME NEW i \in Slots, binaryReceivingBuf'[i] = 1
        PROVE  /\ receivingBuf'[i] \in Packets
               /\ receivingBuf'[i].seqnum = (n + (d + 1) + i) % SeqSpace
               /\ receivingBuf'[i].payload = n + (d + 1) + i
               /\ n + (d + 1) + i < sendPktCount
               /\ n + (d + 1) + i < NChunks
    <3>1. n + (i + (d + 1)) = n + (d + 1) + i
      BY <1>5, <1>7, <1>14, <2>4
    <3>2. /\ receivingBuf'[i] \in Packets
          /\ receivingBuf'[i].seqnum = (n + (i + (d + 1))) % SeqSpace
          /\ receivingBuf'[i].payload = n + (i + (d + 1))
          /\ n + (i + (d + 1)) < sendPktCount /\ n + (i + (d + 1)) < NChunks
      BY <1>8, <1>14, <2>4 DEF ProtocolInv, StoreInv
    <3> QED BY <3>1, <3>2, Zenon
  <2> QED BY <1>1, <1>10, <2>1, <2>2, <2>3, <2>4 DEF StoreInv
<1>18. RevInv' /\ (LateInv => RevLate')
  <2>1. receivingEmptySlot' \in Int
    BY DEF TypeInv, TypeOK, ReceiverTypeOK
  <2>2. n + (d + 1) \in Nat /\ 1 <= n + (d + 1) /\ n <= n + (d + 1)
    BY <1>5, <1>7
  <2>3. SendAck(lastAck', receivingEmptySlot', n + (d + 1))
    BY <1>3, <1>10
  <2> QED BY <1>1, <1>4, <1>10, <1>16, <2>1, <2>2, <2>3, SendAckKeeps
<1> QED BY <1>1, <1>10, <1>12, <1>13, <1>15, <1>17, <1>18
        DEF Kept, ProtocolInv, LateInv

\* A crash on a slot never filled, on the way of writing a chunk or storing it.
LEMMA FreeGarbageKeeps ==
  ASSUME TypeInv, ProtocolInv, Timely, UNCHANGED senderVars, FreeGarbage
  PROVE  Kept
<1> DEFINE k == Head(fwd).nth
           n == Len(writeFile)
<1>1. /\ UNCHANGED <<sender, sendPktCount, updateSendingTimeCount,
                     sendBufCount, receivingAvaiableSlotCount>>
      /\ WindowInv' /\ TimeInv' /\ BufInv' /\ LastAckInv'
  BY ReceiverFrame
<1>2. PICK index \in Slots :
        /\ ReceiveData(index)
        /\ writeFile' = IF index = 0
                       THEN Append(writeFile, Head(fwd).payload)
                       ELSE writeFile
  BY DEF FreeGarbage
<1>3. /\ fwd # <<>> /\ fwd' = Tail(fwd) /\ Listening /\ faults' = faults
      /\ k \in Nat /\ k < NChunks /\ k < sendPktCount /\ Head(fwd).payload = k
      /\ index = IF n <= k THEN k - n ELSE -1
  BY <1>2, DataAt
<1>4. /\ n \in Nat /\ sendPktCount \in Nat /\ NChunks \in Nat
      /\ updateSendingTimeCount \in Nat /\ updateSendingTimeCount <= n
      /\ n <= NChunks /\ n <= sendPktCount /\ writeFile \in Seq(Chunks)
  BY Counters DEF ProtocolInv, TypeInv, TypeOK, ReceiverTypeOK
<1>5. receiver' = "crashed" /\ rev' = rev
  BY DEF FreeGarbage
<1>6. /\ InOrder' /\ Len(writeFile') \in Nat /\ n <= Len(writeFile')
      /\ Len(writeFile') <= sendPktCount /\ Len(writeFile') <= NChunks
      /\ Len(writeFile') = n \/ n < NChunks
  <2>1. CASE index = 0
    <3>1. k = n /\ n \in Chunks
      BY <1>3, <1>4, <2>1 DEF Chunks
    <3>2. writeFile = [j \in 1..n |-> j - 1]
      BY DEF ProtocolInv, InOrder
    <3>3. /\ writeFile' = [j \in 1..(n + 1) |-> j - 1]
          /\ Len(writeFile') = n + 1
      BY <1>2, <1>3, <1>4, <2>1, <3>1, <3>2, InOrderAppend
    <3>4. InOrder'
      BY <3>3 DEF InOrder
    <3> QED BY <1>3, <1>4, <3>1, <3>3, <3>4
  <2>2. CASE index # 0
    <3>1. writeFile' = writeFile
      BY <1>2, <2>2
    <3> QED BY <1>4, <3>1 DEF ProtocolInv, InOrder
  <2> QED BY <2>1, <2>2
<1>7. CountInv'
  BY <1>1, <1>4, <1>5, <1>6 DEF ProtocolInv, CountInv
<1>8. StartInv' /\ RevInv' /\ (RevLate => RevLate')
  BY <1>1, <1>3, <1>4, <1>5, <1>6, StartFrame, RevFrame
<1>9. FwdInv' /\ StoreInv'
  BY <1>1, <1>3, <1>5, FwdTail DEF StoreInv
<1>10. FwdLate'
  BY <1>5 DEF FwdLate
<1> QED BY <1>1, <1>6, <1>7, <1>8, <1>9, <1>10 DEF Kept, ProtocolInv, LateInv

\* A receiver that gives up keeps the invariant.
LEMMA GiveUpKeeps ==
  ASSUME ProtocolInv, receiver \in {"running", "unreachable"},
         receiver' \in {"timedout", "refused"},
         UNCHANGED <<storeVars, senderVars, linkVars>>
  PROVE  Kept
<1>1. /\ UNCHANGED <<sender, sendPktCount, updateSendingTimeCount,
                     sendBufCount, receivingAvaiableSlotCount>>
      /\ WindowInv' /\ TimeInv' /\ BufInv' /\ LastAckInv'
  BY ReceiverFrame
<1>2. InOrder' /\ CountInv' /\ StartInv' /\ FwdInv' /\ StoreInv' /\ RevInv'
  BY <1>1
     DEF storeVars, linkVars, ProtocolInv, InOrder, CountInv, StartInv,
         FwdInv, StoreInv, RevInv
<1>3. LateInv => LateInv'
  BY <1>1, SlackFrame
     DEF storeVars, linkVars, LateInv, FwdLate, RevLate, Ordered, WithinReach,
         AcksOrdered, AcksBehind
<1> QED BY <1>1, <1>2, <1>3 DEF Kept, ProtocolInv

\* Every step of the receiver keeps the invariant.
LEMMA ReceiverKeeps ==
  ASSUME TypeInv, ProtocolInv, Timely, ReceiverStep, TypeInv'
  PROVE  Kept
<1>1. CASE ReceiverRefused
  BY <1>1, GiveUpKeeps DEF ReceiverRefused, ReceiverStep
<1> QED BY <1>1, IgnoreKeeps, AckOutOfWindowKeeps, StoreKeeps, WriteKeeps,
           FreeGarbageKeeps DEF ReceiverStep
=============================================================================
