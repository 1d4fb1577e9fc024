------------------------------ MODULE TrtpTypes ------------------------------
(***************************************************************************)
(* What holds of Trtp for every window, sequence space, input, link and    *)
(* timing: type correctness, by the inductive TypeInv, and on top of it    *)
(* the slots that the receiver announces, by the inductive AnnounceInv.    *)
(***************************************************************************)
EXTENDS TrtpInv, BufferProofs, FiniteSetTheorems

-----------------------------------------------------------------------------
\* Sequences: the head, the tail, the sum and the change of one element.
LEMMA HeadTail ==
  ASSUME NEW S, NEW s \in Seq(S), s # <<>>
  PROVE  /\ Len(s) \in Nat /\ 1 <= Len(s) /\ 1 \in DOMAIN s
         /\ Head(s) \in S /\ Head(s) = s[1]
         /\ Tail(s) \in Seq(S) /\ Len(Tail(s)) = Len(s) - 1
  OBVIOUS

\* Types and lengths of sequences that are appended to, joined, written as
\* functions or changed in their first element.
LEMMA AppendType ==
  ASSUME NEW S, NEW s \in Seq(S), NEW x \in S
  PROVE  Append(s, x) \in Seq(S) /\ Len(Append(s, x)) = Len(s) + 1
  OBVIOUS

LEMMA ConcatType ==
  ASSUME NEW S, NEW s \in Seq(S), NEW t \in Seq(S)
  PROVE  s \o t \in Seq(S) /\ Len(s \o t) = Len(s) + Len(t)
  OBVIOUS

LEMMA FunctionIsSeq ==
  ASSUME NEW S, NEW n \in Nat, NEW f \in [1..n -> S]
  PROVE  f \in Seq(S) /\ Len(f) = n
  OBVIOUS

LEMMA ReplaceFirst ==
  ASSUME NEW S, NEW s \in Seq(S), s # <<>>, NEW x \in S
  PROVE  /\ [s EXCEPT ![1] = x] \in Seq(S)
         /\ Len([s EXCEPT ![1] = x]) = Len(s)
  OBVIOUS

\* The first two elements change places.
LEMMA SwapFirst ==
  ASSUME NEW S, NEW s \in Seq(S), Len(s) >= 2
  PROVE  /\ [s EXCEPT ![1] = s[2], ![2] = s[1]] \in Seq(S)
         /\ Len([s EXCEPT ![1] = s[2], ![2] = s[1]]) = Len(s)
  OBVIOUS

-----------------------------------------------------------------------------
\* Packets.
LEMMA CreateType ==
  ASSUME NEW seqnum \in Seqnums, NEW nth \in Nat,
         NEW window \in 0..MAX_WINDOW_SIZE
  PROVE  /\ \A payload \in Chunks :
              create_packet_data(payload, seqnum, nth) \in Packets
         /\ create_packet_deco(seqnum, nth) \in Packets
         /\ create_packet_ack(seqnum, window, nth) \in Packets
         /\ create_packet_nack(seqnum, nth) \in Packets
         /\ \A type \in Types : BlankSlot(type, seqnum) \in Packets
  BY SizeFacts DEF create_packet_data, create_packet_deco, create_packet_ack,
     create_packet_nack, BlankSlot, create_packet, Packets, Types

\* Whatever window is asked for, the field stays within MAX_WINDOW_SIZE.
LEMMA WindowFieldType ==
  ASSUME NEW old \in 0..MAX_WINDOW_SIZE, NEW window \in Int
  PROVE  pkt_set_window(old, window) \in 0..MAX_WINDOW_SIZE
<1>1. window % UINT8_RANGE \in 0..(UINT8_RANGE - 1)
  BY DivMod, WidthAssumption, SizeFacts
<1> QED BY <1>1, WidthAssumption, SizeFacts DEF pkt_set_window

\* The field is what was asked for, from 0 to MAX_WINDOW_SIZE, and stays as it
\* was for a number below 0 whose lowest eight bits are above that.
LEMMA WindowField ==
  ASSUME NEW old, NEW window \in Int, window <= MAX_WINDOW_SIZE,
         MAX_WINDOW_SIZE < window + UINT8_RANGE
  PROVE  pkt_set_window(old, window) = IF window >= 0 THEN window ELSE old
<1>1. /\ UINT8_RANGE \in Nat \ {0} /\ MAX_WINDOW_SIZE \in Nat
      /\ MAX_WINDOW_SIZE < UINT8_RANGE
  BY WidthAssumption, SizeFacts
<1>2. CASE window >= 0
  <2>1. window \in 0..(UINT8_RANGE - 1)
    BY <1>1, <1>2
  <2>2. window % UINT8_RANGE = window
    BY <1>1, <2>1, ModSmall
  <2> QED BY <1>1, <1>2, <2>2 DEF pkt_set_window
<1>3. CASE ~(window >= 0)
  <2>1. window + UINT8_RANGE \in 0..(UINT8_RANGE - 1)
    BY <1>1, <1>3
  <2>2. (window + UINT8_RANGE) % UINT8_RANGE = window + UINT8_RANGE
    BY <1>1, <2>1, ModSmall
  <2>3. (window + UINT8_RANGE) % UINT8_RANGE = window % UINT8_RANGE
    BY <1>1, ModTurn
  <2> QED BY <1>1, <1>3, <2>2, <2>3 DEF pkt_set_window
<1> QED BY <1>2, <1>3

\* A fault leaves a channel of packets that is not longer.
LEMMA InjectedType ==
  ASSUME NEW ch \in Seq(Packets), ch # <<>>, NEW new, NEW allowed,
         Injected(ch, new, allowed)
  PROVE  new \in Seq(Packets) /\ Len(new) <= Len(ch)
<1>1. CASE new = Tail(ch)
  BY <1>1, HeadTail
<1> DEFINE damaged == [ch[1] EXCEPT !.bytes = "damaged"]
           cut     == [ch[1] EXCEPT !.bytes = "damaged", !.tr = 1]
           marked  == [ch[1] EXCEPT !.tr = 1]
<1>2. ch[1] \in Packets /\ Len(ch) \in Nat
  BY HeadTail
<1>3. damaged \in Packets /\ cut \in Packets /\ marked \in Packets
  BY <1>2 DEF Packets
<1>4. ASSUME NEW m \in Packets, new = [ch EXCEPT ![1] = m]
      PROVE  new \in Seq(Packets) /\ Len(new) <= Len(ch)
  BY <1>2, <1>4, ReplaceFirst
<1>5. CASE new = [ch EXCEPT ![1].bytes = "damaged"]
  <2>1. new = [ch EXCEPT ![1] = damaged]
    BY <1>5
  <2> QED BY <1>3, <1>4, <2>1
<1>6. CASE new = [ch EXCEPT ![1].bytes = "damaged", ![1].tr = 1]
  <2>1. new = [ch EXCEPT ![1] = cut]
    BY <1>6, <1>2
  <2> QED BY <1>3, <1>4, <2>1
<1>7. CASE new = [ch EXCEPT ![1].tr = 1]
  <2>1. new = [ch EXCEPT ![1] = marked]
    BY <1>7
  <2> QED BY <1>3, <1>4, <2>1
<1>8. CASE Len(ch) >= 2 /\ new = [ch EXCEPT ![1] = ch[2], ![2] = ch[1]]
  BY <1>2, <1>8, SwapFirst
<1> QED BY <1>1, <1>5, <1>6, <1>7, <1>8 DEF Injected

-----------------------------------------------------------------------------
\* A scan over the slots writes packets of the buffer, those of the slots it
\* picks, in the order of the slots.
LEMMA ScanOfSlots ==
  ASSUME NEW slots, NEW msgs \in Scans(slots)
  PROVE  \E n \in Nat : \E r \in [1..n -> Slots] :
           /\ \A i, j \in 1..n : i < j => r[i] < r[j]
           /\ {r[j] : j \in 1..n} = slots
           /\ msgs = [j \in 1..n |-> sendingBuf[r[j]]]
<1>1. PICK r \in SlotLists : /\ {r[j] : j \in DOMAIN r} = slots
                            /\ msgs = [j \in DOMAIN r |-> sendingBuf[r[j]]]
  BY DEF Scans
<1>2. PICK n \in 0..MAX_WINDOW_SIZE : r \in [1..n -> Slots]
  BY <1>1 DEF SlotLists
<1>3. \A i, j \in DOMAIN r : i < j => r[i] < r[j]
  BY <1>1 DEF SlotLists
<1>4. DOMAIN r = 1..n /\ n \in Nat
  BY <1>2, SizeFacts
<1> QED BY <1>1, <1>2, <1>3, <1>4

\* What a loop over the slots writes are segments.
LEMMA ScansType ==
  ASSUME sendingBuf \in [Slots -> Packets], NEW slots, NEW msgs \in Scans(slots)
  PROVE  msgs \in Seq(Packets)
<1>1. PICK n \in Nat : \E r \in [1..n -> Slots] :
        msgs = [j \in 1..n |-> sendingBuf[r[j]]]
  BY ScanOfSlots
<1>2. msgs \in [1..n -> Packets]
  BY <1>1
<1> QED BY <1>2, FunctionIsSeq

\* Clocks stay clocks.
LEMMA TimedType ==
  ASSUME NEW time \in [Slots -> Nat], NEW written
  PROVE  Timed(time, written) \in [Slots -> Nat]
  BY DEF Timed, NotArmed

-----------------------------------------------------------------------------
\* The sender's writes.
LEMMA SendFwdType ==
  ASSUME LinkTypeOK, NEW msgs \in Seq(Packets), SendFwd(msgs)
  PROVE  fwd' \in Seq(Packets) /\ Len(fwd') <= FwdCapacity
  BY ConcatType DEF LinkTypeOK, SendFwd

\* A segment written to the sender fits its channel.
LEMMA SendRevType ==
  ASSUME LinkTypeOK, NEW m \in Packets, SendRev(m)
  PROVE  rev' \in Seq(Packets) /\ Len(rev') <= RevCapacity
<1>1. rev \in Seq(Packets) /\ Len(rev) <= RevCapacity /\ RevCapacity \in Nat
      /\ Len(rev) \in Nat
  BY LinkAssumption DEF LinkTypeOK
<1>2. CASE Len(rev) < RevCapacity
  BY <1>1, <1>2, AppendType DEF SendRev
<1>3. CASE ~(Len(rev) < RevCapacity)
  BY <1>1, <1>3 DEF SendRev
<1> QED BY <1>2, <1>3

\* Each branch of the two loops keeps the types.
LEMMA PollType ==
  ASSUME LinkTypeOK, SenderTypeOK, NEW expired, PollInput(expired)
  PROVE  LinkTypeOK' /\ SenderTypeOK'
<1>1. PICK resent \in Scans(expired) :
        \/ SendData(expired, resent)
        \/ SendDeco(expired, resent)
        \/ SendNothingNew(expired, resent)
  BY DEF PollInput
<1>2. resent \in Seq(Packets)
  BY ScansType DEF SenderTypeOK
<1>3. SlotOfNext \in Slots /\ SeqnumOfNext \in Seqnums /\ sendPktCount \in Nat
  BY ModFacts, ChunksAssumption DEF SlotOfNext, SeqnumOfNext, SenderTypeOK
<1>4. /\ pc' \in {"poll", "sock"} /\ faults' = faults /\ rev' = rev
      /\ lastAckSeqnum' = lastAckSeqnum
      /\ updateSendingTimeCount' = updateSendingTimeCount
      /\ sendingWindow' = sendingWindow
      /\ sender = "running"
  BY DEF PollInput
<1>5. ASSUME NEW packet \in Packets, sendPktCount \in 0..NChunks, MayRead,
             SendNew(packet, expired, resent), sender' \in SenderStatus
      PROVE  LinkTypeOK' /\ SenderTypeOK'
  <2>1. Append(resent, packet) \in Seq(Packets)
    BY <1>2, AppendType
  <2>2. fwd' \in Seq(Packets) /\ Len(fwd') <= FwdCapacity
    BY <1>5, <2>1, SendFwdType DEF SendNew
  <2>3. sendingTime' \in [Slots -> Nat]
    BY <1>5, TimedType DEF SendNew, SenderTypeOK
  <2>4. sendingBuf' \in [Slots -> Packets]
    BY <1>5, <1>3 DEF SendNew, SenderTypeOK
  <2>5. /\ sendPktCount' \in 0..(NChunks + 1) /\ sendBufCount' \in Int
        /\ receivingAvaiableSlotCount' \in 0..MAX_WINDOW_SIZE
    BY <1>5, ChunksAssumption, SizeFacts DEF SendNew, SenderTypeOK, MayRead
  <2> QED BY <1>4, <1>5, <2>2, <2>3, <2>4, <2>5 DEF LinkTypeOK, SenderTypeOK
<1>6. CASE SendData(expired, resent)
  <2>1. create_packet_data(sendPktCount, SeqnumOfNext, sendPktCount) \in Packets
    <3>1. sendPktCount \in Chunks
      BY <1>3, <1>6, ChunksAssumption DEF SendData, Chunks
    <3> QED BY <1>3, <3>1, CreateType, SizeFacts
  <2>2. sendPktCount \in 0..NChunks
    BY <1>3, <1>6, ChunksAssumption DEF SendData
  <2> QED BY <1>4, <1>5, <1>6, <2>1, <2>2 DEF SendData, SenderStatus
<1>7. CASE SendDeco(expired, resent)
  <2>1. create_packet_deco(SeqnumOfNext, sendPktCount) \in Packets
    BY <1>3, CreateType, SizeFacts
  <2>2. sendPktCount \in 0..NChunks
    BY <1>7, ChunksAssumption DEF SendDeco
  <2> QED BY <1>5, <1>7, <2>1, <2>2 DEF SendDeco, SenderStatus
<1>8. CASE SendNothingNew(expired, resent)
  <2>1. fwd' \in Seq(Packets) /\ Len(fwd') <= FwdCapacity
    BY <1>2, <1>8, SendFwdType DEF SendNothingNew
  <2>2. sendingTime' \in [Slots -> Nat]
    BY <1>8, TimedType DEF SendNothingNew, SenderTypeOK
  <2> QED BY <1>4, <1>8, <2>1, <2>2
          DEF SendNothingNew, LinkTypeOK, SenderTypeOK
<1> QED BY <1>1, <1>6, <1>7, <1>8

\* The sender's socket branch.
LEMMA ReadSocketType ==
  ASSUME LinkTypeOK, ReadSocket
  PROVE  /\ rev' \in Seq(Packets) /\ Len(rev') <= RevCapacity
         /\ Head(rev) \in Packets
         /\ pc' \in {"poll", "sock"} /\ faults' = faults
  BY HeadTail, LinkAssumption DEF LinkTypeOK, ReadSocket

\* The socket branch of the sender keeps the types.
LEMMA SocketType ==
  ASSUME LinkTypeOK, SenderTypeOK,
         IgnoreAck \/ HandleAck \/ HandleNack \/ SenderTimeout \/ SenderRefused
  PROVE  LinkTypeOK' /\ SenderTypeOK'
<1>1. CASE IgnoreAck
  BY <1>1, ReadSocketType
     DEF IgnoreAck, LinkTypeOK, SenderTypeOK, ackVars
<1>2. CASE HandleAck
  <2>1. /\ ReadSocket /\ Head(rev) \in Packets /\ sender' \in SenderStatus
        /\ receivingAvaiableSlotCount' \in 0..MAX_WINDOW_SIZE
        /\ lastAckSeqnum' \in Seqnums
        /\ sendPktCount' = sendPktCount /\ sendingBuf' = sendingBuf
        /\ fwd' = fwd
    BY <1>2, ReadSocketType
       DEF HandleAck, RunAway, SenderTypeOK, SenderStatus, Packets
  <2>2. CASE RunAway
    BY <2>1, <2>2, ReadSocketType DEF RunAway, LinkTypeOK, SenderTypeOK
  <2>3. ASSUME NEW index \in 0..MAX_WINDOW_SIZE, SlideSending(index)
        PROVE  LinkTypeOK' /\ SenderTypeOK'
    <3>1. index \in Nat /\ index \in Int
      BY SizeFacts
    <3>2. sendingWindow' \in [Slots -> Seqnums]
      BY <2>3, <3>1, WindowSlidesType DEF SlideSending, SenderTypeOK
    <3>3. sendingTime' \in [Slots -> Nat]
      BY <2>3 DEF SlideSending, SenderTypeOK, NotArmed
    <3>4. sendBufCount' \in Int /\ updateSendingTimeCount' \in Nat
      BY <2>3, <3>1 DEF SlideSending, SenderTypeOK
    <3> QED BY <2>1, <3>2, <3>3, <3>4, ReadSocketType
            DEF LinkTypeOK, SenderTypeOK
  <2> QED BY <1>2, <2>2, <2>3 DEF HandleAck
<1>3. CASE HandleNack
  <2>1. /\ ReadSocket /\ Head(rev) \in Packets /\ sender' \in SenderStatus
        /\ lastAckSeqnum' \in Seqnums
    BY <1>3, ReadSocketType
       DEF HandleNack, SenderTypeOK, SenderStatus, Packets
  <2>2. fwd' \in Seq(Packets) /\ Len(fwd') <= FwdCapacity
    <3>1. ASSUME NEW slots, NEW msgs \in Scans(slots), SendFwd(msgs)
          PROVE  fwd' \in Seq(Packets) /\ Len(fwd') <= FwdCapacity
      BY <3>1, ScansType, SendFwdType DEF SenderTypeOK
    <3> QED BY <1>3, <3>1 DEF HandleNack, LinkTypeOK
  <2> QED BY <1>3, <2>1, <2>2, ReadSocketType
          DEF HandleNack, LinkTypeOK, SenderTypeOK
<1>4. CASE SenderTimeout \/ SenderRefused
  BY <1>4 DEF SenderTimeout, SenderRefused, LinkTypeOK, SenderTypeOK,
              SenderStatus, ackVars, linkVars
<1> QED BY <1>1, <1>2, <1>3, <1>4

-----------------------------------------------------------------------------
\* The receiver's loop.
LEMMA ReadDatagramType ==
  ASSUME LinkTypeOK, ReadDatagram
  PROVE  /\ fwd' \in Seq(Packets) /\ Len(fwd') <= FwdCapacity
         /\ Head(fwd) \in Packets /\ faults' = faults
  BY HeadTail, LinkAssumption DEF LinkTypeOK, ReadDatagram

\* An ACK written has its type.
LEMMA SendAckType ==
  ASSUME LinkTypeOK, ackWindow \in 0..MAX_WINDOW_SIZE,
         NEW last \in Seqnums, NEW emptySlot \in Int, NEW written \in Nat,
         SendAck(last, emptySlot, written)
  PROVE  /\ rev' \in Seq(Packets) /\ Len(rev') <= RevCapacity
         /\ ackWindow' \in 0..MAX_WINDOW_SIZE
         /\ receiver' \in ReceiverStatus
<1>1. ackWindow' \in 0..MAX_WINDOW_SIZE
  BY WindowFieldType DEF SendAck
<1>2. last + 1 \in Int
  BY SeqnumsAreInts
<1>3. (last + 1) % SeqSpace \in Seqnums
  BY <1>2, ModFacts
<1>4. create_packet_ack((last + 1) % SeqSpace, ackWindow', written) \in Packets
  BY <1>1, <1>3, CreateType
<1>5. rev' \in Seq(Packets) /\ Len(rev') <= RevCapacity
  BY <1>4, SendRevType DEF SendAck
<1> QED BY <1>1, <1>5 DEF SendAck, ReceiverStatus

\* Sliding a buffer: the entries come from the old buffer or are the filler.
LEMMA UpdateBufsType ==
  ASSUME NEW T, NEW buf \in [Slots -> T], NEW fill \in T, NEW n \in Nat
  PROVE  update_bufs(buf, fill, n) \in [Slots -> T]
<1>1. ASSUME NEW i \in Slots
      PROVE  update_bufs(buf, fill, n)[i] \in T
  <2>1. i + n < MAX_WINDOW_SIZE => i + n \in Slots
    BY SlotBounds
  <2> QED BY <2>1, UpdatesEntry
<1> QED BY <1>1 DEF update_bufs

\* Each branch of the receiver keeps the types.
LEMMA ReceiverType ==
  ASSUME LinkTypeOK, ReceiverTypeOK, OccupiedInv,
         \/ IgnoreDatagram \/ SendNack \/ Disconnect
         \/ AckOutOfWindow \/ WriteInOrder \/ StoreOutOfOrder \/ FreeGarbage
         \/ ReceiverRefused
  PROVE  LinkTypeOK' /\ ReceiverTypeOK' /\ OccupiedInv'
<1>1. CASE IgnoreDatagram
  BY <1>1, ReadDatagramType
     DEF IgnoreDatagram, storeVars, LinkTypeOK, ReceiverTypeOK, ReceiverStatus,
         OccupiedInv
<1>2. CASE SendNack
  <2>1. Head(fwd) \in Packets
    BY <1>2, ReadDatagramType DEF SendNack
  <2>2. create_packet_nack(Head(fwd).seqnum, Head(fwd).nth) \in Packets
    <3>1. Head(fwd).seqnum \in Seqnums /\ Head(fwd).nth \in Nat
      BY <2>1 DEF Packets
    <3> QED BY <3>1, CreateType, SizeFacts
  <2>3. rev' \in Seq(Packets) /\ Len(rev') <= RevCapacity
    BY <1>2, <2>2, SendRevType DEF SendNack
  <2> QED BY <1>2, <2>3, ReadDatagramType
          DEF SendNack, storeVars, LinkTypeOK, ReceiverTypeOK, ReceiverStatus,
              OccupiedInv
<1>3. CASE Disconnect
  BY <1>3, ReadDatagramType
     DEF Disconnect, storeVars, LinkTypeOK, ReceiverTypeOK, ReceiverStatus,
         OccupiedInv
<1>4. ASSUME NEW index, ReceiveData(index)
      PROVE  /\ fwd' \in Seq(Packets) /\ Len(fwd') <= FwdCapacity
             /\ faults' = faults
             /\ Head(fwd) \in Packets /\ Head(fwd).payload \in Chunks
             /\ Head(fwd).payload # NoPayload /\ Head(fwd).seqnum \in Seqnums
  BY <1>4, ReadDatagramType DEF ReceiveData, Packets
<1>5. /\ ackWindow \in 0..MAX_WINDOW_SIZE /\ lastAck \in Seqnums
      /\ receivingEmptySlot \in Int /\ Len(writeFile) \in Nat
  BY DEF ReceiverTypeOK
<1>6. CASE AckOutOfWindow
  BY <1>4, <1>5, <1>6, SendAckType
     DEF AckOutOfWindow, storeVars, LinkTypeOK, ReceiverTypeOK, OccupiedInv
<1>7. CASE WriteInOrder
  <2>1. PICK d \in Slots :
       /\ Drains(d)
       /\ writeFile' = Append(writeFile, Head(fwd).payload)
                         \o [j \in 1..d |-> receivingBuf[j].payload]
       /\ lastAck' = IF d = 0 THEN Head(fwd).seqnum ELSE receivingBuf[d].seqnum
       /\ receivingWindow' = window_slides(receivingWindow, d + 1)
       /\ binaryReceivingBuf' = update_bufs(binaryReceivingBuf, 0, d + 1)
       /\ receivingBuf' = update_bufs(receivingBuf, NULL, d + 1)
       /\ receivingEmptySlot' = receivingEmptySlot + d
    BY <1>7 DEF WriteInOrder
  <2>2. d \in Nat /\ d + 1 \in Nat /\ \A j \in 1..d : j \in Slots
    BY SlotBounds, SizeFacts
  <2>3. ASSUME NEW j \in 1..d
        PROVE  /\ receivingBuf[j] \in Packets
               /\ receivingBuf[j].payload \in Chunks
               /\ receivingBuf[j].seqnum \in Seqnums
    <3>1. binaryReceivingBuf[j] = 1 /\ j \in Slots
      BY <2>1, <2>2 DEF Drains
    <3>2. receivingBuf[j] \in Packets /\ receivingBuf[j].payload # NoPayload
      BY <3>1 DEF OccupiedInv
    <3> QED BY <3>2 DEF Packets
  <2>4. writeFile' \in Seq(Chunks)
    <3>1. [j \in 1..d |-> receivingBuf[j].payload] \in [1..d -> Chunks]
      BY <2>3
    <3>2. [j \in 1..d |-> receivingBuf[j].payload] \in Seq(Chunks)
      BY <3>1, <2>2, FunctionIsSeq
    <3>3. Append(writeFile, Head(fwd).payload) \in Seq(Chunks)
      BY <1>4, <1>7, AppendType DEF WriteInOrder, ReceiverTypeOK
    <3> QED BY <2>1, <3>2, <3>3, ConcatType
  <2>5. lastAck' \in Seqnums
    <3>1. d # 0 => d \in 1..d
      BY <2>2
    <3> QED BY <1>4, <1>7, <2>1, <2>3, <3>1 DEF WriteInOrder
  <2>6. receivingWindow' \in [Slots -> Seqnums]
    BY <2>1, <2>2, WindowSlidesType DEF ReceiverTypeOK
  <2>7. binaryReceivingBuf' \in [Slots -> {0, 1}]
    BY <2>1, <2>2, UpdateBufsType DEF ReceiverTypeOK
  <2>8. receivingBuf' \in [Slots -> Packets \cup {NULL, Uninit}]
    <3>1. NULL \in Packets \cup {NULL, Uninit}
      OBVIOUS
    <3> QED BY <2>1, <2>2, <3>1, UpdateBufsType DEF ReceiverTypeOK
  <2>9. receivingEmptySlot' \in Int /\ Len(writeFile') \in Nat
    BY <1>5, <2>1, <2>2, <2>4
  <2>10. SendAck(lastAck', receivingEmptySlot', Len(writeFile'))
    BY <1>7 DEF WriteInOrder
  <2>11. /\ rev' \in Seq(Packets) /\ Len(rev') <= RevCapacity
         /\ ackWindow' \in 0..MAX_WINDOW_SIZE /\ receiver' \in ReceiverStatus
    BY <1>5, <2>5, <2>9, <2>10, SendAckType
  <2>12. OccupiedInv'
    <3>1. ASSUME NEW i \in Slots, binaryReceivingBuf'[i] = 1
          PROVE  /\ receivingBuf'[i] \in Packets
                 /\ receivingBuf'[i].payload # NoPayload
      <4>1. i \in Int /\ 0 <= i /\ d \in Int /\ 0 <= d
        BY SlotBounds
      <4>2. i + (d + 1) < MAX_WINDOW_SIZE
        BY <2>1, <3>1, UpdatesEntry
      <4>3. i + (d + 1) \in Slots
        BY <4>1, <4>2, SlotBounds
      <4>4. /\ binaryReceivingBuf'[i] = binaryReceivingBuf[i + (d + 1)]
            /\ receivingBuf'[i] = receivingBuf[i + (d + 1)]
        BY <2>1, <4>2, UpdatesEntry
      <4> QED BY <3>1, <4>3, <4>4 DEF OccupiedInv
    <3> QED BY <3>1 DEF OccupiedInv
  <2> QED BY <1>4, <1>7, <2>4, <2>5, <2>6, <2>7, <2>8, <2>9, <2>11, <2>12
          DEF WriteInOrder, LinkTypeOK, ReceiverTypeOK
<1>8. CASE StoreOutOfOrder
  <2>1. PICK index \in Slots \ {0} :
    /\ ReceiveData(index)
    /\ receivingBuf' = [receivingBuf EXCEPT ![index] = Head(fwd)]
    /\ receivingEmptySlot' = receivingEmptySlot - 1
    /\ binaryReceivingBuf' = [binaryReceivingBuf EXCEPT ![index] = 1]
    /\ SendAck(lastAck, receivingEmptySlot', Len(writeFile))
    /\ UNCHANGED <<receivingWindow, lastAck, writeFile>>
    BY <1>8 DEF StoreOutOfOrder
  <2>2. receivingEmptySlot' \in Int
    BY <1>5, <2>1
  <2>3. /\ rev' \in Seq(Packets) /\ Len(rev') <= RevCapacity
        /\ ackWindow' \in 0..MAX_WINDOW_SIZE /\ receiver' \in ReceiverStatus
    BY <1>5, <2>1, <2>2, SendAckType
  <2>4. /\ receivingBuf' \in [Slots -> Packets \cup {NULL, Uninit}]
        /\ binaryReceivingBuf' \in [Slots -> {0, 1}]
    BY <1>4, <2>1 DEF ReceiverTypeOK
  <2>5. OccupiedInv'
    <3>1. ASSUME NEW i \in Slots, binaryReceivingBuf'[i] = 1
          PROVE  /\ receivingBuf'[i] \in Packets
                 /\ receivingBuf'[i].payload # NoPayload
      <4>1. CASE i = index
        BY <1>4, <2>1, <4>1 DEF ReceiverTypeOK
      <4>2. CASE i # index
        BY <2>1, <3>1, <4>2 DEF ReceiverTypeOK, OccupiedInv
      <4> QED BY <4>1, <4>2
    <3> QED BY <3>1 DEF OccupiedInv
  <2> QED BY <1>4, <2>1, <2>2, <2>3, <2>4, <2>5 DEF LinkTypeOK, ReceiverTypeOK
<1>9. CASE FreeGarbage
  <2>1. PICK index \in Slots :
       /\ ReceiveData(index)
       /\ writeFile' = IF index = 0
                       THEN Append(writeFile, Head(fwd).payload)
                       ELSE writeFile
    BY <1>9 DEF FreeGarbage
  <2>2. writeFile' \in Seq(Chunks)
    BY <1>4, <2>1, AppendType DEF ReceiverTypeOK
  <2> QED BY <1>4, <1>9, <2>1, <2>2
          DEF FreeGarbage, LinkTypeOK, ReceiverTypeOK, ReceiverStatus,
              OccupiedInv
<1>10. CASE ReceiverRefused
  BY <1>10 DEF ReceiverRefused, storeVars, linkVars, LinkTypeOK, ReceiverTypeOK,
               ReceiverStatus, OccupiedInv
<1> QED BY <1>1, <1>2, <1>3, <1>6, <1>7, <1>8, <1>9, <1>10

-----------------------------------------------------------------------------
\* Types hold initially and every step keeps them.
LEMMA InitType == Init => TypeInv
<1> SUFFICES ASSUME Init PROVE TypeInv
  OBVIOUS
<1>1. LinkTypeOK
  BY LinkAssumption DEF Init, LinkInit, LinkTypeOK
<1>2. \A i \in Slots : i \in Seqnums
  BY WindowAssumption DEF Slots, Seqnums
<1>3. SenderTypeOK
  <2>1. \A t \in GarbageTypes, s \in GarbageSeqnums :
          BlankSlot(t, s) \in Packets
    BY SenderAssumption, CreateType, SizeFacts DEF Types
  <2>2. sendingBuf \in [Slots -> Packets]
    BY <2>1 DEF Init, SenderInit
  <2> QED BY <1>2, <2>2, ChunksAssumption, SizeFacts
          DEF Init, SenderInit, SenderTypeOK, SenderStatus, InitialSlotCount,
              NotArmed
<1>4. ReceiverTypeOK /\ OccupiedInv
  BY <1>2, SizeFacts, WindowAssumption
     DEF Init, ReceiverInit, ReceiverTypeOK, ReceiverStatus, Seqnums,
         OccupiedInv
<1> QED BY <1>1, <1>3, <1>4 DEF TypeInv, TypeOK

LEMMA NextType == TypeInv /\ [Next]_vars => TypeInv'
<1> SUFFICES ASSUME TypeInv, [Next]_vars PROVE TypeInv'
  OBVIOUS
<1>0. LinkTypeOK /\ SenderTypeOK /\ ReceiverTypeOK /\ OccupiedInv
  BY DEF TypeInv, TypeOK
<1>1. CASE SenderStep
  <2>1. LinkTypeOK' /\ SenderTypeOK'
    BY <1>0, <1>1, PollType, SocketType
       DEF SenderStep, SocketStep, PollTimeout, PollStep
  <2>2. UNCHANGED receiverVars
    BY <1>1 DEF SenderStep, SocketStep, PollStep
  <2>3. ReceiverTypeOK' /\ OccupiedInv'
    BY <1>0, <2>2 DEF receiverVars, storeVars, ReceiverTypeOK, OccupiedInv
  <2> QED BY <2>1, <2>3 DEF TypeInv, TypeOK
<1>2. CASE ReceiverStep
  <2>1. LinkTypeOK' /\ ReceiverTypeOK' /\ OccupiedInv'
    BY <1>0, <1>2, ReceiverType DEF ReceiverStep
  <2>2. SenderTypeOK'
    BY <1>0, <1>2 DEF ReceiverStep, senderVars, ackVars, SenderTypeOK
  <2> QED BY <2>1, <2>2 DEF TypeInv, TypeOK
<1>3. CASE ReceiverTimeout
  BY <1>0, <1>3
     DEF ReceiverTimeout, senderVars, ackVars, linkVars, storeVars,
         TypeInv, TypeOK, LinkTypeOK, SenderTypeOK, ReceiverTypeOK,
         ReceiverStatus, OccupiedInv
<1>4. CASE ReachClosedReceiver
  <2>1. fwd' \in Seq(Packets) /\ Len(fwd') <= FwdCapacity
    BY <1>0, <1>4, HeadTail, LinkAssumption DEF ReachClosedReceiver, LinkTypeOK
  <2> QED BY <1>0, <1>4, <2>1
          DEF ReachClosedReceiver, ackVars, receiverVars, storeVars,
              TypeInv, TypeOK, LinkTypeOK, SenderTypeOK, SenderStatus,
              ReceiverTypeOK, OccupiedInv
<1>5. CASE ReachClosedSender
  <2>1. rev' \in Seq(Packets) /\ Len(rev') <= RevCapacity
    BY <1>0, <1>5, HeadTail, LinkAssumption DEF ReachClosedSender, LinkTypeOK
  <2> QED BY <1>0, <1>5, <2>1
          DEF ReachClosedSender, senderVars, ackVars, storeVars,
              TypeInv, TypeOK, LinkTypeOK, SenderTypeOK, ReceiverTypeOK,
              ReceiverStatus, OccupiedInv
<1>6. CASE LinkFault
  <2>1. /\ fwd' \in Seq(Packets) /\ Len(fwd') <= FwdCapacity
        /\ rev' \in Seq(Packets) /\ Len(rev') <= RevCapacity
        /\ faults' \in 0..MaxFaults
    BY <1>0, <1>6, InjectedType, LinkAssumption DEF LinkFault, LinkTypeOK
  <2> QED BY <1>0, <1>6, <2>1
          DEF LinkFault, senderVars, ackVars, receiverVars, storeVars,
              TypeInv, TypeOK, LinkTypeOK, SenderTypeOK, ReceiverTypeOK,
              OccupiedInv
<1>7. CASE UNCHANGED vars
  BY <1>0, <1>7
     DEF vars, senderVars, ackVars, receiverVars, storeVars, linkVars,
         TypeInv, TypeOK, LinkTypeOK, SenderTypeOK, ReceiverTypeOK, OccupiedInv
<1> QED BY <1>1, <1>2, <1>3, <1>4, <1>5, <1>6, <1>7 DEF Next

\* In every reachable state the variables have their types; in particular the
\* receiver only ever writes chunks of the input, which rests on its never
\* draining a slot that was not filled (read_write_loop.c:377-394).
THEOREM TypeCorrect == Spec => []TypeOK
<1>1. Spec => []TypeInv
  BY InitType, NextType, PTL DEF Spec
<1>2. TypeInv => TypeOK
  BY DEF TypeInv
<1> QED BY <1>1, <1>2, PTL

-----------------------------------------------------------------------------
\* The slots marked as occupied, and what the window announced rests on: index 0
\* is never occupied, and the count of empty slots is what the occupied ones
\* leave, or less.
Occupied == {i \in Slots : binaryReceivingBuf[i] = 1}

SlotInv == /\ TypeInv /\ binaryReceivingBuf[0] = 0
           /\ receivingEmptySlot + Cardinality(Occupied) <= MAX_WINDOW_SIZE

LEMMA OccupiedFinite == IsFiniteSet(Slots) /\ IsFiniteSet(Occupied)
                        /\ Cardinality(Occupied) \in Nat
<1>1. IsFiniteSet(Slots)
  BY FS_Interval, SizeFacts DEF Slots
<1>2. Occupied \in SUBSET Slots
  BY DEF Occupied
<1>3. IsFiniteSet(Occupied)
  BY <1>1, <1>2, FS_Subset
<1> QED BY <1>1, <1>3, FS_CardinalityType

LEMMA InitSlots == Init => SlotInv
<1> SUFFICES ASSUME Init PROVE SlotInv
  OBVIOUS
<1>1. binaryReceivingBuf = [i \in Slots |-> 0] /\ receivingEmptySlot = MAX_WINDOW_SIZE
  BY DEF Init, ReceiverInit
<1>2. 0 \in Slots
  BY SizeFacts, SlotBounds
<1>3. Occupied = {}
  BY <1>1 DEF Occupied
<1>4. Cardinality(Occupied) = 0
  BY <1>3, FS_EmptySet
<1> QED BY <1>1, <1>2, <1>4, SizeFacts, InitType DEF SlotInv

\* One more slot is occupied at most, for the one that is given up.
LEMMA StoreSlots ==
  ASSUME SlotInv, StoreOutOfOrder
  PROVE  /\ binaryReceivingBuf'[0] = 0
         /\ receivingEmptySlot' + Cardinality(Occupied') <= MAX_WINDOW_SIZE
<1>1. PICK index \in Slots \ {0} :
        /\ receivingEmptySlot' = receivingEmptySlot - 1
        /\ binaryReceivingBuf' = [binaryReceivingBuf EXCEPT ![index] = 1]
  BY DEF StoreOutOfOrder
<1>2. /\ binaryReceivingBuf \in [Slots -> {0, 1}] /\ receivingEmptySlot \in Int
      /\ binaryReceivingBuf[0] = 0
  BY DEF SlotInv, TypeInv, TypeOK, ReceiverTypeOK
<1>3. Occupied' = Occupied \cup {index}
  BY <1>1, <1>2 DEF Occupied
<1>4. Cardinality(Occupied') \in {Cardinality(Occupied), Cardinality(Occupied) + 1}
  BY <1>3, FS_AddElement, OccupiedFinite
<1>5. receivingEmptySlot' + Cardinality(Occupied') <= MAX_WINDOW_SIZE
  BY <1>1, <1>2, <1>4, OccupiedFinite, SizeFacts DEF SlotInv
<1>6. binaryReceivingBuf'[0] = 0
  BY <1>1, <1>2
<1> QED BY <1>5, <1>6

\* The d packets that are written after the one at index 0 leave their slots,
\* which are given back; those behind the gap move down.
LEMMA WriteSlots ==
  ASSUME SlotInv, WriteInOrder
  PROVE  /\ binaryReceivingBuf'[0] = 0
         /\ receivingEmptySlot' + Cardinality(Occupied') <= MAX_WINDOW_SIZE
<1>1. PICK d \in Slots :
        /\ Drains(d)
        /\ binaryReceivingBuf' = update_bufs(binaryReceivingBuf, 0, d + 1)
        /\ receivingEmptySlot' = receivingEmptySlot + d
  BY DEF WriteInOrder
<1>2. binaryReceivingBuf \in [Slots -> {0, 1}] /\ receivingEmptySlot \in Int
  BY DEF SlotInv, TypeInv, TypeOK, ReceiverTypeOK
<1>3. d \in Nat /\ d < MAX_WINDOW_SIZE /\ 0 \in Slots /\ 0 + (d + 1) = d + 1
  BY SizeFacts, SlotBounds
<1>4. binaryReceivingBuf'[0] = 0
  <2>1. CASE d + 1 < MAX_WINDOW_SIZE
    <3>1. d + 1 \in Slots
      BY <1>3, <2>1, SlotBounds
    <3> QED BY <1>1, <1>3, <2>1, <3>1, UpdatesEntry DEF Drains
  <2>2. CASE ~(d + 1 < MAX_WINDOW_SIZE)
    BY <1>1, <1>3, <2>2, UpdatesEntry
  <2> QED BY <2>1, <2>2
<1> DEFINE Drained == 1..d
           Behind  == Occupied \ Drained
           Down    == [i \in Occupied' |-> i + (d + 1)]
<1>5. Drained \subseteq Occupied
  <2>1. ASSUME NEW i \in Drained PROVE i \in Slots /\ binaryReceivingBuf[i] = 1
    BY <1>1, <1>3, SizeFacts, SlotBounds DEF Drains
  <2> QED BY <2>1 DEF Occupied
<1>6. Cardinality(Behind) = Cardinality(Occupied) - d /\ IsFiniteSet(Behind)
  <2>1. Occupied \cap Drained = Drained
    BY <1>5
  <2>2. Cardinality(Drained) = d
    <3>1. Cardinality(1..d) = IF 1 > d THEN 0 ELSE d - 1 + 1
      BY <1>3, FS_Interval
    <3> QED BY <1>3, <3>1
  <2>3. /\ IsFiniteSet(Behind)
        /\ Cardinality(Behind)
             = Cardinality(Occupied) - Cardinality(Occupied \cap Drained)
    BY FS_Difference, OccupiedFinite
  <2> QED BY <2>1, <2>2, <2>3
<1>7. \A i \in Occupied' : i \in Int /\ Down[i] = i + (d + 1) /\ Down[i] \in Behind
  <2>1. ASSUME NEW i \in Occupied'
        PROVE  i \in Int /\ i + (d + 1) \in Behind
    <3>1. i \in Slots /\ binaryReceivingBuf'[i] = 1
      BY DEF Occupied
    <3>2. /\ i + (d + 1) < MAX_WINDOW_SIZE
          /\ binaryReceivingBuf[i + (d + 1)] = 1
      BY <1>1, <3>1, UpdatesEntry
    <3>3. i \in Int /\ 0 <= i /\ i + (d + 1) \in Slots /\ ~(i + (d + 1) <= d)
      BY <1>3, <3>1, <3>2, SlotBounds
    <3> QED BY <3>2, <3>3, <1>3 DEF Occupied
  <2> QED BY <2>1
<1>8. Down \in Injection(Occupied', Behind)
  <2>1. Down \in [Occupied' -> Behind]
    BY <1>7
  <2>2. ASSUME NEW i \in Occupied', NEW j \in Occupied', Down[i] = Down[j]
        PROVE  i = j
    BY <1>3, <1>7, <2>2
  <2>3. DOMAIN Down = Occupied'
    OBVIOUS
  <2> QED BY <2>1, <2>2, <2>3 DEF Injection, IsInjective
<1>9. Cardinality(Occupied') <= Cardinality(Occupied) - d
      /\ Cardinality(Occupied') \in Nat
  <2> HIDE DEF Down, Behind
  <2>1. IsFiniteSet(Occupied') /\ Cardinality(Occupied') <= Cardinality(Behind)
    BY <1>6, <1>8, FS_Injection
  <2> QED BY <1>6, <2>1, FS_CardinalityType
<1>10. receivingEmptySlot' + Cardinality(Occupied') <= MAX_WINDOW_SIZE
  BY <1>1, <1>2, <1>3, <1>9, OccupiedFinite, SizeFacts DEF SlotInv
<1> QED BY <1>4, <1>10

LEMMA NextSlots == SlotInv /\ [Next]_vars => SlotInv'
<1> SUFFICES ASSUME SlotInv, [Next]_vars PROVE SlotInv'
  OBVIOUS
<1>1. TypeInv'
  BY NextType DEF SlotInv
<1>2. CASE UNCHANGED <<binaryReceivingBuf, receivingEmptySlot>>
  <2>1. Occupied' = Occupied
    BY <1>2 DEF Occupied
  <2>2. Cardinality(Occupied') = Cardinality(Occupied)
    BY <2>1
  <2> QED BY <1>1, <1>2, <2>2 DEF SlotInv
<1>3. CASE StoreOutOfOrder
  BY <1>1, <1>3, StoreSlots DEF SlotInv
<1>4. CASE WriteInOrder
  BY <1>1, <1>4, WriteSlots DEF SlotInv
<1>5. CASE UNCHANGED receiverVars
  BY <1>2, <1>5 DEF receiverVars, storeVars
<1>6. CASE ReceiverStep
  BY <1>2, <1>3, <1>4, <1>6
     DEF ReceiverStep, IgnoreDatagram, SendNack, Disconnect, AckOutOfWindow,
         FreeGarbage, ReceiverRefused, storeVars
<1>7. CASE ReceiverTimeout \/ ReachClosedSender
  BY <1>2, <1>7 DEF ReceiverTimeout, ReachClosedSender, storeVars
<1>8. CASE SenderStep \/ ReachClosedReceiver \/ LinkFault \/ UNCHANGED vars
  BY <1>5, <1>8
     DEF SenderStep, SocketStep, PollStep, ReachClosedReceiver, LinkFault, vars
<1> QED BY <1>6, <1>7, <1>8 DEF Next

\* The window of the last ACK is not above the count of empty slots, and 0 once
\* that is below 0.
Announced(window, empty) == window <= IF empty >= 0 THEN empty ELSE 0

AnnounceInv == SlotInv /\ Announced(ackWindow, receivingEmptySlot)

\* An ACK for the count of empty slots that a step leaves, which is lower by one
\* than the count before, or not lower.
LEMMA AckAnnounces ==
  ASSUME TypeInv, Announced(ackWindow, receivingEmptySlot),
         NEW empty \in Int, empty >= receivingEmptySlot - 1,
         empty <= MAX_WINDOW_SIZE, MAX_WINDOW_SIZE < empty + UINT8_RANGE,
         NEW last, NEW written, SendAck(last, empty, written)
  PROVE  Announced(ackWindow', empty)
<1>1. ackWindow \in Int /\ receivingEmptySlot \in Int
  BY SizeFacts DEF TypeInv, TypeOK, ReceiverTypeOK
<1>2. ackWindow' = IF empty >= 0 THEN empty ELSE ackWindow
  BY WindowField DEF SendAck
<1> QED BY <1>1, <1>2 DEF Announced

\* No step announces more than it leaves empty, as long as the count fits.
LEMMA NextAnnounce == AnnounceInv /\ DebtFits' /\ [Next]_vars => AnnounceInv'
<1> SUFFICES ASSUME AnnounceInv, DebtFits', [Next]_vars
             PROVE  AnnounceInv'
  OBVIOUS
<1>1. SlotInv /\ SlotInv' /\ TypeInv
  BY NextSlots DEF AnnounceInv, SlotInv
<1>2. /\ receivingEmptySlot \in Int /\ receivingEmptySlot' \in Int
      /\ receivingEmptySlot' <= MAX_WINDOW_SIZE
      /\ MAX_WINDOW_SIZE < receivingEmptySlot' + UINT8_RANGE
  <2>1. receivingEmptySlot \in Int /\ receivingEmptySlot' \in Int
    BY <1>1 DEF SlotInv, TypeInv, TypeOK, ReceiverTypeOK
  <2>2. Cardinality(Occupied') \in Nat
    <3>1. Occupied' \in SUBSET Slots
      BY DEF Occupied
    <3> QED BY <3>1, OccupiedFinite, FS_Subset, FS_CardinalityType
  <2> QED BY <1>1, <2>1, <2>2, SizeFacts DEF SlotInv, DebtFits
<1>3. CASE UNCHANGED <<ackWindow, receivingEmptySlot>>
  BY <1>1, <1>3 DEF AnnounceInv, Announced
<1>4. ASSUME NEW last, NEW written,
             SendAck(last, receivingEmptySlot', written),
             receivingEmptySlot' >= receivingEmptySlot - 1
      PROVE  AnnounceInv'
  BY <1>1, <1>2, <1>4, AckAnnounces DEF AnnounceInv
<1>5. CASE AckOutOfWindow
  <2>1. receivingEmptySlot' = receivingEmptySlot
        /\ SendAck(lastAck, receivingEmptySlot, Len(writeFile))
    BY <1>5 DEF AckOutOfWindow, storeVars
  <2> QED BY <1>2, <1>4, <2>1
<1>6. CASE WriteInOrder
  <2>1. PICK d \in Slots : receivingEmptySlot' = receivingEmptySlot + d
    BY <1>6 DEF WriteInOrder
  <2>2. SendAck(lastAck', receivingEmptySlot', Len(writeFile'))
    BY <1>6 DEF WriteInOrder
  <2>3. receivingEmptySlot' >= receivingEmptySlot - 1
    BY <1>2, <2>1, SlotBounds
  <2> QED BY <1>4, <2>2, <2>3
<1>7. CASE StoreOutOfOrder
  <2>1. /\ receivingEmptySlot' = receivingEmptySlot - 1
        /\ SendAck(lastAck, receivingEmptySlot', Len(writeFile))
    BY <1>7 DEF StoreOutOfOrder
  <2> QED BY <1>2, <1>4, <2>1
<1>8. CASE ReceiverStep
  BY <1>3, <1>5, <1>6, <1>7, <1>8
     DEF ReceiverStep, IgnoreDatagram, SendNack, Disconnect, FreeGarbage,
         ReceiverRefused, storeVars
<1>9. CASE UNCHANGED receiverVars
  BY <1>3, <1>9 DEF receiverVars, storeVars
<1>10. CASE ReceiverTimeout \/ ReachClosedSender
  BY <1>3, <1>10 DEF ReceiverTimeout, ReachClosedSender, storeVars
<1>11. CASE SenderStep \/ ReachClosedReceiver \/ LinkFault \/ UNCHANGED vars
  BY <1>9, <1>11
     DEF SenderStep, SocketStep, PollStep, ReachClosedReceiver, LinkFault, vars
<1> QED BY <1>8, <1>10, <1>11 DEF Next

LEMMA InitAnnounce == Init => AnnounceInv
<1> SUFFICES ASSUME Init PROVE AnnounceInv
  OBVIOUS
<1>1. SlotInv
  BY InitSlots
<1>2. ackWindow = 0 /\ receivingEmptySlot = MAX_WINDOW_SIZE
  BY DEF Init, ReceiverInit
<1> QED BY <1>1, <1>2, SizeFacts DEF AnnounceInv, Announced

\* What is announced is free, when the count is not below 0 because the count
\* says so, and below 0 because nothing is announced.
LEMMA AnnouncedFits == AnnounceInv => AnnouncedIsFree
<1> SUFFICES ASSUME AnnounceInv PROVE AnnouncedIsFree
  OBVIOUS
<1>1. /\ ackWindow \in Int /\ receivingEmptySlot \in Int
      /\ Cardinality(Occupied) \in Nat
      /\ receivingEmptySlot + Cardinality(Occupied) <= MAX_WINDOW_SIZE
      /\ ackWindow <= IF receivingEmptySlot >= 0 THEN receivingEmptySlot ELSE 0
  BY OccupiedFinite, SizeFacts
     DEF AnnounceInv, Announced, SlotInv, TypeInv, TypeOK, ReceiverTypeOK
<1>2. Cardinality(Occupied) <= MAX_WINDOW_SIZE
  <2>1. Occupied \subseteq 0..(MAX_WINDOW_SIZE - 1)
    BY DEF Occupied, Slots
  <2>2. /\ IsFiniteSet(0..(MAX_WINDOW_SIZE - 1))
        /\ Cardinality(0..(MAX_WINDOW_SIZE - 1)) = MAX_WINDOW_SIZE
    <3>1. 0 <= MAX_WINDOW_SIZE - 1 /\ MAX_WINDOW_SIZE \in Nat
      BY SizeFacts
    <3>2. /\ IsFiniteSet(0..(MAX_WINDOW_SIZE - 1))
          /\ Cardinality(0..(MAX_WINDOW_SIZE - 1))
               = IF 0 > MAX_WINDOW_SIZE - 1 THEN 0 ELSE MAX_WINDOW_SIZE - 1 - 0 + 1
      BY <3>1, FS_Interval
    <3> QED BY <3>1, <3>2
  <2> QED BY <2>1, <2>2, FS_Subset
<1>3. ackWindow + Cardinality(Occupied) <= MAX_WINDOW_SIZE
  BY <1>1, <1>2, SizeFacts
<1> QED BY <1>3 DEF AnnouncedIsFree, Occupied

\* On every link, one that reorders included, no ACK announces a slot in which a
\* packet is stored, as long as packets counted twice have not used up the
\* range of a uint8_t (read_write_loop.c:393, 424; create_packet.c:152): until
\* then counting a packet twice only makes the window smaller.
THEOREM AnnouncedSlotsFree == Spec /\ []DebtFits => []AnnouncedIsFree
<1>1. Spec /\ []DebtFits => []AnnounceInv
  BY InitAnnounce, NextAnnounce, PTL DEF Spec
<1> QED BY <1>1, AnnouncedFits, PTL
=============================================================================
