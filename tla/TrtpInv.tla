------------------------------ MODULE TrtpInv ------------------------------
(***************************************************************************)
(* The inductive invariant behind the safety properties of Trtp.  Its      *)
(* parts relate the two ends and what is under way between them through    *)
(* the positions that the eight-bit numbers abbreviate: the oldest         *)
(* unacknowledged packet, the next packet and the number of chunks in the  *)
(* file.  ProtocolInv holds on every link, as long as nothing arrives      *)
(* later than Timely allows; LateInv says how late it can be on a link     *)
(* that keeps the order, or reorders a bounded number of times.            *)
(***************************************************************************)
EXTENDS Trtp

\* The packet at position k of the stream: a chunk, or after the last of them
\* the disconnection request.
PacketAt(k) == IF k = NChunks THEN create_packet_deco(k % SeqSpace, k)
               ELSE create_packet_data(k, k % SeqSpace, k)

\* m carries position k, whatever the link did to it.
Carries(m, k) == /\ m.type = "DATA" /\ m.nth = k
                 /\ m.seqnum = k % SeqSpace
                 /\ m.payload = PacketAt(k).payload

\* The slots that nothing filled hold no packet type, as in zeroed memory.
CleanSlots == GarbageTypes = {"NONE"}

Blanks == {BlankSlot("NONE", s) : s \in GarbageSeqnums}

\* A segment under way to the receiver holds a packet before position next, or
\* what an unfilled slot held.
Sound(m, next) ==
  \/ m.type = "NONE" /\ m.tr = 0 /\ m.payload = NoPayload
  \/ m.nth < next /\ Carries(m, m.nth)

-----------------------------------------------------------------------------
\* Counters: oldest unacknowledged <= chunks in the file <= next packet, the
\* last at most a window beyond the first.
CountInv ==
  /\ sendPktCount = updateSendingTimeCount + sendBufCount
  /\ sendBufCount \in 0..MAX_WINDOW_SIZE
  /\ updateSendingTimeCount <= Len(writeFile)
  /\ Len(writeFile) <= sendPktCount /\ Len(writeFile) <= NChunks
  /\ sendPktCount = NChunks + 1 <=> sender = "disconnected"
  /\ sender = "disconnected" => Len(writeFile) = NChunks
  /\ receiver = "disconnected" => sender = "disconnected"

\* Before the first chunk is written at most one packet exists, so that the
\* receiver never acknowledges with lastAck as it was initialised.
StartInv ==
  Len(writeFile) = 0 =>
    /\ sendPktCount + receivingAvaiableSlotCount = 1
    /\ \A j \in DOMAIN rev : rev[j].type # "ACK"

WindowInv ==
  \A i \in Slots : sendingWindow[i] = (updateSendingTimeCount + i) % SeqSpace

\* The slots of the packets in flight are timed and the others are not.
TimeInv ==
  \A k \in updateSendingTimeCount
             ..(updateSendingTimeCount + MAX_WINDOW_SIZE - 1) :
    sendingTime[k % MAX_WINDOW_SIZE] # NotArmed <=> k < sendPktCount

\* Position k is one of the last MAX_WINDOW_SIZE before next.
Recent(k, next) == k < next /\ next <= k + MAX_WINDOW_SIZE

\* The last MAX_WINDOW_SIZE packets are in their slots; the other slots were
\* never filled.
BufInv ==
  /\ \A i \in Slots :
       \/ sendingBuf[i] \in Blanks
       \/ \E k \in 0..NChunks : /\ Recent(k, sendPktCount)
                              /\ i = k % MAX_WINDOW_SIZE
                              /\ sendingBuf[i] = PacketAt(k)
  /\ \A k \in 0..NChunks :
       Recent(k, sendPktCount) => sendingBuf[k % MAX_WINDOW_SIZE] = PacketAt(k)

\* What the last acknowledgement said: the oldest packet not acknowledged, or
\* an older one, or one for which a NACK came, whose number has not come round
\* to the window again.
LastAckInv ==
  \/ lastAckSeqnum = -1
  \/ lastAckSeqnum = updateSendingTimeCount % SeqSpace
  \/ \E k \in 0..NChunks : /\ k < sendPktCount
                    /\ updateSendingTimeCount + MAX_WINDOW_SIZE < k + SeqSpace
                    /\ lastAckSeqnum = k % SeqSpace

FwdInv == \A j \in DOMAIN fwd : Sound(fwd[j], sendPktCount)

StoreInv ==
  receiver # "crashed" =>
    /\ binaryReceivingBuf[0] = 0
    /\ lastAck = IF Len(writeFile) = 0 THEN 0
                 ELSE (Len(writeFile) - 1) % SeqSpace
    /\ \A i \in Slots : receivingWindow[i] = (Len(writeFile) + i) % SeqSpace
    /\ \A i \in Slots : binaryReceivingBuf[i] = 1 =>
         /\ receivingBuf[i] \in Packets
         /\ receivingBuf[i].seqnum = (Len(writeFile) + i) % SeqSpace
         /\ receivingBuf[i].payload = Len(writeFile) + i
         /\ Len(writeFile) + i < sendPktCount /\ Len(writeFile) + i < NChunks

\* An ACK under way names a position up to the chunks written, a NACK one
\* before the next packet.
AckAt(m, written) ==
  /\ m.type = "ACK" /\ m.seqnum = m.nth % SeqSpace
  /\ 1 <= m.nth /\ m.nth <= written
NackAt(m, next) ==
  /\ m.type = "NACK" /\ m.seqnum = m.nth % SeqSpace /\ m.nth < next

RevInv ==
  \A j \in DOMAIN rev : \/ AckAt(rev[j], Len(writeFile))
                         \/ NackAt(rev[j], sendPktCount)

\* What type correctness rests on: a slot that counts as occupied was filled,
\* by a packet that is not the disconnection request.
OccupiedInv ==
  \A i \in Slots : binaryReceivingBuf[i] = 1 =>
    receivingBuf[i] \in Packets /\ receivingBuf[i].payload # NoPayload

TypeInv == TypeOK /\ OccupiedInv

\* Packets counted twice have not taken receivingEmptySlot so far below 0 that
\* its lowest eight bits are a number of slots again.
DebtFits == MAX_WINDOW_SIZE < receivingEmptySlot + UINT8_RANGE

\* What the two ends and the channels keep true of each other.
ProtocolInv ==
  /\ InOrder /\ CountInv /\ StartInv /\ WindowInv /\ TimeInv /\ BufInv
  /\ LastAckInv /\ FwdInv /\ StoreInv /\ RevInv

-----------------------------------------------------------------------------
\* What the sequence numbers ask of the network: the number of a segment that
\* is read later does not stand for another position by then.  Segments lie
\* less than a number space behind the end of the receiving window,
\* acknowledgements less than one behind the next packet there may be.
Timely ==
  /\ receiver # "crashed" =>
       \A j \in DOMAIN fwd : fwd[j].type = "DATA" =>
         Len(writeFile) + MAX_WINDOW_SIZE <= fwd[j].nth + SeqSpace
  /\ sender = "running" =>
       \A j \in DOMAIN rev :
         updateSendingTimeCount + MAX_WINDOW_SIZE < rev[j].nth + SeqSpace

\* How much later than on a link that keeps the order a segment can be: a
\* window for every fault there was, if faults reorder.
Slack(allowed) == IF "reorder" \in allowed THEN MAX_WINDOW_SIZE * faults ELSE 0
FwdSlack == Slack(FwdFaults)
RevSlack == Slack(RevFaults)
AnySlack == Slack(FwdFaults \cup RevFaults)

\* No segment is a window, and slack, ahead of one that follows it.
Ordered(ch, slack) ==
  \A i, j \in DOMAIN ch :
    i < j /\ ch[i].type = "DATA" /\ ch[j].type = "DATA"
      => ch[i].nth < ch[j].nth + (MAX_WINDOW_SIZE + slack)

\* No segment under way is more than a window, and slack, behind what the
\* receiver has written or stored.
WithinReach(ch, slack) ==
  \A j \in DOMAIN ch : ch[j].type = "DATA" =>
    /\ Len(writeFile) <= ch[j].nth + (MAX_WINDOW_SIZE + slack)
    /\ \A i \in Slots : binaryReceivingBuf[i] = 1 =>
         Len(writeFile) + i < ch[j].nth + (MAX_WINDOW_SIZE + slack)

\* How far an acknowledgement may lie behind one that was sent before it: an
\* ACK not at all and a NACK a window, without slack.
Lag(m, ackSlack, nackSlack) ==
  IF m.type = "ACK" THEN ackSlack ELSE MAX_WINDOW_SIZE + nackSlack

AcksOrdered(ch, ackSlack, nackSlack) ==
  \A i, j \in DOMAIN ch : i < j /\ ch[i].type = "ACK" =>
    ch[i].nth <= ch[j].nth + Lag(ch[j], ackSlack, nackSlack)

AcksBehind(ch, ackSlack, nackSlack) ==
  \A j \in DOMAIN ch :
    updateSendingTimeCount <= ch[j].nth + Lag(ch[j], ackSlack, nackSlack)

FwdLate == receiver # "crashed" =>
             Ordered(fwd, FwdSlack) /\ WithinReach(fwd, FwdSlack)
RevLate == /\ AcksOrdered(rev, RevSlack, AnySlack)
           /\ AcksBehind(rev, RevSlack, AnySlack)
LateInv == FwdLate /\ RevLate

\* There are numbers enough for all reorderings: two windows, and another one
\* for each.
Room == \/ "reorder" \notin FwdFaults \cup RevFaults
        \/ (MaxFaults + 2) * MAX_WINDOW_SIZE <= MAX_SEQNUM

\* The inductive invariant; LateInv implies Timely where there is Room.
IInv == TypeInv /\ ProtocolInv /\ LateInv
=============================================================================
