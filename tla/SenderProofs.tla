---------------------------- MODULE SenderProofs ----------------------------
(***************************************************************************)
(* What the two channels hold, and that the sender's steps preserve the    *)
(* invariant of TrtpInv.                                                   *)
(***************************************************************************)
EXTENDS TrtpTypes

-----------------------------------------------------------------------------
\* The elements of a tail, of a sum and of a sequence with one more element.
LEMMA TailElements ==
  ASSUME NEW S, NEW s \in Seq(S), s # <<>>
  PROVE  \A j \in DOMAIN Tail(s) :
           /\ j \in Nat /\ 1 <= j
           /\ j + 1 \in DOMAIN s /\ Tail(s)[j] = s[j + 1] /\ Tail(s)[j] \in S
  OBVIOUS

\* The elements of a sequence, of a concatenation and of an appended sequence.
LEMMA Elements ==
  ASSUME NEW S, NEW s \in Seq(S)
  PROVE  \A j \in DOMAIN s : j \in Nat /\ 1 <= j /\ j <= Len(s) /\ s[j] \in S
  OBVIOUS

LEMMA ConcatElements ==
  ASSUME NEW S, NEW s \in Seq(S), NEW t \in Seq(S)
  PROVE  \A j \in DOMAIN (s \o t) :
           \/ j \in DOMAIN s /\ (s \o t)[j] = s[j]
           \/ /\ j - Len(s) \in DOMAIN t /\ (s \o t)[j] = t[j - Len(s)]
              /\ j \notin DOMAIN s
  OBVIOUS

LEMMA AppendElements ==
  ASSUME NEW S, NEW s \in Seq(S), NEW x
  PROVE  /\ \A j \in DOMAIN Append(s, x) :
              \/ j \in DOMAIN s /\ Append(s, x)[j] = s[j]
              \/ j = Len(s) + 1 /\ Append(s, x)[j] = x
         /\ \A j \in DOMAIN s : j < Len(s) + 1
  OBVIOUS

\* The fields of a segment have their types.
LEMMA PacketFields ==
  ASSUME NEW m \in Packets
  PROVE  /\ m.nth \in Nat /\ m.seqnum \in Seqnums /\ m.type \in Types
         /\ m.payload \in Chunks \cup {NoPayload} /\ m.tr \in {0, 1}
         /\ m.window \in 0..MAX_WINDOW_SIZE
  BY DEF Packets

-----------------------------------------------------------------------------
\* The orders of the two channels outlive the removal of the head and the
\* addition of suitable segments.
LEMMA OrderedTail ==
  ASSUME NEW ch \in Seq(Packets), ch # <<>>, NEW slack, Ordered(ch, slack)
  PROVE  Ordered(Tail(ch), slack)
<1> SUFFICES ASSUME NEW i \in DOMAIN Tail(ch), NEW j \in DOMAIN Tail(ch),
                    i < j, Tail(ch)[i].type = "DATA", Tail(ch)[j].type = "DATA"
             PROVE  Tail(ch)[i].nth < Tail(ch)[j].nth + (MAX_WINDOW_SIZE + slack)
  BY DEF Ordered
<1>1. /\ i + 1 \in DOMAIN ch /\ j + 1 \in DOMAIN ch /\ i + 1 < j + 1
      /\ Tail(ch)[i] = ch[i + 1] /\ Tail(ch)[j] = ch[j + 1]
  BY TailElements
<1> QED BY <1>1 DEF Ordered

\* Delivery keeps the order of acknowledgements.
LEMMA AcksTail ==
  ASSUME NEW ch \in Seq(Packets), ch # <<>>, NEW s, NEW t, AcksOrdered(ch, s, t)
  PROVE  AcksOrdered(Tail(ch), s, t)
<1> SUFFICES ASSUME NEW i \in DOMAIN Tail(ch), NEW j \in DOMAIN Tail(ch),
                    i < j, Tail(ch)[i].type = "ACK"
             PROVE  Tail(ch)[i].nth <= Tail(ch)[j].nth + Lag(Tail(ch)[j], s, t)
  BY DEF AcksOrdered
<1>1. /\ i + 1 \in DOMAIN ch /\ j + 1 \in DOMAIN ch /\ i + 1 < j + 1
      /\ Tail(ch)[i] = ch[i + 1] /\ Tail(ch)[j] = ch[j + 1]
  BY TailElements
<1> QED BY <1>1 DEF AcksOrdered

\* Writing segments none of which is a window behind the channel keeps it ordered.
LEMMA OrderedConcat ==
  ASSUME NEW ch \in Seq(Packets), NEW msgs \in Seq(Packets),
         NEW slack, Ordered(ch, slack), Ordered(msgs, slack),
         \A i \in DOMAIN ch, j \in DOMAIN msgs :
           ch[i].type = "DATA" /\ msgs[j].type = "DATA"
             => ch[i].nth < msgs[j].nth + (MAX_WINDOW_SIZE + slack)
  PROVE  Ordered(ch \o msgs, slack)
<1> DEFINE new == ch \o msgs
<1> SUFFICES ASSUME NEW i \in DOMAIN new, NEW j \in DOMAIN new,
                    i < j, new[i].type = "DATA", new[j].type = "DATA"
             PROVE  new[i].nth < new[j].nth + (MAX_WINDOW_SIZE + slack)
  BY DEF Ordered
<1>1. \/ i \in DOMAIN ch /\ new[i] = ch[i]
      \/ /\ i - Len(ch) \in DOMAIN msgs /\ new[i] = msgs[i - Len(ch)]
         /\ i \notin DOMAIN ch
  BY ConcatElements
<1>2. \/ j \in DOMAIN ch /\ new[j] = ch[j]
      \/ /\ j - Len(ch) \in DOMAIN msgs /\ new[j] = msgs[j - Len(ch)]
         /\ j \notin DOMAIN ch
  BY ConcatElements
<1>3. /\ i \in Nat /\ 1 <= i /\ j \in Nat /\ Len(ch) \in Nat
      /\ DOMAIN ch = 1..Len(ch)
  OBVIOUS
<1> HIDE DEF new
<1>4. CASE j \in DOMAIN ch /\ new[j] = ch[j]
  <2>1. i \in DOMAIN ch
    BY <1>3, <1>4
  <2> QED BY <1>1, <1>4, <2>1 DEF Ordered
<1>5. CASE i \in DOMAIN ch /\ ~(j \in DOMAIN ch)
  BY <1>1, <1>2, <1>5
<1>6. CASE i \notin DOMAIN ch /\ j \notin DOMAIN ch
  <2>1. i - Len(ch) < j - Len(ch)
    BY <1>3
  <2> QED BY <1>1, <1>2, <1>6, <2>1 DEF Ordered
<1> QED BY <1>2, <1>4, <1>5, <1>6

\* An acknowledgement that is not too far behind those under way joins them.
LEMMA AcksAppend ==
  ASSUME NEW ch \in Seq(Packets), NEW m \in Packets, NEW s, NEW t,
         AcksOrdered(ch, s, t),
         \A i \in DOMAIN ch : ch[i].type = "ACK" => ch[i].nth <= m.nth + Lag(m, s, t)
  PROVE  AcksOrdered(Append(ch, m), s, t)
<1> DEFINE new == Append(ch, m)
<1> SUFFICES ASSUME NEW i \in DOMAIN new, NEW j \in DOMAIN new,
                    i < j, new[i].type = "ACK"
             PROVE  new[i].nth <= new[j].nth + Lag(new[j], s, t)
  BY DEF AcksOrdered
<1>1. /\ i \in DOMAIN ch /\ new[i] = ch[i]
      /\ \/ j \in DOMAIN ch /\ new[j] = ch[j]
         \/ new[j] = m
  <2>1. \/ i \in DOMAIN ch /\ new[i] = ch[i]
        \/ i = Len(ch) + 1 /\ new[i] = m
    BY AppendElements
  <2>2. \/ j \in DOMAIN ch /\ new[j] = ch[j]
        \/ j = Len(ch) + 1 /\ new[j] = m
    BY AppendElements
  <2>3. ~(i = Len(ch) + 1)
    <3>1. j <= Len(ch) + 1 /\ Len(ch) \in Nat /\ j \in Nat /\ i \in Nat
      BY AppendType, Elements
    <3> QED BY <3>1
  <2> QED BY <2>1, <2>2, <2>3
<1> HIDE DEF new
<1> QED BY <1>1 DEF AcksOrdered

-----------------------------------------------------------------------------
\* The counters are numbers, in the order CountInv gives them.
LEMMA Counters ==
  ASSUME TypeInv, CountInv
  PROVE  /\ updateSendingTimeCount \in Nat /\ sendPktCount \in Nat
         /\ sendBufCount \in Nat /\ Len(writeFile) \in Nat
         /\ updateSendingTimeCount <= Len(writeFile)
         /\ Len(writeFile) <= sendPktCount
         /\ sendPktCount = updateSendingTimeCount + sendBufCount
         /\ sendPktCount <= updateSendingTimeCount + MAX_WINDOW_SIZE
         /\ Len(writeFile) <= NChunks /\ sendPktCount <= NChunks + 1
         /\ NChunks \in Nat
  BY SizeFacts, ChunksAssumption
     DEF TypeInv, TypeOK, SenderTypeOK, ReceiverTypeOK, CountInv

\* Slack is a number of packets, and only faults change it.
LEMMA Slacks ==
  ASSUME TypeInv
  PROVE  /\ FwdSlack \in Nat /\ RevSlack \in Nat /\ AnySlack \in Nat
         /\ FwdSlack <= AnySlack /\ RevSlack <= AnySlack
<1>1. MAX_WINDOW_SIZE \in Nat /\ faults \in Nat
  BY SizeFacts DEF TypeInv, TypeOK, LinkTypeOK
<1>2. MAX_WINDOW_SIZE * faults \in Nat
  BY <1>1
<1> QED BY <1>2 DEF FwdSlack, RevSlack, AnySlack, Slack

LEMMA SlackFrame ==
  ASSUME UNCHANGED faults
  PROVE  UNCHANGED <<FwdSlack, RevSlack, AnySlack>>
  BY DEF FwdSlack, RevSlack, AnySlack, Slack

\* What a step keeps: ProtocolInv, and LateInv where it holds.
Kept == ProtocolInv' /\ (LateInv => LateInv')

\* The channels hold packets.
LEMMA Channels ==
  ASSUME TypeInv
  PROVE  fwd \in Seq(Packets) /\ rev \in Seq(Packets)
  BY DEF TypeInv, TypeOK, LinkTypeOK

\* The packet of a position carries it.
LEMMA PacketAtCarries ==
  ASSUME NEW k \in 0..NChunks
  PROVE  /\ Carries(PacketAt(k), k) /\ PacketAt(k) \in Packets
         /\ PacketAt(k).nth = k /\ PacketAt(k).type = "DATA"
         /\ PacketAt(k).seqnum = k % SeqSpace
<1>1. k \in Int /\ k \in Nat /\ (k # NChunks => k \in Chunks)
  BY ChunksAssumption DEF Chunks
<1>2. k % SeqSpace \in Seqnums
  BY <1>1, ModFacts
<1>3. PacketAt(k) \in Packets
  BY <1>1, <1>2, CreateType, SizeFacts DEF PacketAt
<1> QED BY <1>3 DEF PacketAt, Carries, create_packet_data,
                    create_packet_deco, create_packet

\* What a scan of the buffer resends.
LEMMA ScanSound ==
  ASSUME TypeInv, CountInv, BufInv, NEW slots, NEW msgs \in Scans(slots)
  PROVE  /\ msgs \in Seq(Packets)
         /\ \A j \in DOMAIN msgs :
              /\ Sound(msgs[j], sendPktCount)
              /\ msgs[j].type = "DATA" =>
                   sendPktCount <= msgs[j].nth + MAX_WINDOW_SIZE
         /\ \A slack \in Nat : Ordered(msgs, slack)
<1>1. sendingBuf \in [Slots -> Packets]
  BY DEF TypeInv, TypeOK, SenderTypeOK
<1>2. msgs \in Seq(Packets)
  BY <1>1, ScansType
<1>3. ASSUME NEW i \in Slots
      PROVE  /\ Sound(sendingBuf[i], sendPktCount)
             /\ sendingBuf[i].type = "DATA" =>
                  /\ sendPktCount <= sendingBuf[i].nth + MAX_WINDOW_SIZE
                  /\ sendingBuf[i].nth < sendPktCount
  <2>1. CASE sendingBuf[i] \in Blanks
    BY <2>1 DEF Blanks, BlankSlot, create_packet, Sound
  <2>2. CASE \E k \in 0..NChunks : /\ Recent(k, sendPktCount)
                                  /\ i = k % MAX_WINDOW_SIZE
                                  /\ sendingBuf[i] = PacketAt(k)
    BY <2>2, PacketAtCarries DEF Recent, Sound
  <2> QED BY <2>1, <2>2 DEF BufInv
<1>4. PICK n \in Nat : \E r \in [1..n -> Slots] :
        msgs = [j \in 1..n |-> sendingBuf[r[j]]]
  BY ScanOfSlots
<1>5. PICK r \in [1..n -> Slots] : msgs = [j \in 1..n |-> sendingBuf[r[j]]]
  BY <1>4
<1>6. ASSUME NEW j \in DOMAIN msgs
      PROVE  \E i \in Slots : msgs[j] = sendingBuf[i]
  BY <1>5, <1>6
<1>7. ASSUME NEW j \in DOMAIN msgs
      PROVE  /\ Sound(msgs[j], sendPktCount)
             /\ msgs[j].type = "DATA" =>
                  /\ sendPktCount <= msgs[j].nth + MAX_WINDOW_SIZE
                  /\ msgs[j].nth < sendPktCount
  BY <1>3, <1>6
<1>8. ASSUME NEW slack \in Nat PROVE Ordered(msgs, slack)
  <2> SUFFICES ASSUME NEW i \in DOMAIN msgs, NEW j \in DOMAIN msgs,
                      msgs[i].type = "DATA", msgs[j].type = "DATA"
               PROVE  msgs[i].nth < msgs[j].nth + (MAX_WINDOW_SIZE + slack)
    BY DEF Ordered
  <2>1. /\ msgs[i].nth \in Nat /\ msgs[j].nth \in Nat
        /\ sendPktCount \in Nat /\ MAX_WINDOW_SIZE \in Nat
    BY <1>2, Elements, PacketFields, Counters, SizeFacts
  <2>2. /\ msgs[i].nth < sendPktCount
        /\ sendPktCount <= msgs[j].nth + MAX_WINDOW_SIZE
    BY <1>7
  <2> QED BY <2>1, <2>2
<1> QED BY <1>2, <1>7, <1>8

\* Writing packets of the last window keeps what is said of the channel.
LEMMA FwdGrows ==
  ASSUME TypeInv, CountInv, StoreInv, FwdInv,
         NEW msgs \in Seq(Packets), \A slack \in Nat : Ordered(msgs, slack),
         NEW next \in Nat, sendPktCount <= next,
         \A j \in DOMAIN msgs :
           /\ Sound(msgs[j], next)
           /\ msgs[j].type = "DATA" =>
                sendPktCount <= msgs[j].nth + MAX_WINDOW_SIZE,
         fwd' = fwd \o msgs, sendPktCount' = next,
         UNCHANGED <<receiverVars, faults>>
  PROVE  FwdInv' /\ (FwdLate => FwdLate')
<1> DEFINE reach == MAX_WINDOW_SIZE + FwdSlack
<1>1. fwd \in Seq(Packets)
  BY Channels
<1>2. /\ sendPktCount \in Nat /\ MAX_WINDOW_SIZE \in Nat
      /\ Len(writeFile) \in Nat /\ Len(writeFile) <= sendPktCount
      /\ FwdSlack \in Nat /\ FwdSlack' = FwdSlack
      /\ reach \in Nat /\ MAX_WINDOW_SIZE <= reach
  <2>1. FwdSlack \in Nat /\ FwdSlack' = FwdSlack
    BY Slacks, SlackFrame
  <2> QED BY <2>1, Counters, SizeFacts
<1>3. \A j \in DOMAIN fwd : fwd[j].nth \in Nat
  BY <1>1, Elements, PacketFields
<1>4. \A j \in DOMAIN msgs : msgs[j].nth \in Nat
  BY Elements, PacketFields
<1>5. ASSUME NEW j \in DOMAIN fwd'
      PROVE  \/ j \in DOMAIN fwd /\ fwd'[j] = fwd[j]
             \/ \E i \in DOMAIN msgs : fwd'[j] = msgs[i]
  BY <1>1, ConcatElements
<1>6. ASSUME NEW j \in DOMAIN fwd'
      PROVE  Sound(fwd'[j], next)
  <2>1. ASSUME NEW m, m.nth \in Nat, Sound(m, sendPktCount)
        PROVE  Sound(m, next)
    BY <2>1, <1>2 DEF Sound
  <2>2. \A i \in DOMAIN fwd : Sound(fwd[i], sendPktCount)
    BY DEF FwdInv
  <2> QED BY <1>3, <1>5, <2>1, <2>2
<1>7. FwdInv'
  BY <1>6 DEF FwdInv
<1>8. ASSUME FwdLate, receiver # "crashed" PROVE Ordered(fwd', FwdSlack')
  <2>1. ASSUME NEW i \in DOMAIN fwd, NEW j \in DOMAIN msgs,
               fwd[i].type = "DATA", msgs[j].type = "DATA"
        PROVE  fwd[i].nth < msgs[j].nth + reach
    <3>1. fwd[i].nth < sendPktCount
      BY <2>1 DEF FwdInv, Sound
    <3>2. sendPktCount <= msgs[j].nth + MAX_WINDOW_SIZE
      BY <2>1
    <3> HIDE DEF reach
    <3> QED BY <3>1, <3>2, <1>2, <1>3, <1>4
  <2>2. Ordered(fwd, FwdSlack) /\ Ordered(msgs, FwdSlack)
    BY <1>2, <1>8 DEF FwdLate
  <2>3. Ordered(fwd \o msgs, FwdSlack)
    BY <1>1, <2>1, <2>2, OrderedConcat
  <2> QED BY <1>2, <2>3
<1>9. ASSUME FwdLate, receiver # "crashed" PROVE WithinReach(fwd, FwdSlack)'
  <2> SUFFICES ASSUME NEW j \in DOMAIN fwd', fwd'[j].type = "DATA"
               PROVE  /\ Len(writeFile) <= fwd'[j].nth + reach
                      /\ \A i \in Slots : binaryReceivingBuf[i] = 1 =>
                           Len(writeFile) + i < fwd'[j].nth + reach
    BY <1>2 DEF WithinReach, receiverVars, storeVars
  <2>1. CASE j \in DOMAIN fwd /\ fwd'[j] = fwd[j]
    BY <1>9, <2>1 DEF FwdLate, WithinReach
  <2>2. ASSUME NEW i \in DOMAIN msgs, fwd'[j] = msgs[i]
        PROVE  /\ Len(writeFile) <= fwd'[j].nth + reach
               /\ \A x \in Slots : binaryReceivingBuf[x] = 1 =>
                    Len(writeFile) + x < fwd'[j].nth + reach
    <3> DEFINE nth == fwd'[j].nth
    <3>1. sendPktCount <= nth + MAX_WINDOW_SIZE /\ nth \in Nat
      BY <2>2, <1>4
    <3> HIDE DEF nth, reach
    <3>2. ASSUME NEW x \in Slots, binaryReceivingBuf[x] = 1
          PROVE  Len(writeFile) + x < sendPktCount /\ x \in Nat
      BY <1>9, <3>2, SlotBounds DEF StoreInv
    <3>3. ASSUME NEW x \in Slots, binaryReceivingBuf[x] = 1
          PROVE  Len(writeFile) + x < nth + reach
      <4>1. Len(writeFile) + x < sendPktCount /\ x \in Nat
        BY <3>2, <3>3
      <4> QED BY <1>2, <3>1, <4>1
    <3>4. Len(writeFile) <= nth + reach
      BY <1>2, <3>1
    <3> QED BY <3>3, <3>4 DEF nth
  <2> HIDE DEF reach
  <2> QED BY <1>5, <2>1, <2>2
<1>10. FwdLate => FwdLate'
  BY <1>8, <1>9 DEF FwdLate, Ordered, receiverVars
<1> QED BY <1>7, <1>10

-----------------------------------------------------------------------------
\* The next packet's position, when the window has room for it, shares its slot
\* with no other position of the window.
LEMMA SlotUnique ==
  ASSUME NEW k \in Int, NEW l \in Int,
         k < l + MAX_WINDOW_SIZE, l < k + MAX_WINDOW_SIZE,
         k % MAX_WINDOW_SIZE = l % MAX_WINDOW_SIZE
  PROVE  k = l
  BY SizeFacts, ModUnique

\* Timed sets the clocks of what was written and unsets none.
LEMMA TimedArmed ==
  ASSUME NEW time \in [Slots -> Nat], NEW written, NEW i \in Slots
  PROVE  Timed(time, written)[i] # NotArmed
           <=> time[i] # NotArmed \/ (written # {} /\ i \in written)
  BY DEF Timed, NotArmed

\* Resending changes no slot's being timed or not, and a new packet's slot
\* becomes timed.
LEMMA SendTime ==
  ASSUME TypeInv, CountInv, TimeInv, NEW expired, MayHaveExpired(expired),
         expired \subseteq Slots, sendBufCount < MAX_WINDOW_SIZE,
         sendingTime' = Timed(Timed(sendingTime, expired), {SlotOfNext}),
         sendPktCount' = sendPktCount + 1,
         updateSendingTimeCount' = updateSendingTimeCount
  PROVE  TimeInv'
<1>1. sendingTime \in [Slots -> Nat]
  BY DEF TypeInv, TypeOK, SenderTypeOK
<1>2. Timed(sendingTime, expired) \in [Slots -> Nat]
  BY <1>1, TimedType
<1>3. ASSUME NEW i \in Slots
      PROVE  sendingTime'[i] # NotArmed
               <=> sendingTime[i] # NotArmed \/ i = SlotOfNext
  BY <1>1, <1>2, TimedArmed DEF MayHaveExpired
<1> SUFFICES ASSUME NEW k \in updateSendingTimeCount
                          ..(updateSendingTimeCount + MAX_WINDOW_SIZE - 1)
             PROVE  sendingTime'[k % MAX_WINDOW_SIZE] # NotArmed
                      <=> k < sendPktCount + 1
  BY DEF TimeInv
<1>4. /\ k \in Int /\ sendPktCount \in Int /\ MAX_WINDOW_SIZE \in Nat
      /\ k < sendPktCount + MAX_WINDOW_SIZE
      /\ sendPktCount < k + MAX_WINDOW_SIZE
  <2>1. /\ updateSendingTimeCount \in Nat /\ sendBufCount \in Nat
        /\ sendPktCount = updateSendingTimeCount + sendBufCount
    BY Counters
  <2>2. MAX_WINDOW_SIZE \in Nat
    BY SizeFacts
  <2>3. /\ k \in Int /\ updateSendingTimeCount <= k
        /\ k <= updateSendingTimeCount + MAX_WINDOW_SIZE - 1
    BY <2>1, <2>2
  <2> QED BY <2>1, <2>2, <2>3
<1>5. k % MAX_WINDOW_SIZE \in Slots
  BY <1>4, ModFacts
<1>6. k % MAX_WINDOW_SIZE = SlotOfNext <=> k = sendPktCount
  BY <1>4, SlotUnique DEF SlotOfNext
<1>7. sendingTime[k % MAX_WINDOW_SIZE] # NotArmed <=> k < sendPktCount
  BY DEF TimeInv
<1>8. k < sendPktCount + 1 <=> k < sendPktCount \/ k = sendPktCount
  BY <1>4
<1> QED BY <1>3, <1>5, <1>6, <1>7, <1>8

\* Resending expired packets leaves the packets in flight timed.
LEMMA ResendTime ==
  ASSUME TypeInv, TimeInv, NEW expired, MayHaveExpired(expired),
         sendingTime' = Timed(sendingTime, expired),
         sendPktCount' = sendPktCount,
         updateSendingTimeCount' = updateSendingTimeCount
  PROVE  TimeInv'
<1>1. sendingTime \in [Slots -> Nat]
  BY DEF TypeInv, TypeOK, SenderTypeOK
<1>2. ASSUME NEW i \in Slots
      PROVE  sendingTime'[i] # NotArmed <=> sendingTime[i] # NotArmed
  BY <1>1, TimedArmed DEF MayHaveExpired
<1>3. \A k \in updateSendingTimeCount
              ..(updateSendingTimeCount + MAX_WINDOW_SIZE - 1) :
        k % MAX_WINDOW_SIZE \in Slots
  <2>1. \A k \in updateSendingTimeCount
              ..(updateSendingTimeCount + MAX_WINDOW_SIZE - 1) : k \in Int
    OBVIOUS
  <2> QED BY <2>1, ModFacts
<1> QED BY <1>2, <1>3 DEF TimeInv

\* The new packet takes the slot of the one a window before it.
LEMMA SendBuf ==
  ASSUME TypeInv, CountInv, BufInv, sendPktCount \in 0..NChunks,
         sendingBuf' = [sendingBuf EXCEPT ![SlotOfNext] = PacketAt(sendPktCount)],
         sendPktCount' = sendPktCount + 1
  PROVE  BufInv'
<1>1. /\ sendPktCount \in Int /\ MAX_WINDOW_SIZE \in Nat \ {0}
      /\ sendingBuf \in [Slots -> Packets]
  BY Counters, SizeFacts DEF TypeInv, TypeOK, SenderTypeOK
<1>2. SlotOfNext \in Slots
  BY <1>1, ModFacts DEF SlotOfNext
<1>3. Recent(sendPktCount, sendPktCount + 1)
  BY <1>1 DEF Recent
<1>4. ASSUME NEW k \in 0..NChunks, Recent(k, sendPktCount + 1), k # sendPktCount
      PROVE  /\ Recent(k, sendPktCount)
             /\ k % MAX_WINDOW_SIZE \in Slots
             /\ k % MAX_WINDOW_SIZE # SlotOfNext
  <2>1. k \in Int /\ k < sendPktCount /\ sendPktCount < k + MAX_WINDOW_SIZE
    BY <1>1, <1>4 DEF Recent
  <2>2. k < sendPktCount + MAX_WINDOW_SIZE
    BY <1>1, <2>1
  <2>3. k % MAX_WINDOW_SIZE # SlotOfNext
    BY <1>1, <1>4, <2>1, <2>2, SlotUnique DEF SlotOfNext
  <2>4. Recent(k, sendPktCount)
    BY <1>1, <2>1 DEF Recent
  <2>5. k % MAX_WINDOW_SIZE \in Slots
    BY <2>1, ModFacts
  <2> QED BY <2>3, <2>4, <2>5
<1>5. ASSUME NEW k \in 0..NChunks, Recent(k, sendPktCount),
             k % MAX_WINDOW_SIZE # SlotOfNext
      PROVE  Recent(k, sendPktCount + 1)
  <2>1. k \in Int /\ k < sendPktCount /\ sendPktCount <= k + MAX_WINDOW_SIZE
    BY <1>5 DEF Recent
  <2>2. CASE sendPktCount = k + MAX_WINDOW_SIZE
    BY <1>1, <1>5, <2>1, <2>2, ModTurn DEF SlotOfNext
  <2>3. CASE sendPktCount # k + MAX_WINDOW_SIZE
    BY <1>1, <2>1, <2>3 DEF Recent
  <2> QED BY <2>2, <2>3
<1>6. ASSUME NEW i \in Slots
      PROVE  \/ sendingBuf'[i] \in Blanks
             \/ \E k \in 0..NChunks : /\ Recent(k, sendPktCount + 1)
                                    /\ i = k % MAX_WINDOW_SIZE
                                    /\ sendingBuf'[i] = PacketAt(k)
  <2>1. CASE i = SlotOfNext
    <3>1. sendingBuf'[i] = PacketAt(sendPktCount)
      BY <1>1, <2>1
    <3> QED BY <1>3, <2>1, <3>1 DEF SlotOfNext
  <2>2. CASE i # SlotOfNext
    <3>1. sendingBuf'[i] = sendingBuf[i]
      BY <1>1, <2>2
    <3>2. \/ sendingBuf[i] \in Blanks
          \/ \E k \in 0..NChunks : /\ Recent(k, sendPktCount)
                                 /\ i = k % MAX_WINDOW_SIZE
                                 /\ sendingBuf[i] = PacketAt(k)
      BY DEF BufInv
    <3> QED BY <1>5, <2>2, <3>1, <3>2
  <2> QED BY <2>1, <2>2
<1>7. ASSUME NEW k \in 0..NChunks, Recent(k, sendPktCount + 1)
      PROVE  sendingBuf'[k % MAX_WINDOW_SIZE] = PacketAt(k)
  <2>1. CASE k = sendPktCount
    BY <1>1, <1>2, <2>1 DEF SlotOfNext
  <2>2. CASE k # sendPktCount
    BY <1>1, <1>4, <1>7, <2>2 DEF BufInv
  <2> QED BY <2>1, <2>2
<1> QED BY <1>6, <1>7 DEF BufInv

-----------------------------------------------------------------------------
\* What a step of the sender leaves true of the receiver.
LEMMA SenderFrame ==
  ASSUME TypeInv, ProtocolInv, UNCHANGED receiverVars, sendPktCount' \in Nat,
         sendPktCount <= sendPktCount'
  PROVE  InOrder' /\ StoreInv'
<1>1. InOrder'
  BY DEF ProtocolInv, InOrder, receiverVars, storeVars
<1>2. StoreInv'
  <2>1. ASSUME NEW i \in Slots, Len(writeFile) + i < sendPktCount
        PROVE  Len(writeFile) + i < sendPktCount'
    <3>1. sendPktCount \in Nat /\ Len(writeFile) \in Nat /\ i \in Int
      BY Counters, SlotBounds DEF ProtocolInv
    <3> QED BY <2>1, <3>1
  <2> QED BY <2>1 DEF ProtocolInv, StoreInv, receiverVars, storeVars
<1> QED BY <1>1, <1>2

\* What is said of the acknowledgements under way survives their being read,
\* and more packets having been sent or chunks written.
LEMMA RevFrame ==
  ASSUME TypeInv, ProtocolInv,
         rev' = rev \/ (rev # <<>> /\ rev' = Tail(rev)),
         sendPktCount' \in Nat, sendPktCount <= sendPktCount',
         Len(writeFile') \in Nat, Len(writeFile) <= Len(writeFile'),
         updateSendingTimeCount' = updateSendingTimeCount, faults' = faults
  PROVE  RevInv' /\ (RevLate => RevLate')
<1>1. /\ rev \in Seq(Packets) /\ sendPktCount \in Nat
      /\ Len(writeFile) \in Nat
      /\ RevSlack' = RevSlack /\ AnySlack' = AnySlack
  BY Channels, Counters, SlackFrame DEF ProtocolInv
<1>2. ASSUME NEW m \in Packets,
             AckAt(m, Len(writeFile)) \/ NackAt(m, sendPktCount)
      PROVE  AckAt(m, Len(writeFile')) \/ NackAt(m, sendPktCount')
  <2>1. m.nth \in Nat
    BY PacketFields
  <2>2. m.nth < sendPktCount => m.nth < sendPktCount'
    BY <1>1, <2>1
  <2>3. m.nth <= Len(writeFile) => m.nth <= Len(writeFile')
    BY <1>1, <2>1
  <2> QED BY <1>2, <2>2, <2>3 DEF AckAt, NackAt
<1>3. ASSUME NEW j \in DOMAIN rev'
      PROVE  \E i \in DOMAIN rev : rev'[j] = rev[i] /\ rev[i] \in Packets
  BY <1>1, Elements, TailElements
<1>4. RevInv'
  BY <1>2, <1>3 DEF ProtocolInv, RevInv
<1>5. ASSUME RevLate PROVE RevLate'
  <2>1. AcksOrdered(rev', RevSlack, AnySlack)
    BY <1>1, <1>5, AcksTail DEF RevLate
  <2>2. AcksBehind(rev, RevSlack, AnySlack)'
    BY <1>1, <1>3, <1>5 DEF RevLate, AcksBehind
  <2> QED BY <1>1, <2>1, <2>2 DEF RevLate, AcksOrdered, AcksBehind
<1> QED BY <1>4, <1>5

\* Nothing said of the start changes while no chunk is written and credit is
\* only turned into packets.
LEMMA StartFrame ==
  ASSUME TypeInv, ProtocolInv,
         rev' = rev \/ (rev # <<>> /\ rev' = Tail(rev)),
         Len(writeFile') \in Nat, Len(writeFile) <= Len(writeFile'),
         sendPktCount' + receivingAvaiableSlotCount'
           = sendPktCount + receivingAvaiableSlotCount
  PROVE  StartInv'
<1>1. rev \in Seq(Packets) /\ Len(writeFile) \in Nat
  BY Channels, Counters DEF ProtocolInv
<1>2. ASSUME NEW j \in DOMAIN rev'
      PROVE  \E i \in DOMAIN rev : rev'[j] = rev[i]
  BY <1>1, Elements, TailElements
<1>3. Len(writeFile') = 0 => Len(writeFile) = 0
  BY <1>1
<1> QED BY <1>2, <1>3 DEF ProtocolInv, StartInv

\* The credit of a packet: the disconnection request goes only after the last
\* chunk was acknowledged, because the number it waits for stands for no packet
\* that an acknowledgement can still have named.
LEMMA DecoAfterAll ==
  ASSUME TypeInv, ProtocolInv, sendPktCount = NChunks, MayDisconnect
  PROVE  Len(writeFile) = NChunks
<1>1. /\ sendPktCount \in Int /\ SeqSpace \in Nat \ {0}
      /\ 2 * MAX_WINDOW_SIZE < SeqSpace /\ MAX_WINDOW_SIZE \in Nat
      /\ updateSendingTimeCount \in Int /\ Len(writeFile) \in Int
      /\ updateSendingTimeCount <= Len(writeFile)
      /\ Len(writeFile) <= sendPktCount
      /\ sendPktCount <= updateSendingTimeCount + MAX_WINDOW_SIZE
  BY Counters, SizeFacts DEF ProtocolInv
<1>2. lastAckSeqnum = sendPktCount % SeqSpace /\ lastAckSeqnum # -1
  BY <1>1, DivMod DEF MayDisconnect, SeqnumOfNext
<1>3. CASE lastAckSeqnum = updateSendingTimeCount % SeqSpace
  <2>1. /\ sendPktCount < updateSendingTimeCount + SeqSpace
        /\ updateSendingTimeCount < sendPktCount + SeqSpace
    BY <1>1
  <2>2. sendPktCount = updateSendingTimeCount
    BY <1>1, <1>2, <1>3, <2>1, ModUnique
  <2> QED BY <1>1, <2>2
<1>4. ASSUME NEW k \in 0..NChunks, k < sendPktCount,
             updateSendingTimeCount + MAX_WINDOW_SIZE < k + SeqSpace,
             lastAckSeqnum = k % SeqSpace
      PROVE  FALSE
  <2>1. k \in Int /\ sendPktCount < k + SeqSpace /\ k < sendPktCount + SeqSpace
    BY <1>1, <1>4
  <2>2. sendPktCount = k
    BY <1>1, <1>2, <1>4, <2>1, ModUnique
  <2> QED BY <1>4, <2>1, <2>2
<1> QED BY <1>2, <1>3, <1>4 DEF ProtocolInv, LastAckInv

-----------------------------------------------------------------------------
\* The input branch.
LEMMA SendNewKeeps ==
  ASSUME TypeInv, ProtocolInv, NEW expired \in SUBSET Slots,
         NEW resent \in Scans(expired), MayHaveExpired(expired), MayRead,
         sender = "running", sendPktCount \in 0..NChunks,
         SendNew(PacketAt(sendPktCount), expired, resent),
         sender' = IF sendPktCount = NChunks THEN "disconnected" ELSE "running",
         sendPktCount = NChunks => Len(writeFile) = NChunks,
         UNCHANGED <<lastAckSeqnum, updateSendingTimeCount, sendingWindow,
                     rev, faults, receiverVars>>
  PROVE  Kept
<1>1. /\ sendPktCount \in Nat /\ sendPktCount' = sendPktCount + 1
      /\ sendBufCount \in Nat /\ sendBufCount' = sendBufCount + 1
      /\ sendBufCount < MAX_WINDOW_SIZE /\ MAX_WINDOW_SIZE \in Nat
      /\ updateSendingTimeCount \in Nat /\ NChunks \in Nat
      /\ sendPktCount = updateSendingTimeCount + sendBufCount
      /\ Len(writeFile) \in Nat /\ Len(writeFile) <= sendPktCount
      /\ writeFile' = writeFile /\ receiver' = receiver
      /\ receivingAvaiableSlotCount' = receivingAvaiableSlotCount - 1
      /\ receivingAvaiableSlotCount \in Nat
  BY Counters, SizeFacts
     DEF SendNew, MayRead, ProtocolInv, receiverVars, storeVars, TypeInv,
         TypeOK, SenderTypeOK
<1>2. InOrder' /\ StoreInv'
  BY <1>1, SenderFrame
<1>3. CountInv'
  BY <1>1 DEF ProtocolInv, CountInv
<1>4. StartInv'
  BY <1>1, StartFrame
<1>5. WindowInv'
  BY DEF ProtocolInv, WindowInv
<1>6. TimeInv'
  BY <1>1, SendTime DEF ProtocolInv, SendNew
<1>7. BufInv'
  BY <1>1, SendBuf DEF ProtocolInv, SendNew
<1>8. LastAckInv'
  <2>1. \A k \in 0..NChunks : k < sendPktCount => k < sendPktCount'
    BY <1>1
  <2> QED BY <2>1 DEF ProtocolInv, LastAckInv
<1>9. FwdInv' /\ (FwdLate => FwdLate')
  <2> DEFINE packet == PacketAt(sendPktCount)
             msgs   == Append(resent, packet)
  <2>1. /\ packet \in Packets /\ Carries(packet, sendPktCount)
        /\ packet.nth = sendPktCount /\ packet.type = "DATA"
    BY PacketAtCarries
  <2>2. /\ resent \in Seq(Packets) /\ \A slack \in Nat : Ordered(resent, slack)
        /\ \A j \in DOMAIN resent :
             /\ Sound(resent[j], sendPktCount)
             /\ resent[j].type = "DATA" =>
                  sendPktCount <= resent[j].nth + MAX_WINDOW_SIZE
    BY ScanSound DEF ProtocolInv
  <2> HIDE DEF packet
  <2>3. msgs \in Seq(Packets)
    BY <2>1, <2>2, AppendType
  <2>4. ASSUME NEW m \in Packets, Sound(m, sendPktCount)
        PROVE  Sound(m, sendPktCount')
    BY <1>1, <2>4, PacketFields DEF Sound
  <2>5. Sound(packet, sendPktCount') /\ sendPktCount <= packet.nth + MAX_WINDOW_SIZE
    BY <1>1, <2>1 DEF Sound
  <2>6. ASSUME NEW j \in DOMAIN msgs
        PROVE  /\ Sound(msgs[j], sendPktCount')
               /\ msgs[j].type = "DATA" =>
                    sendPktCount <= msgs[j].nth + MAX_WINDOW_SIZE
    <3>1. \/ j \in DOMAIN resent /\ msgs[j] = resent[j]
          \/ msgs[j] = packet
      BY <2>2, AppendElements
    <3>2. CASE j \in DOMAIN resent /\ msgs[j] = resent[j]
      BY <2>2, <2>4, <3>2, Elements
    <3> QED BY <2>5, <3>1, <3>2
  <2>7. ASSUME NEW slack \in Nat PROVE Ordered(msgs, slack)
    <3> SUFFICES ASSUME NEW i \in DOMAIN msgs, NEW j \in DOMAIN msgs, i < j,
                        msgs[i].type = "DATA", msgs[j].type = "DATA"
                 PROVE  msgs[i].nth < msgs[j].nth + (MAX_WINDOW_SIZE + slack)
      BY DEF Ordered
    <3>1. i \in DOMAIN resent /\ msgs[i] = resent[i]
      <4>1. j <= Len(resent) + 1 /\ Len(resent) \in Nat /\ i \in Nat /\ j \in Nat
        BY <2>1, <2>2, AppendType, Elements
      <4>2. i # Len(resent) + 1
        BY <4>1
      <4> QED BY <2>2, <4>2, AppendElements
    <3>2. \/ j \in DOMAIN resent /\ msgs[j] = resent[j]
          \/ msgs[j] = packet
      BY <2>2, AppendElements
    <3>3. CASE j \in DOMAIN resent /\ msgs[j] = resent[j]
      BY <2>2, <3>1, <3>3 DEF Ordered
    <3>4. CASE msgs[j] = packet
      <4>1. msgs[i].nth < sendPktCount /\ msgs[i].nth \in Nat
        BY <2>2, <3>1, Elements, PacketFields DEF Sound
      <4>2. 0 < MAX_WINDOW_SIZE + slack
        BY SizeFacts
      <4> QED BY <1>1, <2>1, <3>4, <4>1, <4>2
    <3> QED BY <3>2, <3>3, <3>4
  <2>8. fwd' = fwd \o msgs
    BY DEF SendNew, SendFwd, packet
  <2>9. /\ sendPktCount' \in Nat /\ sendPktCount <= sendPktCount'
        /\ UNCHANGED <<receiverVars, faults>>
    BY <1>1
  <2> HIDE DEF msgs
  <2> QED BY <2>3, <2>6, <2>7, <2>8, <2>9, FwdGrows DEF ProtocolInv
<1>10. RevInv' /\ (RevLate => RevLate')
  BY <1>1, RevFrame
<1> QED BY <1>2, <1>3, <1>4, <1>5, <1>6, <1>7, <1>8, <1>9, <1>10
        DEF Kept, ProtocolInv, LateInv

\* A turn of the input branch keeps the invariant.
LEMMA PollKeeps ==
  ASSUME TypeInv, ProtocolInv, NEW expired \in SUBSET Slots,
         PollInput(expired), UNCHANGED receiverVars
  PROVE  Kept
<1>1. PICK resent \in Scans(expired) :
        \/ SendData(expired, resent)
        \/ SendDeco(expired, resent)
        \/ SendNothingNew(expired, resent)
  BY DEF PollInput
<1>2. /\ MayHaveExpired(expired) /\ sender = "running"
      /\ UNCHANGED <<lastAckSeqnum, updateSendingTimeCount, sendingWindow,
                     rev, faults, receiverVars>>
  BY DEF PollInput
<1>3. sendPktCount \in Nat /\ NChunks \in Nat /\ Len(writeFile) \in Nat
  BY Counters DEF ProtocolInv
<1>4. CASE SendData(expired, resent)
  <2>1. sendPktCount < NChunks /\ sendPktCount \in 0..NChunks /\ MayRead
    BY <1>3, <1>4 DEF SendData
  <2>2. SendNew(PacketAt(sendPktCount), expired, resent) /\ sender' = "running"
    BY <1>2, <1>4, <2>1, <1>3 DEF SendData, PacketAt, SeqnumOfNext
  <2> QED BY <1>2, <1>3, <2>1, <2>2, SendNewKeeps
<1>5. CASE SendDeco(expired, resent)
  <2>1. sendPktCount = NChunks /\ sendPktCount \in 0..NChunks /\ MayRead
    BY <1>3, <1>5 DEF SendDeco
  <2>2. SendNew(PacketAt(sendPktCount), expired, resent) /\ sender' = "disconnected"
    BY <1>5, <2>1 DEF SendDeco, PacketAt, SeqnumOfNext
  <2>3. Len(writeFile) = NChunks
    BY <1>5, <2>1, DecoAfterAll DEF SendDeco
  <2> QED BY <1>2, <2>1, <2>2, <2>3, SendNewKeeps
<1>6. CASE SendNothingNew(expired, resent)
  <2>1. /\ UNCHANGED <<sender, sendingBuf, sendBufCount, sendPktCount,
                       receivingAvaiableSlotCount>>
        /\ sendingTime' = Timed(sendingTime, expired)
        /\ fwd' = fwd \o resent
        /\ writeFile' = writeFile /\ receiver' = receiver
        /\ sendPktCount' \in Nat /\ sendPktCount <= sendPktCount'
    BY <1>2, <1>3, <1>6
       DEF SendNothingNew, SendFwd, receiverVars, storeVars
  <2>2. InOrder' /\ StoreInv'
    BY <1>2, <2>1, SenderFrame
  <2>3. CountInv' /\ WindowInv' /\ BufInv' /\ LastAckInv'
    BY <1>2, <2>1 DEF ProtocolInv, CountInv, WindowInv, BufInv, LastAckInv
  <2>4. StartInv' /\ RevInv' /\ (RevLate => RevLate')
    BY <1>2, <1>3, <2>1, StartFrame, RevFrame
  <2>5. TimeInv'
    BY <1>2, <2>1, ResendTime DEF ProtocolInv
  <2>6. FwdInv' /\ (FwdLate => FwdLate')
    <3>1. /\ resent \in Seq(Packets) /\ \A slack \in Nat : Ordered(resent, slack)
          /\ \A j \in DOMAIN resent :
               /\ Sound(resent[j], sendPktCount)
               /\ resent[j].type = "DATA" =>
                    sendPktCount <= resent[j].nth + MAX_WINDOW_SIZE
      BY ScanSound DEF ProtocolInv
    <3>2. sendPktCount' = sendPktCount
      BY <2>1
    <3> QED BY <1>2, <1>3, <2>1, <3>1, <3>2, FwdGrows DEF ProtocolInv
  <2> QED BY <2>2, <2>3, <2>4, <2>5, <2>6 DEF Kept, ProtocolInv, LateInv
<1> QED BY <1>1, <1>4, <1>5, <1>6

-----------------------------------------------------------------------------
\* The socket branch.  An ACK names a position of the stream: the loop that
\* slides the window then counts exactly up to it, and never runs away.
LEMMA AckedCountIs ==
  ASSUME TypeInv, ProtocolInv, NEW k \in Nat,
         updateSendingTimeCount <= k, k <= Len(writeFile)
  PROVE  AckedCount(k % SeqSpace) = k - updateSendingTimeCount
<1> DEFINE b == updateSendingTimeCount
           index == find_pkt(k % SeqSpace, sendingWindow)
<1>1. /\ b \in Nat /\ MAX_WINDOW_SIZE \in Nat \ {0} /\ SeqSpace \in Nat \ {0}
      /\ 2 * MAX_WINDOW_SIZE < SeqSpace /\ sendPktCount \in Nat
      /\ Len(writeFile) \in Nat /\ Len(writeFile) <= sendPktCount
      /\ sendPktCount <= b + MAX_WINDOW_SIZE
  BY Counters, SizeFacts DEF ProtocolInv
<1>2. b + MAX_WINDOW_SIZE <= k + SeqSpace /\ k < b + SeqSpace /\ b <= k
      /\ k <= b + MAX_WINDOW_SIZE
  BY <1>1
<1>3. \A i \in Slots : sendingWindow[i] = (b + i) % SeqSpace
  BY DEF ProtocolInv, WindowInv
<1>4. index = IF b <= k /\ k < b + MAX_WINDOW_SIZE THEN k - b ELSE -1
  BY <1>1, <1>2, <1>3, FindPkt
<1>5. AckedCount(k % SeqSpace)
        = IF index = -1 /\ k % SeqSpace = SeqnumOfNext THEN MAX_WINDOW_SIZE
          ELSE index
  BY DEF AckedCount
<1> HIDE DEF index
<1>6. CASE k < b + MAX_WINDOW_SIZE
  <2>1. index = k - b /\ index # -1
    BY <1>1, <1>2, <1>4, <1>6
  <2> QED BY <1>5, <2>1
<1>7. CASE ~(k < b + MAX_WINDOW_SIZE)
  <2>1. k = sendPktCount /\ MAX_WINDOW_SIZE = k - b
    BY <1>1, <1>2, <1>7
  <2>2. index = -1 /\ k % SeqSpace = SeqnumOfNext
    BY <1>4, <1>7, <2>1 DEF SeqnumOfNext
  <2> QED BY <1>5, <2>1, <2>2
<1> QED BY <1>6, <1>7

\* The number of an older position is not in the window, nor is it that of
\* the next packet, as long as it has not come round.
LEMMA AckedCountStale ==
  ASSUME TypeInv, ProtocolInv, NEW k \in Nat, k < updateSendingTimeCount,
         updateSendingTimeCount + MAX_WINDOW_SIZE < k + SeqSpace
  PROVE  AckedCount(k % SeqSpace) = -1
<1> DEFINE b == updateSendingTimeCount
           index == find_pkt(k % SeqSpace, sendingWindow)
<1>1. /\ b \in Nat /\ MAX_WINDOW_SIZE \in Nat \ {0} /\ SeqSpace \in Nat \ {0}
      /\ sendPktCount \in Nat /\ b <= sendPktCount
      /\ sendPktCount <= b + MAX_WINDOW_SIZE
  BY Counters, SizeFacts DEF ProtocolInv
<1>2. b + MAX_WINDOW_SIZE <= k + SeqSpace /\ k < b + SeqSpace /\ ~(b <= k)
  BY <1>1
<1>3. \A i \in Slots : sendingWindow[i] = (b + i) % SeqSpace
  BY DEF ProtocolInv, WindowInv
<1>4. index = IF b <= k /\ k < b + MAX_WINDOW_SIZE THEN k - b ELSE -1
  BY <1>1, <1>2, <1>3, FindPkt
<1>5. ASSUME k % SeqSpace = SeqnumOfNext PROVE FALSE
  <2>1. /\ k < sendPktCount /\ sendPktCount < k + SeqSpace
        /\ k < sendPktCount + SeqSpace /\ sendPktCount \in Int /\ k \in Int
    BY <1>1
  <2>2. k % SeqSpace = sendPktCount % SeqSpace
    BY <1>5 DEF SeqnumOfNext
  <2>3. k = sendPktCount
    BY <1>1, <2>1, <2>2, ModUnique
  <2> QED BY <2>1, <2>3
<1> QED BY <1>2, <1>4, <1>5 DEF AckedCount

\* Sliding up to position k frees the slots of the packets before it.
LEMMA SlideTime ==
  ASSUME TypeInv, ProtocolInv, NEW k \in Nat,
         updateSendingTimeCount <= k, k <= Len(writeFile),
         SlideSending(k - updateSendingTimeCount), sendPktCount' = sendPktCount
  PROVE  TimeInv' /\ WindowInv' /\ updateSendingTimeCount' = k
<1> DEFINE b == updateSendingTimeCount
           W == MAX_WINDOW_SIZE
<1>1. /\ b \in Nat /\ W \in Nat \ {0} /\ sendPktCount \in Nat
      /\ Len(writeFile) \in Nat /\ Len(writeFile) <= sendPktCount
      /\ sendPktCount <= b + W
  BY Counters, SizeFacts DEF ProtocolInv
<1>2. k - b \in Nat /\ b + (k - b) = k /\ k <= b + W
  BY <1>1
<1>3. updateSendingTimeCount' = k
  BY <1>2 DEF SlideSending
<1>4. WindowInv'
  <2>1. \A i \in Slots : sendingWindow[i] = (b + i) % SeqSpace
    BY DEF ProtocolInv, WindowInv
  <2>2. \A i \in Slots :
          window_slides(sendingWindow, k - b)[i] = ((b + (k - b)) + i) % SeqSpace
    BY <1>1, <1>2, <2>1, WindowSlidesShift
  <2>3. sendingWindow' = window_slides(sendingWindow, k - b)
    BY DEF SlideSending
  <2> QED BY <1>2, <1>3, <2>2, <2>3 DEF WindowInv
<1>5. TimeInv'
  <2> SUFFICES ASSUME NEW l \in k..(k + W - 1)
               PROVE  sendingTime'[l % W] # NotArmed <=> l < sendPktCount
    BY <1>3 DEF TimeInv
  <2>1. l \in Nat /\ k <= l /\ l < k + W
    BY <1>1
  <2>2. l % W \in Slots
    BY <2>1, ModFacts
  <2>3. sendingTime'[l % W] = IF l % W \in FreedSlots(k - b) THEN NotArmed
                              ELSE sendingTime[l % W]
    BY <2>2 DEF SlideSending
  <2>4. CASE l < b + W
    <3>1. ASSUME NEW j \in 0..(k - b - 1), l % W = (b + j) % W
          PROVE  FALSE
      <4>1. /\ b + j \in Int /\ b + j < k /\ l < (b + j) + W
            /\ b + j < l + W
        BY <1>1, <1>2, <2>1, <2>4
      <4>2. l = b + j
        BY <2>1, <3>1, <4>1, SlotUnique
      <4> QED BY <2>1, <4>1, <4>2
    <3>2. l % W \notin FreedSlots(k - b)
      BY <3>1 DEF FreedSlots
    <3>3. l \in b..(b + W - 1)
      BY <1>1, <2>1, <2>4
    <3> QED BY <2>3, <3>2, <3>3 DEF ProtocolInv, TimeInv
  <2>5. CASE ~(l < b + W)
    <3> DEFINE j == l - W - b
    <3>1. j \in 0..(k - b - 1) /\ (b + j) + W = l /\ b + j \in Int
      BY <1>1, <1>2, <2>1, <2>5
    <3>2. (b + j) % W = l % W
      BY <1>1, <3>1, ModTurn
    <3> HIDE DEF j
    <3>3. l % W \in FreedSlots(k - b)
      BY <3>1, <3>2 DEF FreedSlots
    <3>4. ~(l < sendPktCount)
      BY <1>1, <2>1, <2>5
    <3> QED BY <2>3, <3>3, <3>4
  <2> QED BY <2>4, <2>5
<1> QED BY <1>3, <1>4, <1>5

\* A step that changes no part of the receiver and sends nothing keeps what is
\* said of the channel to it.
LEMMA FwdFrame ==
  ASSUME ProtocolInv, UNCHANGED <<fwd, sendPktCount, receiverVars, faults>>
  PROVE  FwdInv' /\ (FwdLate => FwdLate')
  BY SlackFrame
     DEF ProtocolInv, FwdInv, FwdLate, Ordered, WithinReach, receiverVars, storeVars

\* Handling an ACK keeps it.  In the window, or naming the next packet, it
\* slides the window by what it acknowledges, and the loop ends.
LEMMA FreshAckKeeps ==
  ASSUME TypeInv, ProtocolInv, HandleAck, UNCHANGED receiverVars,
         updateSendingTimeCount <= Head(rev).nth
  PROVE  Kept /\ sender' = "running"
<1> DEFINE m == Head(rev)
           k == m.nth
           b == updateSendingTimeCount
<1>1. /\ rev # <<>> /\ rev' = Tail(rev) /\ sender = "running"
      /\ m.type = "ACK"
      /\ receivingAvaiableSlotCount' = m.window /\ lastAckSeqnum' = m.seqnum
      /\ UNCHANGED <<sendPktCount, sendingBuf, fwd, faults>>
  BY DEF HandleAck, ReadSocket
<1>2. rev \in Seq(Packets) /\ 1 \in DOMAIN rev /\ m = rev[1] /\ m \in Packets
  BY <1>1, Channels, HeadTail
<1>3. AckAt(m, Len(writeFile))
  BY <1>1, <1>2 DEF ProtocolInv, RevInv, NackAt
<1>4. /\ k \in Nat /\ 1 <= k /\ b <= k /\ k <= Len(writeFile)
      /\ m.seqnum = k % SeqSpace
  BY <1>2, <1>3, PacketFields DEF AckAt
<1>5. /\ b \in Nat /\ sendPktCount \in Nat /\ Len(writeFile) \in Nat
      /\ Len(writeFile) <= sendPktCount /\ sendPktCount <= b + MAX_WINDOW_SIZE
      /\ sendPktCount = b + sendBufCount /\ sendBufCount \in Nat
      /\ MAX_WINDOW_SIZE \in Nat
  BY Counters, SizeFacts DEF ProtocolInv
<1>6. AckedCount(m.seqnum) = k - b
  BY <1>4, AckedCountIs
<1> HIDE DEF m, k
<1>7. k - b # -1
  BY <1>4, <1>5
<1>8. SlideSending(k - b) /\ sender' = sender
  BY <1>6, <1>7 DEF HandleAck, m
<1>9. TimeInv' /\ WindowInv' /\ updateSendingTimeCount' = k
  BY <1>1, <1>4, <1>8, SlideTime
<1>10. UNCHANGED <<writeFile, receiver, sender>>
  BY <1>8 DEF receiverVars, storeVars
<1>11. CountInv'
  <2>1. sendBufCount' = sendPktCount - k /\ sendBufCount' \in 0..MAX_WINDOW_SIZE
    BY <1>4, <1>5, <1>8 DEF SlideSending
  <2>2. sendPktCount = k + sendBufCount'
    BY <1>4, <1>5, <2>1
  <2> QED BY <1>1, <1>4, <1>9, <1>10, <2>1, <2>2 DEF ProtocolInv, CountInv
<1>12. StartInv'
  BY <1>4, <1>5, <1>10 DEF StartInv
<1>13. BufInv' /\ LastAckInv'
  BY <1>1, <1>4, <1>9 DEF ProtocolInv, BufInv, LastAckInv
<1>14. InOrder' /\ StoreInv' /\ FwdInv' /\ (FwdLate => FwdLate')
  BY <1>1, <1>5, SenderFrame, FwdFrame
<1>15. ASSUME NEW j \in DOMAIN rev'
       PROVE  /\ j + 1 \in DOMAIN rev /\ rev'[j] = rev[j + 1] /\ 1 < j + 1
              /\ rev[j + 1] \in Packets
  BY <1>1, <1>2, TailElements, Elements
<1>16. RevInv'
  BY <1>1, <1>10, <1>15 DEF ProtocolInv, RevInv
<1>17. ASSUME RevLate PROVE RevLate'
  <2>1. RevSlack' = RevSlack /\ AnySlack' = AnySlack
    BY <1>1, SlackFrame
  <2>2. AcksOrdered(rev', RevSlack, AnySlack)
    BY <1>1, <1>2, <1>17, AcksTail DEF RevLate
  <2>3. ASSUME NEW j \in DOMAIN rev'
        PROVE  k <= rev'[j].nth + Lag(rev'[j], RevSlack, AnySlack)
    BY <1>1, <1>2, <1>15, <1>17 DEF RevLate, AcksOrdered, k
  <2> QED BY <1>9, <2>1, <2>2, <2>3 DEF RevLate, AcksOrdered, AcksBehind
<1> QED BY <1>1, <1>9, <1>10, <1>11, <1>12, <1>13, <1>14, <1>16, <1>17
        DEF Kept, ProtocolInv, LateInv

\* An older ACK, whose number has not come round, makes the loop run away and
\* nothing else.
LEMMA StaleAckKeeps ==
  ASSUME TypeInv, ProtocolInv, Timely, HandleAck, UNCHANGED receiverVars,
         Head(rev).nth < updateSendingTimeCount
  PROVE  Kept
<1> DEFINE m == Head(rev)
           k == m.nth
           b == updateSendingTimeCount
<1>1. /\ rev # <<>> /\ rev' = Tail(rev) /\ sender = "running"
      /\ m.type = "ACK" /\ lastAckSeqnum' = m.seqnum
      /\ UNCHANGED <<sendPktCount, sendingBuf, fwd, faults, writeFile, receiver>>
  BY DEF HandleAck, ReadSocket, receiverVars, storeVars
<1>2. rev \in Seq(Packets) /\ 1 \in DOMAIN rev /\ m = rev[1] /\ m \in Packets
  BY <1>1, Channels, HeadTail
<1>3. AckAt(m, Len(writeFile))
  BY <1>1, <1>2 DEF ProtocolInv, RevInv, NackAt
<1>4. /\ k \in Nat /\ 1 <= k /\ k <= Len(writeFile) /\ m.seqnum = k % SeqSpace
      /\ k < b /\ b + MAX_WINDOW_SIZE < k + SeqSpace
  BY <1>1, <1>2, <1>3, PacketFields DEF AckAt, Timely
<1>5. /\ b \in Nat /\ sendPktCount \in Nat /\ Len(writeFile) \in Nat
      /\ b <= sendPktCount /\ sendPktCount <= NChunks + 1 /\ NChunks \in Nat
      /\ MAX_WINDOW_SIZE \in Nat
  BY Counters, SizeFacts DEF ProtocolInv
<1>6. AckedCount(m.seqnum) = -1
  BY <1>4, AckedCountStale
<1> HIDE DEF m, k
<1>7. RunAway
  BY <1>5, <1>6 DEF HandleAck, m
<1>8. CountInv' /\ WindowInv' /\ BufInv' /\ TimeInv'
  BY <1>1, <1>7
     DEF RunAway, ProtocolInv, CountInv, WindowInv, BufInv, TimeInv
<1>9. LastAckInv'
  <2>1. k \in 0..NChunks /\ k < sendPktCount
    BY <1>4, <1>5
  <2> QED BY <1>1, <1>4, <1>7, <2>1 DEF LastAckInv, RunAway
<1>10. StartInv'
  BY <1>1, <1>4, <1>5 DEF StartInv
<1>11. InOrder' /\ StoreInv' /\ FwdInv' /\ (FwdLate => FwdLate')
  BY <1>1, <1>5, SenderFrame, FwdFrame
<1>12. RevInv' /\ (RevLate => RevLate')
  BY <1>1, <1>5, <1>7, RevFrame DEF RunAway
<1> QED BY <1>8, <1>9, <1>10, <1>11, <1>12 DEF Kept, ProtocolInv, LateInv

\* Handling a NACK keeps it: what is resent is less than a window old.
LEMMA HandleNackKeeps ==
  ASSUME TypeInv, ProtocolInv, Timely, HandleNack, UNCHANGED receiverVars
  PROVE  Kept
<1> DEFINE m == Head(rev)
           slots == {i \in Slots : sendingBuf[i].seqnum = m.seqnum}
<1>1. /\ rev # <<>> /\ rev' = Tail(rev) /\ sender = "running"
      /\ m.type = "NACK" /\ lastAckSeqnum' = m.seqnum
      /\ UNCHANGED <<sendPktCount, sendingBuf, sendBufCount, sendingWindow,
                     receivingAvaiableSlotCount, sendingTime,
                     updateSendingTimeCount>>
      /\ UNCHANGED <<writeFile, receiver, receiverVars, faults>>
  BY DEF HandleNack, ReadSocket, receiverVars, storeVars
<1>2. rev \in Seq(Packets) /\ 1 \in DOMAIN rev /\ m = rev[1] /\ m \in Packets
  BY <1>1, Channels, HeadTail
<1>3. NackAt(m, sendPktCount)
  BY <1>1, <1>2 DEF ProtocolInv, RevInv, AckAt
<1>4. /\ sendPktCount \in Nat /\ Len(writeFile) \in Nat /\ NChunks \in Nat
      /\ sendPktCount <= NChunks + 1
  BY Counters DEF ProtocolInv
<1>5. /\ \/ (\E msgs \in Scans(slots) : SendFwd(msgs)) /\ sender' = sender
         \/ sender' = "crashed" /\ fwd' = fwd
  BY DEF HandleNack
<1>6. CountInv' /\ WindowInv' /\ BufInv' /\ TimeInv'
  BY <1>1, <1>5
     DEF ProtocolInv, CountInv, WindowInv, BufInv, TimeInv
<1>7. LastAckInv'
  <2>1. /\ m.nth \in 0..NChunks /\ m.nth < sendPktCount
        /\ updateSendingTimeCount + MAX_WINDOW_SIZE < m.nth + SeqSpace
        /\ m.seqnum = m.nth % SeqSpace
    BY <1>1, <1>2, <1>3, <1>4, PacketFields DEF NackAt, Timely
  <2> QED BY <1>1, <2>1 DEF LastAckInv
<1>8. InOrder' /\ StoreInv' /\ StartInv' /\ RevInv' /\ (RevLate => RevLate')
  BY <1>1, <1>4, SenderFrame, StartFrame, RevFrame
<1>9. FwdInv' /\ (FwdLate => FwdLate')
  <2>1. ASSUME NEW msgs \in Scans(slots), SendFwd(msgs)
        PROVE  FwdInv' /\ (FwdLate => FwdLate')
    <3>1. /\ msgs \in Seq(Packets) /\ \A slack \in Nat : Ordered(msgs, slack)
          /\ \A j \in DOMAIN msgs :
               /\ Sound(msgs[j], sendPktCount)
               /\ msgs[j].type = "DATA" =>
                    sendPktCount <= msgs[j].nth + MAX_WINDOW_SIZE
      BY ScanSound DEF ProtocolInv
    <3>2. fwd' = fwd \o msgs
      BY <2>1 DEF SendFwd
    <3>3. sendPktCount' = sendPktCount /\ sendPktCount <= sendPktCount
      BY <1>1, <1>4
    <3> HIDE DEF slots
    <3> QED BY <1>1, <1>4, <3>1, <3>2, <3>3, FwdGrows DEF ProtocolInv
  <2>2. CASE fwd' = fwd
    BY <1>1, <2>2, FwdFrame
  <2> QED BY <1>5, <2>1, <2>2
<1> QED BY <1>6, <1>7, <1>8, <1>9 DEF Kept, ProtocolInv, LateInv

\* The socket branch keeps the invariant.
LEMMA SocketKeeps ==
  ASSUME TypeInv, ProtocolInv, Timely, UNCHANGED receiverVars,
         IgnoreAck \/ HandleAck \/ HandleNack \/ SenderTimeout \/ SenderRefused
  PROVE  Kept
<1>1. /\ UNCHANGED <<writeFile, receiver>>
      /\ Len(writeFile) \in Nat /\ sendPktCount \in Nat
  BY Counters DEF ProtocolInv, receiverVars, storeVars
<1>2. CASE IgnoreAck \/ SenderTimeout \/ SenderRefused
  <2>1. /\ rev' = rev \/ (rev # <<>> /\ rev' = Tail(rev))
        /\ sender \in {"running", "unreachable"}
        /\ sender' \in {"running", "timedout", "failed"}
        /\ UNCHANGED <<sendPktCount, sendingBuf, fwd, ackVars, faults>>
    BY <1>2 DEF IgnoreAck, ReadSocket, SenderTimeout, SenderRefused, linkVars
  <2>2. /\ UNCHANGED <<updateSendingTimeCount, sendBufCount, sendingWindow,
                       sendingTime, lastAckSeqnum, receivingAvaiableSlotCount>>
    BY <2>1 DEF ackVars
  <2>3. CountInv' /\ WindowInv' /\ BufInv' /\ TimeInv' /\ LastAckInv'
    BY <1>1, <2>1, <2>2
       DEF ProtocolInv, CountInv, WindowInv, BufInv, TimeInv, LastAckInv
  <2>4. /\ InOrder' /\ StoreInv' /\ StartInv' /\ RevInv' /\ (RevLate => RevLate')
        /\ FwdInv' /\ (FwdLate => FwdLate')
    BY <1>1, <2>1, <2>2, SenderFrame, StartFrame, RevFrame, FwdFrame
  <2> QED BY <2>3, <2>4 DEF Kept, ProtocolInv, LateInv
<1>3. CASE HandleAck
  <2>1. updateSendingTimeCount \in Nat /\ Head(rev).nth \in Nat
    <3>1. rev # <<>>
      BY <1>3 DEF HandleAck, ReadSocket
    <3>2. Head(rev) \in Packets
      BY <3>1, Channels, HeadTail
    <3> QED BY <3>2, Counters, PacketFields DEF ProtocolInv
  <2>2. \/ updateSendingTimeCount <= Head(rev).nth
        \/ Head(rev).nth < updateSendingTimeCount
    BY <2>1
  <2> QED BY <1>3, <2>2, FreshAckKeeps, StaleAckKeeps
<1> QED BY <1>2, <1>3, HandleNackKeeps
=============================================================================
