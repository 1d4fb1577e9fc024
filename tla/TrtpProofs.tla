------------------------------ MODULE TrtpProofs ------------------------------
(***************************************************************************)
(* The safety of a transfer, for every window, sequence space, input, link *)
(* and timing: as long as nothing is read after its number has come round, *)
(* which is never when the link keeps the order, or reorders no more often *)
(* than the numbers have Room for.                                         *)
(***************************************************************************)
EXTENDS ReceiverProofs

-----------------------------------------------------------------------------
\* Where there is Room, all slack together is less than what two windows leave
\* of the numbers.
LEMMA SlackBound ==
  ASSUME TypeInv, Room
  PROVE  AnySlack + 2 * MAX_WINDOW_SIZE < SeqSpace
<1>1. /\ faults \in 0..MaxFaults /\ MaxFaults \in Nat /\ MAX_WINDOW_SIZE \in Nat
      /\ MAX_SEQNUM \in Nat /\ SeqSpace = MAX_SEQNUM + 1
  BY LinkAssumption, SizeFacts, WindowAssumption
     DEF TypeInv, TypeOK, LinkTypeOK, SeqSpace
<1>2. CASE "reorder" \notin FwdFaults \cup RevFaults
  BY <1>1, <1>2, SizeFacts DEF AnySlack, Slack
<1>3. CASE (MaxFaults + 2) * MAX_WINDOW_SIZE <= MAX_SEQNUM
  <2>1. /\ MAX_WINDOW_SIZE * faults <= MAX_WINDOW_SIZE * MaxFaults
        /\ (MaxFaults + 2) * MAX_WINDOW_SIZE
             = MAX_WINDOW_SIZE * MaxFaults + 2 * MAX_WINDOW_SIZE
    BY <1>1
  <2>2. /\ AnySlack <= MAX_WINDOW_SIZE * faults
        /\ AnySlack \in Int /\ MAX_WINDOW_SIZE * faults \in Int
        /\ MAX_WINDOW_SIZE * MaxFaults \in Int
    BY <1>1 DEF AnySlack, Slack
  <2> QED BY <1>1, <1>3, <2>1, <2>2
<1> QED BY <1>2, <1>3 DEF Room

\* Where there is Room, what is read later still means what it meant.
LEMMA LateTimely ==
  ASSUME TypeInv, ProtocolInv, LateInv, Room
  PROVE  Timely
<1>1. /\ AnySlack + 2 * MAX_WINDOW_SIZE < SeqSpace
      /\ AnySlack \in Nat /\ FwdSlack \in Nat /\ RevSlack \in Nat
      /\ FwdSlack <= AnySlack /\ RevSlack <= AnySlack
      /\ MAX_WINDOW_SIZE \in Nat /\ SeqSpace \in Nat
      /\ Len(writeFile) \in Nat /\ updateSendingTimeCount \in Nat
  BY SlackBound, Slacks, SizeFacts, Counters DEF ProtocolInv
<1>2. ASSUME receiver # "crashed", NEW j \in DOMAIN fwd, fwd[j].type = "DATA"
      PROVE  Len(writeFile) + MAX_WINDOW_SIZE <= fwd[j].nth + SeqSpace
  <2>1. fwd[j].nth \in Nat
    BY Channels, Elements, PacketFields
  <2>2. Len(writeFile) <= fwd[j].nth + (MAX_WINDOW_SIZE + FwdSlack)
    BY <1>2 DEF LateInv, FwdLate, WithinReach
  <2> QED BY <1>1, <2>1, <2>2
<1>3. ASSUME NEW j \in DOMAIN rev
      PROVE  updateSendingTimeCount + MAX_WINDOW_SIZE < rev[j].nth + SeqSpace
  <2>1. rev[j].nth \in Nat
    BY Channels, Elements, PacketFields
  <2>2. updateSendingTimeCount <= rev[j].nth + Lag(rev[j], RevSlack, AnySlack)
    BY DEF LateInv, RevLate, AcksBehind
  <2>3. /\ Lag(rev[j], RevSlack, AnySlack) \in Int
        /\ Lag(rev[j], RevSlack, AnySlack) <= MAX_WINDOW_SIZE + AnySlack
    BY <1>1 DEF Lag
  <2> QED BY <1>1, <2>1, <2>2, <2>3
<1> QED BY <1>2, <1>3 DEF Timely

\* A fault adds a window of slack where faults may reorder, and none elsewhere.
LEMMA SlackGrows ==
  ASSUME TypeInv, faults' = faults + 1
  PROVE  /\ FwdSlack' \in Nat /\ RevSlack' \in Nat /\ AnySlack' \in Nat
         /\ FwdSlack <= FwdSlack' /\ RevSlack <= RevSlack' /\ AnySlack <= AnySlack'
         /\ "reorder" \in FwdFaults => FwdSlack' = FwdSlack + MAX_WINDOW_SIZE
         /\ "reorder" \in RevFaults => /\ RevSlack' = RevSlack + MAX_WINDOW_SIZE
                                       /\ AnySlack' = AnySlack + MAX_WINDOW_SIZE
<1>1. faults \in Nat /\ MAX_WINDOW_SIZE \in Nat
  BY LinkAssumption, SizeFacts DEF TypeInv, TypeOK, LinkTypeOK
<1>2. /\ MAX_WINDOW_SIZE * (faults + 1) = MAX_WINDOW_SIZE * faults + MAX_WINDOW_SIZE
      /\ MAX_WINDOW_SIZE * faults \in Nat
  BY <1>1
<1> QED BY <1>1, <1>2 DEF FwdSlack, RevSlack, AnySlack, Slack

-----------------------------------------------------------------------------
\* x says what m says: a fault damages the bytes of a segment or sets its TR
\* bit, and leaves its type, its number and what it carries.
SaysWhat(x, m) ==
  /\ x.type = m.type /\ x.nth = m.nth /\ x.seqnum = m.seqnum
  /\ x.payload = m.payload
  /\ x.tr = m.tr \/ m.type # "NONE" \/ m.payload # NoPayload

\* After a fault every segment says what one said before, in the old order
\* unless faults reorder.
LEMMA InjectedSays ==
  ASSUME NEW ch \in Seq(Packets), ch # <<>>, NEW new, NEW allowed,
         Injected(ch, new, allowed)
  PROVE  /\ \A j \in DOMAIN new : \E l \in DOMAIN ch : SaysWhat(new[j], ch[l])
         /\ \A i, j \in DOMAIN new : i < j =>
              \E k, l \in DOMAIN ch :
                /\ SaysWhat(new[i], ch[k]) /\ SaysWhat(new[j], ch[l])
                /\ k < l \/ "reorder" \in allowed
<1>1. /\ 1 \in DOMAIN ch /\ Head(ch) = ch[1]
      /\ \A j \in DOMAIN ch : ch[j] \in Packets /\ j \in Nat /\ 1 <= j /\ j <= Len(ch)
  BY HeadTail, Elements
<1>2. \A m : SaysWhat(m, m)
  BY DEF SaysWhat
<1>3. CASE \/ new = [ch EXCEPT ![1].bytes = "damaged"]
           \/ /\ new = [ch EXCEPT ![1].bytes = "damaged", ![1].tr = 1]
              /\ Head(ch).payload # NoPayload
           \/ new = [ch EXCEPT ![1].tr = 1] /\ Head(ch).type # "NONE"
  <2>1. /\ DOMAIN new = DOMAIN ch
        /\ \A j \in DOMAIN ch : j # 1 => new[j] = ch[j]
    BY <1>1, <1>3
  <2>2. SaysWhat(new[1], ch[1])
    BY <1>1, <1>3 DEF Packets, SaysWhat
  <2>3. \A j \in DOMAIN ch : SaysWhat(new[j], ch[j])
    BY <1>2, <2>1, <2>2
  <2> QED BY <2>1, <2>3
<1>4. CASE new = Tail(ch)
  <2>1. \A j \in DOMAIN new : /\ j \in Nat /\ j + 1 \in DOMAIN ch
                              /\ SaysWhat(new[j], ch[j + 1])
    BY <1>2, <1>4, TailElements
  <2>2. ASSUME NEW i \in DOMAIN new, NEW j \in DOMAIN new, i < j
        PROVE  \E k, l \in DOMAIN ch :
                 SaysWhat(new[i], ch[k]) /\ SaysWhat(new[j], ch[l]) /\ k < l
    <3>1. i + 1 < j + 1
      BY <2>1, <2>2
    <3> QED BY <2>1, <3>1
  <2>3. \A j \in DOMAIN new : \E l \in DOMAIN ch : SaysWhat(new[j], ch[l])
    BY <2>1
  <2> QED BY <2>2, <2>3
<1>5. CASE /\ "reorder" \in allowed /\ Len(ch) >= 2
           /\ new = [ch EXCEPT ![1] = ch[2], ![2] = ch[1]]
  <2>1. DOMAIN new = DOMAIN ch /\ 2 \in DOMAIN ch
    BY <1>1, <1>5, LenProperties
  <2>2. \A j \in DOMAIN ch : \E l \in DOMAIN ch : new[j] = ch[l]
    BY <1>1, <1>5, <2>1
  <2>3. \A j \in DOMAIN new : \E l \in DOMAIN ch : SaysWhat(new[j], ch[l])
    BY <1>2, <2>1, <2>2
  <2>4. ASSUME NEW i \in DOMAIN new, NEW j \in DOMAIN new
        PROVE  \E k, l \in DOMAIN ch :
                 SaysWhat(new[i], ch[k]) /\ SaysWhat(new[j], ch[l])
    BY <2>3
  <2>5. "reorder" \in allowed
    BY <1>5
  <2> QED BY <2>3, <2>4, <2>5
<1> QED BY <1>3, <1>4, <1>5 DEF Injected

\* A segment keeps its meaning when the bits of its type, number and payload do.
LEMMA SoundSays ==
  ASSUME NEW m, NEW x, NEW next, Sound(m, next), SaysWhat(x, m)
  PROVE  Sound(x, next)
  BY DEF Sound, Carries, SaysWhat

\* A fault on the way to the receiver: what overtakes may be a window newer
\* than what it overtakes.
LEMMA FwdFaultKeeps ==
  ASSUME TypeInv, ProtocolInv, fwd # <<>>, Injected(fwd, fwd', FwdFaults),
         faults' = faults + 1, UNCHANGED <<sendPktCount, receiverVars>>
  PROVE  FwdInv' /\ (FwdLate => FwdLate')
<1>1. /\ \A j \in DOMAIN fwd' : \E l \in DOMAIN fwd : SaysWhat(fwd'[j], fwd[l])
      /\ \A i, j \in DOMAIN fwd' : i < j =>
           \E k, l \in DOMAIN fwd :
             /\ SaysWhat(fwd'[i], fwd[k]) /\ SaysWhat(fwd'[j], fwd[l])
             /\ k < l \/ "reorder" \in FwdFaults
  BY Channels, InjectedSays
<1>2. \A j \in DOMAIN fwd : /\ j \in Nat /\ fwd[j].nth \in Nat
                            /\ Sound(fwd[j], sendPktCount)
  BY Channels, Elements, PacketFields DEF ProtocolInv, FwdInv
<1>3. FwdInv'
  <2>1. ASSUME NEW j \in DOMAIN fwd' PROVE Sound(fwd'[j], sendPktCount)
    <3>1. PICK l \in DOMAIN fwd : SaysWhat(fwd'[j], fwd[l])
      BY <1>1
    <3> QED BY <1>2, <3>1, SoundSays
  <2> QED BY <2>1 DEF FwdInv
<1>4. ASSUME FwdLate PROVE FwdLate'
  <2> SUFFICES ASSUME receiver # "crashed"
               PROVE  Ordered(fwd', FwdSlack') /\ WithinReach(fwd, FwdSlack)'
    BY DEF FwdLate, receiverVars
  <2>1. /\ Ordered(fwd, FwdSlack) /\ WithinReach(fwd, FwdSlack)
        /\ UNCHANGED <<writeFile, binaryReceivingBuf>>
    BY <1>4 DEF FwdLate, receiverVars, storeVars
  <2>2. /\ FwdSlack \in Nat /\ FwdSlack' \in Nat /\ MAX_WINDOW_SIZE \in Nat
        /\ FwdSlack <= FwdSlack'
        /\ "reorder" \in FwdFaults => FwdSlack' = FwdSlack + MAX_WINDOW_SIZE
        /\ Len(writeFile) \in Nat /\ sendPktCount \in Nat
        /\ sendPktCount <= Len(writeFile) + MAX_WINDOW_SIZE
    BY SlackGrows, Slacks, SizeFacts, Counters DEF ProtocolInv
  <2>3. ASSUME NEW i \in DOMAIN fwd', NEW j \in DOMAIN fwd', i < j,
               fwd'[i].type = "DATA", fwd'[j].type = "DATA"
        PROVE  fwd'[i].nth < fwd'[j].nth + (MAX_WINDOW_SIZE + FwdSlack')
    <3>1. PICK k \in DOMAIN fwd, l \in DOMAIN fwd :
            /\ SaysWhat(fwd'[i], fwd[k]) /\ SaysWhat(fwd'[j], fwd[l])
            /\ k < l \/ "reorder" \in FwdFaults
      BY <1>1, <2>3
    <3>2. /\ fwd[k].type = "DATA" /\ fwd[l].type = "DATA"
          /\ fwd'[i].nth = fwd[k].nth /\ fwd'[j].nth = fwd[l].nth
      BY <2>3, <3>1 DEF SaysWhat
    <3>3. CASE k < l
      <4>1. fwd[k].nth < fwd[l].nth + (MAX_WINDOW_SIZE + FwdSlack)
        BY <2>1, <3>2, <3>3 DEF Ordered
      <4> QED BY <1>2, <2>2, <3>2, <4>1
    <3>4. CASE "reorder" \in FwdFaults
      <4>1. fwd[k].nth < sendPktCount
        BY <1>2, <3>2 DEF Sound
      <4>2. Len(writeFile) <= fwd[l].nth + (MAX_WINDOW_SIZE + FwdSlack)
        BY <2>1, <3>2 DEF WithinReach
      <4> QED BY <1>2, <2>2, <3>2, <3>4, <4>1, <4>2
    <3> QED BY <3>1, <3>3, <3>4
  <2>4. ASSUME NEW j \in DOMAIN fwd', fwd'[j].type = "DATA"
        PROVE  /\ Len(writeFile) <= fwd'[j].nth + (MAX_WINDOW_SIZE + FwdSlack')
               /\ \A i \in Slots : binaryReceivingBuf[i] = 1 =>
                    Len(writeFile) + i < fwd'[j].nth + (MAX_WINDOW_SIZE + FwdSlack')
    <3>1. PICK l \in DOMAIN fwd : SaysWhat(fwd'[j], fwd[l])
      BY <1>1
    <3>2. fwd[l].type = "DATA" /\ fwd'[j].nth = fwd[l].nth
      BY <2>4, <3>1 DEF SaysWhat
    <3>3. /\ Len(writeFile) <= fwd[l].nth + (MAX_WINDOW_SIZE + FwdSlack)
          /\ \A i \in Slots : binaryReceivingBuf[i] = 1 =>
               Len(writeFile) + i < fwd[l].nth + (MAX_WINDOW_SIZE + FwdSlack)
      BY <2>1, <3>2 DEF WithinReach
    <3>4. \A i \in Slots : i \in Int
      BY SlotBounds
    <3> QED BY <1>2, <2>2, <3>2, <3>3, <3>4
  <2>5. WithinReach(fwd, FwdSlack)'
    BY <2>1, <2>4 DEF WithinReach
  <2> QED BY <2>3, <2>5 DEF Ordered
<1> QED BY <1>3, <1>4

\* A segment may lie further behind when the slack has grown.
LEMMA LagGrows ==
  ASSUME NEW m, NEW s \in Nat, NEW t \in Nat, NEW s1 \in Nat, NEW t1 \in Nat,
         s <= s1, t <= t1
  PROVE  /\ Lag(m, s, t) \in Nat /\ Lag(m, s1, t1) \in Nat
         /\ Lag(m, s, t) <= Lag(m, s1, t1)
  BY SizeFacts DEF Lag

\* A fault on the way to the sender: no acknowledgement is more than a window
\* older than what it overtakes asks for, beyond what it may lie behind.
LEMMA RevFaultKeeps ==
  ASSUME TypeInv, ProtocolInv, rev # <<>>, Injected(rev, rev', RevFaults),
         faults' = faults + 1,
         UNCHANGED <<sendPktCount, receivingAvaiableSlotCount,
                     updateSendingTimeCount, writeFile>>
  PROVE  StartInv' /\ RevInv' /\ (RevLate => RevLate')
<1>1. /\ \A j \in DOMAIN rev' : \E l \in DOMAIN rev : SaysWhat(rev'[j], rev[l])
      /\ \A i, j \in DOMAIN rev' : i < j =>
           \E k, l \in DOMAIN rev :
             /\ SaysWhat(rev'[i], rev[k]) /\ SaysWhat(rev'[j], rev[l])
             /\ k < l \/ "reorder" \in RevFaults
  BY Channels, InjectedSays
<1>2. \A j \in DOMAIN rev : /\ j \in Nat /\ rev[j].nth \in Nat
                            /\ \/ AckAt(rev[j], Len(writeFile))
                               \/ NackAt(rev[j], sendPktCount)
  BY Channels, Elements, PacketFields DEF ProtocolInv, RevInv
<1>3. StartInv'
  <2>1. ASSUME NEW j \in DOMAIN rev', Len(writeFile) = 0
        PROVE  rev'[j].type # "ACK"
    <3>1. PICK l \in DOMAIN rev : SaysWhat(rev'[j], rev[l])
      BY <1>1
    <3>2. rev[l].type # "ACK"
      BY <2>1 DEF ProtocolInv, StartInv
    <3> QED BY <3>1, <3>2 DEF SaysWhat
  <2> QED BY <2>1 DEF ProtocolInv, StartInv
<1>4. RevInv'
  <2>1. ASSUME NEW j \in DOMAIN rev'
        PROVE  AckAt(rev'[j], Len(writeFile)) \/ NackAt(rev'[j], sendPktCount)
    <3>1. PICK l \in DOMAIN rev : SaysWhat(rev'[j], rev[l])
      BY <1>1
    <3>2. AckAt(rev[l], Len(writeFile)) \/ NackAt(rev[l], sendPktCount)
      BY <1>2
    <3> QED BY <3>1, <3>2 DEF SaysWhat, AckAt, NackAt
  <2> QED BY <2>1 DEF RevInv
<1>5. ASSUME RevLate PROVE RevLate'
  <2>1. AcksOrdered(rev, RevSlack, AnySlack) /\ AcksBehind(rev, RevSlack, AnySlack)
    BY <1>5 DEF RevLate
  <2>2. /\ RevSlack \in Nat /\ RevSlack' \in Nat /\ RevSlack <= RevSlack'
        /\ AnySlack \in Nat /\ AnySlack' \in Nat /\ AnySlack <= AnySlack'
        /\ MAX_WINDOW_SIZE \in Nat
        /\ Len(writeFile) \in Nat /\ updateSendingTimeCount \in Nat
        /\ Len(writeFile) <= updateSendingTimeCount + MAX_WINDOW_SIZE
    BY SlackGrows, Slacks, SizeFacts, Counters DEF ProtocolInv
  <2>3. ASSUME NEW x, NEW m, SaysWhat(x, m)
        PROVE  /\ Lag(m, RevSlack, AnySlack) \in Nat
               /\ Lag(x, RevSlack', AnySlack') \in Nat
               /\ Lag(m, RevSlack, AnySlack) <= Lag(x, RevSlack', AnySlack')
               /\ "reorder" \in RevFaults =>
                    Lag(x, RevSlack', AnySlack')
                      = Lag(m, RevSlack, AnySlack) + MAX_WINDOW_SIZE
    BY <2>2, <2>3, SlackGrows DEF SaysWhat, Lag
  <2>4. ASSUME NEW i \in DOMAIN rev', NEW j \in DOMAIN rev', i < j,
               rev'[i].type = "ACK"
        PROVE  rev'[i].nth <= rev'[j].nth + Lag(rev'[j], RevSlack', AnySlack')
    <3>1. PICK k \in DOMAIN rev, l \in DOMAIN rev :
            /\ SaysWhat(rev'[i], rev[k]) /\ SaysWhat(rev'[j], rev[l])
            /\ k < l \/ "reorder" \in RevFaults
      BY <1>1, <2>4
    <3>2. /\ rev[k].type = "ACK" /\ rev'[i].nth = rev[k].nth
          /\ rev'[j].nth = rev[l].nth
      BY <2>4, <3>1 DEF SaysWhat
    <3>3. CASE k < l
      <4>1. rev[k].nth <= rev[l].nth + Lag(rev[l], RevSlack, AnySlack)
        BY <2>1, <3>2, <3>3 DEF AcksOrdered
      <4>2. /\ Lag(rev[l], RevSlack, AnySlack) \in Nat
            /\ Lag(rev'[j], RevSlack', AnySlack') \in Nat
            /\ Lag(rev[l], RevSlack, AnySlack) <= Lag(rev'[j], RevSlack', AnySlack')
        BY <2>3, <3>1
      <4>3. rev[k].nth \in Nat /\ rev[l].nth \in Nat
        BY <1>2
      <4> QED BY <3>2, <4>1, <4>2, <4>3
    <3>4. CASE "reorder" \in RevFaults
      <4>1. rev[k].nth <= Len(writeFile)
        BY <1>2, <3>2 DEF AckAt, NackAt
      <4>2. updateSendingTimeCount
              <= rev[l].nth + Lag(rev[l], RevSlack, AnySlack)
        BY <2>1 DEF AcksBehind
      <4>3. /\ Lag(rev[l], RevSlack, AnySlack) \in Nat
            /\ Lag(rev'[j], RevSlack', AnySlack')
                 = Lag(rev[l], RevSlack, AnySlack) + MAX_WINDOW_SIZE
        BY <2>3, <3>1, <3>4
      <4>4. rev[k].nth \in Nat /\ rev[l].nth \in Nat
        BY <1>2
      <4> QED BY <2>2, <3>2, <4>1, <4>2, <4>3, <4>4
    <3> QED BY <3>1, <3>3, <3>4
  <2>5. ASSUME NEW j \in DOMAIN rev'
        PROVE  updateSendingTimeCount
                 <= rev'[j].nth + Lag(rev'[j], RevSlack', AnySlack')
    <3>1. PICK l \in DOMAIN rev : SaysWhat(rev'[j], rev[l])
      BY <1>1
    <3>2. rev'[j].nth = rev[l].nth
      BY <3>1 DEF SaysWhat
    <3>3. updateSendingTimeCount
            <= rev[l].nth + Lag(rev[l], RevSlack, AnySlack)
      BY <2>1 DEF AcksBehind
    <3> QED BY <1>2, <2>2, <2>3, <3>1, <3>2, <3>3
  <2>6. AcksOrdered(rev, RevSlack, AnySlack)'
    BY <2>4 DEF AcksOrdered
  <2>7. AcksBehind(rev, RevSlack, AnySlack)'
    BY <2>5 DEF AcksBehind
  <2> QED BY <2>6, <2>7 DEF RevLate
<1> QED BY <1>3, <1>4, <1>5

\* More slack is allowed to a direction that stays as it is.
LEMMA FwdSlackens ==
  ASSUME TypeInv, ProtocolInv, FwdLate, faults' = faults + 1,
         UNCHANGED <<fwd, receiver, writeFile, binaryReceivingBuf>>
  PROVE  FwdLate'
<1> SUFFICES ASSUME receiver # "crashed"
             PROVE  Ordered(fwd, FwdSlack)' /\ WithinReach(fwd, FwdSlack)'
  BY DEF FwdLate
<1>1. Ordered(fwd, FwdSlack) /\ WithinReach(fwd, FwdSlack)
  BY DEF FwdLate
<1>2. /\ FwdSlack \in Nat /\ FwdSlack' \in Nat /\ FwdSlack <= FwdSlack'
      /\ MAX_WINDOW_SIZE \in Nat /\ Len(writeFile) \in Nat
      /\ \A j \in DOMAIN fwd : fwd[j].nth \in Nat
      /\ \A i \in Slots : i \in Int
  BY SlackGrows, Slacks, SizeFacts, Counters, Channels, Elements, PacketFields,
     SlotBounds DEF ProtocolInv
<1>3. Ordered(fwd, FwdSlack)'
  BY <1>1, <1>2 DEF Ordered
<1>4. WithinReach(fwd, FwdSlack)'
  BY <1>1, <1>2 DEF WithinReach
<1> QED BY <1>3, <1>4

LEMMA RevSlackens ==
  ASSUME TypeInv, ProtocolInv, RevLate, faults' = faults + 1,
         UNCHANGED <<rev, updateSendingTimeCount>>
  PROVE  RevLate'
<1>1. AcksOrdered(rev, RevSlack, AnySlack) /\ AcksBehind(rev, RevSlack, AnySlack)
  BY DEF RevLate
<1>2. /\ RevSlack \in Nat /\ RevSlack' \in Nat /\ RevSlack <= RevSlack'
      /\ AnySlack \in Nat /\ AnySlack' \in Nat /\ AnySlack <= AnySlack'
      /\ MAX_WINDOW_SIZE \in Nat /\ updateSendingTimeCount \in Nat
      /\ \A j \in DOMAIN rev : rev[j].nth \in Nat
  BY SlackGrows, Slacks, SizeFacts, Counters, Channels, Elements, PacketFields
     DEF ProtocolInv
<1>3. \A j \in DOMAIN rev :
        /\ Lag(rev[j], RevSlack, AnySlack) \in Nat
        /\ Lag(rev[j], RevSlack', AnySlack') \in Nat
        /\ Lag(rev[j], RevSlack, AnySlack) <= Lag(rev[j], RevSlack', AnySlack')
  <2>1. /\ RevSlack \in Nat /\ RevSlack' \in Nat /\ RevSlack <= RevSlack'
        /\ AnySlack \in Nat /\ AnySlack' \in Nat /\ AnySlack <= AnySlack'
    BY <1>2
  <2> QED BY <2>1, LagGrows
<1>4. AcksOrdered(rev, RevSlack, AnySlack)'
  BY <1>1, <1>2, <1>3 DEF AcksOrdered
<1>5. AcksBehind(rev, RevSlack, AnySlack)'
  BY <1>1, <1>2, <1>3 DEF AcksBehind
<1> QED BY <1>4, <1>5 DEF RevLate

\* Faults keep the invariant, and use up slack where they reorder.
LEMMA FaultKeeps ==
  ASSUME TypeInv, ProtocolInv, LinkFault
  PROVE  Kept
<1>1. UNCHANGED <<senderVars, receiverVars>> /\ faults' = faults + 1
  BY DEF LinkFault
<1>2. /\ UNCHANGED <<sender, sendPktCount, updateSendingTimeCount, sendBufCount,
                     receivingAvaiableSlotCount, writeFile, receiver>>
      /\ UNCHANGED <<receivingWindow, binaryReceivingBuf, receivingBuf, lastAck>>
      /\ fwd \in Seq(Packets) /\ rev \in Seq(Packets)
      /\ sendPktCount \in Nat /\ Len(writeFile) \in Nat
  BY <1>1, Channels, Counters
     DEF ProtocolInv, senderVars, ackVars, receiverVars, storeVars
<1>3. WindowInv' /\ TimeInv' /\ BufInv' /\ LastAckInv'
  BY <1>1, ReceiverFrame
<1>4. InOrder' /\ CountInv' /\ StoreInv'
  BY <1>2 DEF ProtocolInv, InOrder, CountInv, StoreInv
<1>5. CASE fwd # <<>> /\ Injected(fwd, fwd', FwdFaults) /\ rev' = rev
  <2>1. FwdInv' /\ (FwdLate => FwdLate')
    BY <1>1, <1>2, <1>5, FwdFaultKeeps
  <2>2. StartInv'
    BY <1>2, <1>5, StartFrame
  <2>3. RevInv'
    BY <1>2, <1>5 DEF ProtocolInv, RevInv
  <2>4. ASSUME RevLate PROVE RevLate'
    BY <1>1, <1>2, <1>5, <2>4, RevSlackens
  <2> QED BY <1>3, <1>4, <2>1, <2>2, <2>3, <2>4 DEF Kept, ProtocolInv, LateInv
<1>6. CASE rev # <<>> /\ Injected(rev, rev', RevFaults) /\ fwd' = fwd
  <2>1. StartInv' /\ RevInv' /\ (RevLate => RevLate')
    BY <1>1, <1>2, <1>6, RevFaultKeeps
  <2>2. FwdInv'
    BY <1>2, <1>6 DEF ProtocolInv, FwdInv
  <2>3. ASSUME FwdLate PROVE FwdLate'
    BY <1>1, <1>2, <1>6, <2>3, FwdSlackens
  <2> QED BY <1>3, <1>4, <2>1, <2>2, <2>3 DEF Kept, ProtocolInv, LateInv
<1> QED BY <1>5, <1>6 DEF LinkFault

-----------------------------------------------------------------------------
\* The invariant holds initially, where the slots are clean.
LEMMA InitInv ==
  ASSUME CleanSlots, Init
  PROVE  IInv
<1>1. /\ sender = "running" /\ receiver = "waiting" /\ fwd = <<>> /\ rev = <<>>
      /\ sendPktCount = 0 /\ sendBufCount = 0 /\ updateSendingTimeCount = 0
      /\ receivingAvaiableSlotCount = 1 /\ lastAckSeqnum = -1
      /\ sendingWindow = [i \in Slots |-> i]
      /\ sendingTime = [i \in Slots |-> NotArmed]
      /\ sendingBuf \in [Slots -> Blanks]
      /\ receivingWindow = [i \in Slots |-> i] /\ lastAck = 0
      /\ binaryReceivingBuf = [i \in Slots |-> 0] /\ writeFile = <<>>
  <2>1. {BlankSlot(t, s) : t \in GarbageTypes, s \in GarbageSeqnums} = Blanks
    BY DEF CleanSlots, Blanks
  <2> QED BY <2>1 DEF Init, LinkInit, SenderInit, ReceiverInit, InitialSlotCount
<1>2. /\ Len(writeFile) = 0 /\ NChunks \in Nat /\ MAX_WINDOW_SIZE \in Nat
      /\ 0 \in Slots /\ \A i \in Slots : i \in Nat
  BY <1>1, ChunksAssumption, SizeFacts, SlotBounds
<1>3. \A i \in Slots : i = (0 + i) % SeqSpace
  <2>1. ASSUME NEW i \in Slots PROVE i = (0 + i) % SeqSpace
    <3>1. i \in Int /\ 0 <= i /\ i < SeqSpace /\ 0 + i = i
      BY SlotBounds, SizeFacts
    <3>2. /\ i % SeqSpace \in 0..(SeqSpace - 1) /\ i \div SeqSpace \in Int
          /\ i = SeqSpace * (i \div SeqSpace) + (i % SeqSpace)
      BY <3>1, SizeFacts, DivMod
    <3> QED BY <3>1, <3>2, SizeFacts
  <2> QED BY <2>1
<1>4. TypeInv
  BY InitType
<1>5. InOrder /\ CountInv /\ StartInv /\ WindowInv /\ LastAckInv
  BY <1>1, <1>2, <1>3
     DEF InOrder, CountInv, StartInv, WindowInv, LastAckInv
<1>6. TimeInv
  <2>1. \A k \in 0..(0 + MAX_WINDOW_SIZE - 1) :
          k % MAX_WINDOW_SIZE \in Slots /\ ~(k < 0)
    BY ModFacts
  <2> QED BY <1>1, <2>1 DEF TimeInv
<1>7. BufInv
  <2>1. \A k \in 0..NChunks : ~Recent(k, 0)
    BY DEF Recent
  <2> QED BY <1>1, <2>1 DEF BufInv
<1>8. FwdInv /\ RevInv /\ LateInv
  BY <1>1 DEF FwdInv, RevInv, LateInv, FwdLate, RevLate, Ordered, WithinReach,
     AcksOrdered, AcksBehind
<1>9. StoreInv
  BY <1>1, <1>2, <1>3 DEF StoreInv
<1> QED BY <1>4, <1>5, <1>6, <1>7, <1>8, <1>9 DEF IInv, ProtocolInv

\* Every step keeps what holds on every link, as long as nothing comes late.
LEMMA NextKept ==
  ASSUME TypeInv, ProtocolInv, Timely, [Next]_vars
  PROVE  Kept
<1>0. TypeInv'
  BY NextType
<1>1. CASE SenderStep
  BY <1>1, PollKeeps, SocketKeeps
     DEF SenderStep, SocketStep, PollTimeout, PollStep
<1>2. CASE ReceiverStep
  BY <1>0, <1>2, ReceiverKeeps
<1>3. CASE ReceiverTimeout
  BY <1>3, GiveUpKeeps DEF ReceiverTimeout
<1>4. CASE ReachClosedReceiver
  <2>1. /\ fwd # <<>> /\ fwd' = Tail(fwd) /\ rev' = rev /\ faults' = faults
        /\ sender' = sender \/ (sender = "running" /\ sender' = "unreachable")
        /\ UNCHANGED <<sendPktCount, sendingBuf, ackVars, receiverVars>>
    BY <1>4 DEF ReachClosedReceiver
  <2>2. /\ UNCHANGED <<updateSendingTimeCount, sendBufCount, sendingWindow,
                       sendingTime, lastAckSeqnum, receivingAvaiableSlotCount>>
        /\ UNCHANGED <<receiver, receivingWindow, binaryReceivingBuf,
                       receivingBuf, lastAck, writeFile>>
        /\ sendPktCount \in Nat /\ Len(writeFile) \in Nat
    BY <2>1, Counters DEF ProtocolInv, ackVars, receiverVars, storeVars
  <2>3. /\ InOrder' /\ CountInv' /\ WindowInv' /\ TimeInv' /\ BufInv'
        /\ LastAckInv' /\ StoreInv'
    BY <2>1, <2>2
       DEF ProtocolInv, InOrder, CountInv, WindowInv, TimeInv, BufInv,
           LastAckInv, StoreInv
  <2>4. StartInv' /\ RevInv' /\ (RevLate => RevLate')
    BY <2>1, <2>2, StartFrame, RevFrame
  <2>5. /\ FwdInv' /\ FwdSlack' = FwdSlack
        /\ FwdLate /\ receiver # "crashed" => Ordered(fwd', FwdSlack')
        /\ \A j \in DOMAIN fwd' : j + 1 \in DOMAIN fwd /\ fwd'[j] = fwd[j + 1]
    BY <2>1, FwdTail
  <2>6. FwdLate => FwdLate'
    BY <2>2, <2>5 DEF FwdLate, Ordered, WithinReach
  <2> QED BY <2>3, <2>4, <2>5, <2>6 DEF Kept, ProtocolInv, LateInv
<1>5. CASE ReachClosedSender
  <2>1. /\ rev # <<>> /\ rev' = Tail(rev) /\ fwd' = fwd /\ faults' = faults
        /\ receiver' = receiver
           \/ (receiver = "running" /\ receiver' = "unreachable")
        /\ UNCHANGED <<storeVars, senderVars>>
    BY <1>5 DEF ReachClosedSender
  <2>2. /\ UNCHANGED <<sender, sendPktCount, updateSendingTimeCount,
                       sendBufCount, receivingAvaiableSlotCount>>
        /\ WindowInv' /\ TimeInv' /\ BufInv' /\ LastAckInv'
        /\ UNCHANGED <<receivingWindow, binaryReceivingBuf, receivingBuf,
                       lastAck, writeFile>>
        /\ sendPktCount \in Nat /\ Len(writeFile) \in Nat
    BY <2>1, ReceiverFrame, Counters DEF ProtocolInv, storeVars
  <2>3. StartInv' /\ RevInv' /\ (RevLate => RevLate')
    BY <2>1, <2>2, StartFrame, RevFrame
  <2>4. InOrder' /\ CountInv' /\ FwdInv' /\ StoreInv'
    BY <2>1, <2>2 DEF ProtocolInv, InOrder, CountInv, FwdInv, StoreInv
  <2>5. FwdLate => FwdLate'
    BY <2>1, <2>2, SlackFrame DEF FwdLate, Ordered, WithinReach
  <2> QED BY <2>2, <2>3, <2>4, <2>5 DEF Kept, ProtocolInv, LateInv
<1>6. CASE LinkFault
  BY <1>6, FaultKeeps
<1>7. CASE UNCHANGED vars
  <2>1. UNCHANGED <<senderVars, ackVars, receiverVars, storeVars, linkVars>>
    BY <1>7 DEF vars, senderVars, receiverVars
  <2>2. ProtocolInv'
    BY <2>1
       DEF senderVars, ackVars, receiverVars, storeVars, linkVars,
           ProtocolInv, InOrder, CountInv, StartInv, WindowInv, TimeInv, BufInv,
           LastAckInv, FwdInv, StoreInv, RevInv
  <2>3. LateInv => LateInv'
    BY <2>1, SlackFrame
       DEF senderVars, ackVars, receiverVars, storeVars, linkVars, LateInv,
           FwdLate, RevLate, Ordered, WithinReach, AcksOrdered, AcksBehind
  <2> QED BY <2>2, <2>3 DEF Kept
<1> QED BY <1>1, <1>2, <1>3, <1>4, <1>5, <1>6, <1>7 DEF Next

-----------------------------------------------------------------------------
\* What follows of the two ends.  The sender's counters, window, clocks and
\* buffer agree.
LEMMA SenderAgrees ==
  ASSUME TypeInv, ProtocolInv
  PROVE  SendWindowConsistent
<1> DEFINE b == updateSendingTimeCount
<1>1. TypeInv /\ CountInv /\ WindowInv /\ TimeInv /\ BufInv
  BY DEF ProtocolInv
<1>2. /\ b \in Nat /\ sendPktCount \in Nat /\ NChunks \in Nat
      /\ MAX_WINDOW_SIZE \in Nat
      /\ sendPktCount <= NChunks + 1 /\ sendPktCount <= b + MAX_WINDOW_SIZE
  BY <1>1, Counters, SizeFacts
<1>3. ASSUME NEW i \in Slots
      PROVE  /\ sendingTime[(b + i) % MAX_WINDOW_SIZE] # NotArmed
                  <=> b + i < sendPktCount
             /\ b + i < sendPktCount =>
                  /\ sendingBuf[(b + i) % MAX_WINDOW_SIZE].nth = b + i
                  /\ sendingBuf[(b + i) % MAX_WINDOW_SIZE].seqnum
                       = (b + i) % SeqSpace
  <2>1. b + i \in b..(b + MAX_WINDOW_SIZE - 1)
    BY <1>2, SlotBounds
  <2>2. ASSUME b + i < sendPktCount
        PROVE  /\ b + i \in 0..NChunks
               /\ sendingBuf[(b + i) % MAX_WINDOW_SIZE] = PacketAt(b + i)
    <3>1. b + i \in 0..NChunks /\ Recent(b + i, sendPktCount)
      BY <1>2, <2>2, SlotBounds DEF Recent
    <3> QED BY <1>1, <3>1 DEF BufInv
  <2> QED BY <1>1, <2>1, <2>2, PacketAtCarries DEF TimeInv
<1>4. /\ sendPktCount = b + sendBufCount /\ sendBufCount \in 0..MAX_WINDOW_SIZE
      /\ \A i \in Slots : sendingWindow[i] = (b + i) % SeqSpace
  BY <1>1 DEF CountInv, WindowInv
<1> QED BY <1>3, <1>4 DEF SendWindowConsistent

\* A number found in the receiving window is the position it stands for.
LEMMA NumberFound ==
  ASSUME TypeInv, ProtocolInv, Timely
  PROVE  NoAliasing
<1> DEFINE n == Len(writeFile)
<1>1. CountInv /\ FwdInv /\ StoreInv
  BY DEF ProtocolInv
<1> SUFFICES ASSUME receiver # "crashed", NEW j \in DOMAIN fwd,
                    fwd[j].type = "DATA",
                    find_pkt(fwd[j].seqnum, receivingWindow) # -1
             PROVE  fwd[j].nth = n + find_pkt(fwd[j].seqnum, receivingWindow)
  BY DEF NoAliasing
<1> DEFINE k     == fwd[j].nth
           found == find_pkt(k % SeqSpace, receivingWindow)
<1>2. /\ k < sendPktCount /\ fwd[j].seqnum = k % SeqSpace
      /\ n + MAX_WINDOW_SIZE <= k + SeqSpace
  BY <1>1 DEF FwdInv, Sound, Carries, Timely
<1>3. /\ k \in Nat /\ n \in Nat /\ sendPktCount \in Nat
      /\ updateSendingTimeCount \in Nat /\ updateSendingTimeCount <= n
      /\ sendPktCount <= updateSendingTimeCount + MAX_WINDOW_SIZE
      /\ MAX_WINDOW_SIZE \in Nat /\ SeqSpace \in Nat
      /\ 2 * MAX_WINDOW_SIZE < SeqSpace
  BY <1>1, Counters, Channels, Elements, PacketFields, SizeFacts
<1>4. n + MAX_WINDOW_SIZE <= k + SeqSpace /\ k < n + SeqSpace
  BY <1>2, <1>3
<1>5. \A i \in Slots : receivingWindow[i] = (n + i) % SeqSpace
  BY <1>1 DEF StoreInv
<1>6. found = IF n <= k /\ k < n + MAX_WINDOW_SIZE THEN k - n ELSE -1
  BY <1>3, <1>4, <1>5, FindPkt
<1>7. find_pkt(fwd[j].seqnum, receivingWindow) = found
  BY <1>2
<1> HIDE DEF found, k
<1>8. found # -1 => k = n + found
  BY <1>3, <1>6
<1> QED BY <1>7, <1>8 DEF k

\* The other properties are parts of the invariant.
LEMMA Parts ==
  ASSUME ProtocolInv
  PROVE  InOrder /\ AckedIsWritten /\ CompleteWhenDisconnected /\ StoreConsistent
  BY DEF ProtocolInv, CountInv, StoreInv, AckedIsWritten, CompleteWhenDisconnected,
         StoreConsistent

\* What a transfer keeps safe.
Safe == /\ InOrder /\ AckedIsWritten /\ CompleteWhenDisconnected
        /\ SendWindowConsistent /\ StoreConsistent /\ NoAliasing

-----------------------------------------------------------------------------
\* On every link, whatever it loses, damages or reorders: as long as nothing is
\* read after its number has come round, the transfer is safe
\* (read_write_loop.c:336, 462), if a slot never filled cannot be resent as a
\* disconnection request (CleanSlots; read_write_loop.c:475-486).
THEOREM SafeWhenTimely ==
  ASSUME CleanSlots
  PROVE  Spec /\ []Timely => []Safe
<1>1. Init => TypeInv /\ ProtocolInv
  BY InitInv DEF IInv
<1>2. TypeInv /\ ProtocolInv /\ Timely /\ [Next]_vars => TypeInv' /\ ProtocolInv'
  BY NextType, NextKept DEF Kept
<1>3. TypeInv /\ ProtocolInv /\ Timely => Safe
  BY SenderAgrees, NumberFound, Parts DEF Safe
<1> QED BY <1>1, <1>2, <1>3, PTL DEF Spec

\* The inductive invariant holds in every reachable state when there is Room:
\* neither direction of the link reorders, or there are numbers for two windows
\* and one more for every fault (the 31 slots of packet_interface.h:20 and the
\* 256 numbers of buffer.h:9 allow for six).
THEOREM InvariantHolds ==
  ASSUME CleanSlots, Room
  PROVE  Spec => []IInv
<1>1. Init => IInv
  BY InitInv
<1>2. IInv /\ [Next]_vars => IInv'
  BY NextType, NextKept, LateTimely DEF Kept, IInv
<1> QED BY <1>1, <1>2, PTL DEF Spec

\* When there is Room, nothing is read after its number has come round.
THEOREM InTime ==
  ASSUME CleanSlots, Room
  PROVE  Spec => []Timely
<1>1. Spec => []IInv
  BY InvariantHolds
<1>2. IInv => Timely
  BY LateTimely DEF IInv
<1> QED BY <1>1, <1>2, PTL

\* The file is at every moment a prefix of the input: chunks are written once
\* and in order (read_write_loop.c:362-394).
THEOREM FileInOrder ==
  ASSUME CleanSlots, Room
  PROVE  Spec => []InOrder
<1>1. Spec => []Safe
  BY SafeWhenTimely, InTime, PTL
<1>2. Safe => InOrder
  BY DEF Safe
<1> QED BY <1>1, <1>2, PTL

\* The sender gives a slot up only when its packet is in the file
\* (read_write_loop.c:454-468).
THEOREM AckedChunksWritten ==
  ASSUME CleanSlots, Room
  PROVE  Spec => []AckedIsWritten
<1>1. Spec => []Safe
  BY SafeWhenTimely, InTime, PTL
<1>2. Safe => AckedIsWritten
  BY DEF Safe
<1> QED BY <1>1, <1>2, PTL

\* An end that leaves by the disconnection, the sender once it has written its
\* request and the receiver once it has read it, leaves a complete file
\* (read_write_loop.c:179-219 and 326-331).
THEOREM DisconnectedMeansComplete ==
  ASSUME CleanSlots, Room
  PROVE  Spec => []CompleteWhenDisconnected
<1>1. Spec => []Safe
  BY SafeWhenTimely, InTime, PTL
<1>2. Safe => CompleteWhenDisconnected
  BY DEF Safe
<1> QED BY <1>1, <1>2, PTL

\* The sender's counters, window, clocks and buffer agree on which packets are
\* in flight, and each of these can be resent (read_write_loop.c:152-173,
\* 224-255 and 462-468).
THEOREM SenderStateAgrees ==
  ASSUME CleanSlots, Room
  PROVE  Spec => []SendWindowConsistent
<1>1. Spec => []Safe
  BY SafeWhenTimely, InTime, PTL
<1>2. Safe => SendWindowConsistent
  BY DEF Safe
<1> QED BY <1>1, <1>2, PTL

\* What the receiver holds back is what its file lacks at that distance
\* (read_write_loop.c:336-438).
THEOREM ReceiverStateAgrees ==
  ASSUME CleanSlots, Room
  PROVE  Spec => []StoreConsistent
<1>1. Spec => []Safe
  BY SafeWhenTimely, InTime, PTL
<1>2. Safe => StoreConsistent
  BY DEF Safe
<1> QED BY <1>1, <1>2, PTL

\* Eight bits of number are enough: with Room, a number found in the receiving
\* window is the position it stands for (read_write_loop.c:336,
\* buffer.c:46-54).
THEOREM NumbersIdentify ==
  ASSUME CleanSlots, Room
  PROVE  Spec => []NoAliasing
<1>1. Spec => []Safe
  BY SafeWhenTimely, InTime, PTL
<1>2. Safe => NoAliasing
  BY DEF Safe
<1> QED BY <1>1, <1>2, PTL

\* Where acknowledgements keep their order, none that arrives is older than the
\* sending window, which is what the loop needs to end.
LEMMA LoopEnds ==
  ASSUME "reorder" \notin RevFaults, IInv, NoRunaway, Timely, [Next]_vars
  PROVE  NoRunaway'
<1>1. CASE HandleAck /\ UNCHANGED receiverVars
  <2>1. /\ rev # <<>> /\ Head(rev).type = "ACK"
    BY <1>1 DEF HandleAck, ReadSocket
  <2>2. 1 \in DOMAIN rev /\ Head(rev) = rev[1] /\ rev[1].nth \in Nat
    BY <2>1, Channels, HeadTail, Elements, PacketFields DEF IInv
  <2>3. updateSendingTimeCount <= rev[1].nth + Lag(rev[1], RevSlack, AnySlack)
    BY <2>2 DEF IInv, LateInv, RevLate, AcksBehind
  <2>4. Lag(rev[1], RevSlack, AnySlack) = 0
    BY <2>1, <2>2 DEF Lag, RevSlack, Slack
  <2>5. updateSendingTimeCount <= Head(rev).nth
    BY <2>2, <2>3, <2>4
  <2> QED BY <1>1, <2>5, FreshAckKeeps DEF IInv, NoRunaway
<1>2. CASE IgnoreAck \/ HandleNack \/ PollTimeout \/ SenderRefused
  BY <1>2 DEF IgnoreAck, HandleNack, PollTimeout, SenderTimeout, SenderRefused,
              ReadSocket, NoRunaway
<1>3. ASSUME NEW expired \in SUBSET Slots, PollStep(expired)
      PROVE  NoRunaway'
  BY <1>3 DEF PollStep, PollInput, SendData, SendDeco, SendNothingNew, SendNew,
              NoRunaway
<1>4. CASE ReceiverStep
  BY <1>4 DEF ReceiverStep, senderVars, NoRunaway
<1>5. CASE \/ ReceiverTimeout \/ ReachClosedReceiver \/ ReachClosedSender
           \/ LinkFault \/ UNCHANGED vars
  BY <1>5 DEF ReceiverTimeout, ReachClosedReceiver, ReachClosedSender, LinkFault,
              vars, senderVars, NoRunaway
<1> QED BY <1>1, <1>2, <1>3, <1>4, <1>5 DEF Next, SenderStep, SocketStep

\* The loop that slides the sending window ends (read_write_loop.c:462-468).
THEOREM WindowLoopEnds ==
  ASSUME CleanSlots, Room, "reorder" \notin RevFaults
  PROVE  Spec => []NoRunaway
<1>1. Init => NoRunaway
  BY DEF Init, SenderInit, NoRunaway
<1>2. IInv /\ Timely /\ NoRunaway /\ [Next]_vars => NoRunaway'
  BY LoopEnds
<1>3. Spec => []IInv
  BY InvariantHolds
<1>4. Spec => []Timely
  BY InTime
<1> QED BY <1>1, <1>2, <1>3, <1>4, PTL DEF Spec

-----------------------------------------------------------------------------
\* Trtp implements Transfer.  What the abstraction sees of a state:
Sent == IF sendPktCount > NChunks THEN NChunks ELSE sendPktCount

\* Initial states map to initial states.
LEMMA AbstractInit == Init => Abstract!Init
  BY ChunksAssumption
     DEF Init, LinkInit, SenderInit, ReceiverInit, Abstract!Init, EndOf

\* A step that leaves the counter of packets, the file and both ends alone is a
\* stutter.
LEMMA Stutter ==
  ASSUME UNCHANGED <<sendPktCount, writeFile>>,
         EndOf(sender') = EndOf(sender), EndOf(receiver') = EndOf(receiver)
  PROVE  UNCHANGED Abstract!vars
  BY DEF Abstract!vars

\* A sender that ends without success gives up.
LEMMA SenderEnds ==
  ASSUME UNCHANGED <<sendPktCount, writeFile>>,
         EndOf(sender) = "up", EndOf(sender') = "gone",
         EndOf(receiver') = EndOf(receiver)
  PROVE  Abstract!SenderGivesUp
  BY DEF Abstract!SenderGivesUp

\* Two files in order, the second longer by n, differ by the next n chunks.
LEMMA NextChunksAppended ==
  ASSUME TypeInv, TypeInv', InOrder, InOrder', NEW n \in Nat,
         Len(writeFile') = Len(writeFile) + n
  PROVE  writeFile' = writeFile \o Abstract!NextChunks(n)
<1> DEFINE len == Len(writeFile)
           g   == Abstract!NextChunks(n)
<1>1. len \in Nat /\ writeFile \in Seq(Chunks) /\ writeFile' \in Seq(Chunks)
  BY DEF TypeInv, TypeOK, ReceiverTypeOK
<1>2. g = [j \in 1..n |-> len + j - 1]
  BY DEF Abstract!NextChunks
<1>3. g \in [1..n -> Int]
  BY <1>1, <1>2
<1>4. g \in Seq(Int) /\ Len(g) = n
  BY <1>3, FunctionIsSeq
<1>5. writeFile \in Seq(Int) /\ writeFile' \in Seq(Int)
  <2>1. Chunks \subseteq Int
    BY ChunksAssumption DEF Chunks
  <2> QED BY <1>1, <2>1, SeqMonotonic
<1>6. /\ writeFile \o g \in Seq(Int) /\ Len(writeFile \o g) = len + n
  BY <1>4, <1>5, ConcatType
<1>7. ASSUME NEW j \in 1..(len + n)
      PROVE  (writeFile \o g)[j] = j - 1
  <2>1. writeFile = [i \in 1..len |-> i - 1]
    BY DEF InOrder
  <2>2. CASE j <= len
    <3>1. j \in 1..len /\ (writeFile \o g)[j] = writeFile[j]
      BY <1>1, <1>4, <1>5, <2>2
    <3> HIDE DEF g
    <3> QED BY <2>1, <3>1
  <2>3. CASE ~(j <= len)
    <3>1. j - len \in 1..n /\ (writeFile \o g)[j] = g[j - len]
      BY <1>1, <1>4, <1>5, <2>3
    <3>2. g[j - len] = len + (j - len) - 1
      BY <1>2, <3>1
    <3> HIDE DEF g
    <3> QED BY <1>1, <3>1, <3>2
  <2> QED BY <2>2, <2>3
<1>8. writeFile' = [j \in 1..(len + n) |-> j - 1]
  BY DEF InOrder
<1> HIDE DEF g
<1>9. writeFile \o g \in [1..(len + n) -> Int]
  BY <1>1, <1>6, LenProperties
<1>10. writeFile \o g = [j \in 1..(len + n) |-> j - 1]
  BY <1>7, <1>9
<1> QED BY <1>8, <1>10 DEF g

\* A receiver that ends without a disconnection request and without writing
\* gives up.
LEMMA ReceiverEnds ==
  ASSUME TypeInv, ProtocolInv, TypeInv', ProtocolInv',
         UNCHANGED <<sender, sendPktCount, writeFile>>,
         EndOf(receiver) = "up", EndOf(receiver') = "gone"
  PROVE  Abstract!ReceiverGivesUp
<1>1. InOrder /\ InOrder' /\ CountInv
  BY DEF ProtocolInv
<1>2. /\ Len(writeFile) \in Nat /\ sendPktCount \in Nat /\ NChunks \in Nat
      /\ Len(writeFile) <= sendPktCount /\ Len(writeFile) <= NChunks
  BY <1>1, Counters DEF CountInv
<1>3. Len(writeFile') = Len(writeFile) + 0
  BY <1>2
<1>4. writeFile' = writeFile \o Abstract!NextChunks(0)
  BY <1>1, <1>3, NextChunksAppended
<1>5. Len(writeFile) + 0 <= Sent
  BY <1>2 DEF Sent
<1>6. \E n \in {0, 1} : Len(writeFile) + n <= Sent
                        /\ writeFile' = writeFile \o Abstract!NextChunks(n)
  BY <1>4, <1>5
<1> QED BY <1>6 DEF Abstract!ReceiverGivesUp, Sent

\* A turn of the input branch sends a chunk, closes the sender or is invisible.
LEMMA AbstractPoll ==
  ASSUME TypeInv, ProtocolInv, NEW expired, PollStep(expired)
  PROVE  [Abstract!Next]_(Abstract!vars)
<1>1. PICK resent \in Scans(expired) :
        \/ SendData(expired, resent)
        \/ SendDeco(expired, resent)
        \/ SendNothingNew(expired, resent)
  BY DEF PollStep, PollInput
<1>2. /\ sender = "running" /\ receiver' = receiver /\ writeFile' = writeFile
  BY DEF PollStep, PollInput, receiverVars, storeVars
<1>4. /\ sendPktCount \in Nat /\ NChunks \in Nat /\ Len(writeFile) \in Nat
      /\ updateSendingTimeCount \in Nat /\ MAX_WINDOW_SIZE \in Nat
      /\ updateSendingTimeCount <= Len(writeFile)
      /\ sendPktCount = updateSendingTimeCount + sendBufCount
      /\ sendBufCount \in Nat
  BY Counters, SizeFacts DEF ProtocolInv, CountInv
<1>5. CASE SendData(expired, resent)
  <2>1. /\ sendPktCount < NChunks /\ sendBufCount < MAX_WINDOW_SIZE
        /\ sendPktCount' = sendPktCount + 1 /\ sender' = sender
    BY <1>5 DEF SendData, SendNew, MayRead
  <2>2. /\ sendPktCount < Len(writeFile) + MAX_WINDOW_SIZE
        /\ ~(sendPktCount > NChunks) /\ ~(sendPktCount + 1 > NChunks)
    BY <1>4, <2>1
  <2>3. Abstract!Send
    BY <1>2, <2>1, <2>2 DEF Abstract!Send, EndOf
  <2> QED BY <2>3 DEF Abstract!Next
<1>6. CASE SendDeco(expired, resent)
  <2>1. /\ sendPktCount = NChunks /\ sendPktCount' = sendPktCount + 1
        /\ sender' = "disconnected" /\ Len(writeFile) = NChunks
    BY <1>6, DecoAfterAll DEF SendDeco, SendNew
  <2>2. ~(NChunks > NChunks) /\ NChunks + 1 > NChunks
    BY <1>4
  <2>3. Abstract!CloseSender
    BY <1>2, <2>1, <2>2 DEF Abstract!CloseSender, EndOf
  <2> QED BY <2>3 DEF Abstract!Next
<1>7. CASE SendNothingNew(expired, resent)
  <2>1. UNCHANGED Abstract!vars
    BY <1>2, <1>7, Stutter DEF SendNothingNew
  <2> QED BY <2>1
<1> QED BY <1>1, <1>5, <1>6, <1>7

\* The socket branch of the sender is invisible or makes it give up.
LEMMA AbstractSocket ==
  ASSUME SocketStep
  PROVE  [Abstract!Next]_(Abstract!vars)
<1>1. /\ sender \in {"running", "unreachable"}
      /\ sender' \in {"running", "failed", "timedout", "runaway", "crashed"}
      /\ UNCHANGED <<sendPktCount, writeFile, receiver>>
  BY DEF SocketStep, PollTimeout, IgnoreAck, HandleAck, HandleNack,
         SenderTimeout, SenderRefused, ReadSocket, RunAway, receiverVars,
         storeVars
<1>2. CASE sender' = "running"
  <2>1. EndOf(sender') = EndOf(sender)
    BY <1>1, <1>2 DEF EndOf
  <2>2. UNCHANGED Abstract!vars
    BY <1>1, <2>1, Stutter
  <2> QED BY <2>2
<1>3. CASE sender' # "running"
  <2>1. EndOf(sender) = "up" /\ EndOf(sender') = "gone"
    BY <1>1, <1>3 DEF EndOf
  <2>2. Abstract!SenderGivesUp
    BY <1>1, <2>1, SenderEnds
  <2> QED BY <2>2 DEF Abstract!Next
<1> QED BY <1>2, <1>3

\* How much one write in order, with the chunks stored behind it, adds.
LEMMA WriteLength ==
  ASSUME TypeInv, ProtocolInv, Timely, WriteInOrder
  PROVE  \E d \in Slots : Len(writeFile') = Len(writeFile) + (d + 1)
<1>1. PICK d \in Slots :
        /\ Drains(d)
        /\ writeFile' = Append(writeFile, Head(fwd).payload)
                          \o [j \in 1..d |-> receivingBuf[j].payload]
  BY DEF WriteInOrder
<1> DEFINE f == Append(writeFile, Head(fwd).payload)
           g == [j \in 1..d |-> receivingBuf[j].payload]
<1>2. writeFile \in Seq(Chunks) /\ Len(writeFile) \in Nat
  BY DEF TypeInv, TypeOK, ReceiverTypeOK
<1>3. Head(fwd).payload \in Chunks
  <2>1. ReceiveData(0)
    BY DEF WriteInOrder
  <2>2. Head(fwd) \in Packets
    BY <2>1, DataAt
  <2> QED BY <2>1, <2>2 DEF ReceiveData, Packets
<1>4. d \in Nat /\ \A j \in 1..d : j \in Slots
  BY SlotBounds, SizeFacts
<1>5. ASSUME NEW j \in 1..d
      PROVE  receivingBuf[j].payload \in Chunks
  <2>1. binaryReceivingBuf[j] = 1 /\ j \in Slots
    BY <1>1, <1>4 DEF Drains
  <2>2. receivingBuf[j] \in Packets /\ receivingBuf[j].payload # NoPayload
    BY <2>1 DEF TypeInv, OccupiedInv
  <2> QED BY <2>2 DEF Packets
<1>6. f \in Seq(Chunks) /\ Len(f) = Len(writeFile) + 1
  BY <1>2, <1>3
<1>7. g \in [1..d -> Chunks]
  BY <1>5
<1>8. g \in Seq(Chunks) /\ Len(g) = d
  BY <1>4, <1>7, FunctionIsSeq
<1>9. writeFile' = f \o g
  BY <1>1
<1> HIDE DEF f, g
<1>10. Len(writeFile') = Len(f) + Len(g)
  BY <1>6, <1>8, <1>9, ConcatType
<1>11. Len(writeFile') = Len(writeFile) + (d + 1)
  BY <1>2, <1>4, <1>6, <1>8, <1>10
<1> QED BY <1>11

\* A receiver that times out, or whose read is refused, gives up.
LEMMA AbstractTimeout ==
  ASSUME TypeInv, ProtocolInv, TypeInv', ProtocolInv',
         \/ ReceiverTimeout
         \/ ReceiverRefused /\ UNCHANGED senderVars
  PROVE  [Abstract!Next]_(Abstract!vars)
<1>1. /\ receiver \in {"running", "unreachable"}
      /\ receiver' \in {"timedout", "refused"}
      /\ UNCHANGED <<sender, sendPktCount, writeFile>>
  BY DEF ReceiverTimeout, ReceiverRefused, senderVars, storeVars
<1>2. Abstract!ReceiverGivesUp
  BY <1>1, ReceiverEnds DEF EndOf
<1> QED BY <1>2 DEF Abstract!Next

\* A step of the receiver delivers chunks, closes it, is invisible or a crash.
LEMMA AbstractReceiver ==
  ASSUME TypeInv, ProtocolInv, TypeInv', ProtocolInv', Timely, ReceiverStep
  PROVE  [Abstract!Next]_(Abstract!vars)
<1>1. /\ UNCHANGED <<sender, sendPktCount>> /\ EndOf(receiver) = "up"
  BY DEF ReceiverStep, senderVars, EndOf, IgnoreDatagram, SendNack, Disconnect,
         AckOutOfWindow, WriteInOrder, StoreOutOfOrder, FreeGarbage,
         ReceiverRefused, ReceiveData, ReadDatagram, Listening
<1>2. InOrder /\ InOrder' /\ CountInv /\ CountInv'
  BY DEF ProtocolInv
<1>3. /\ Len(writeFile) \in Nat /\ Len(writeFile') \in Nat
      /\ Len(writeFile') <= sendPktCount /\ Len(writeFile') <= NChunks
      /\ sendPktCount \in Nat /\ NChunks \in Nat
  <2>1. Len(writeFile') \in Nat
    BY <1>2 DEF TypeInv, TypeOK, ReceiverTypeOK
  <2>2. Len(writeFile') <= sendPktCount' /\ Len(writeFile') <= NChunks
    BY <1>2 DEF CountInv
  <2> QED BY <1>1, <1>2, <2>1, <2>2, Counters
<1>4. Len(writeFile') <= Sent
  BY <1>3 DEF Sent
<1>5. ASSUME UNCHANGED writeFile, receiver' = "running"
      PROVE  UNCHANGED Abstract!vars
  <2>1. EndOf(receiver') = EndOf(receiver) /\ EndOf(sender') = EndOf(sender)
    BY <1>1, <1>5 DEF EndOf
  <2> QED BY <1>1, <1>5, <2>1, Stutter
<1>6. CASE IgnoreDatagram \/ SendNack \/ AckOutOfWindow \/ StoreOutOfOrder
  BY <1>5, <1>6
     DEF IgnoreDatagram, SendNack, AckOutOfWindow, StoreOutOfOrder, SendAck,
         storeVars
<1>7. CASE Disconnect
  <2>1. receiver' = "disconnected" /\ UNCHANGED writeFile
    BY <1>7 DEF Disconnect, storeVars
  <2>2. sender = "disconnected"
    BY <1>1, <1>2, <2>1 DEF CountInv
  <2>3. Abstract!CloseReceiver
    BY <1>1, <2>1, <2>2 DEF Abstract!CloseReceiver, EndOf
  <2> QED BY <2>3 DEF Abstract!Next
<1>8. CASE WriteInOrder
  <2>1. receiver' = "running"
    BY <1>8 DEF WriteInOrder, SendAck
  <2>2. \E d \in Slots : Len(writeFile') = Len(writeFile) + (d + 1)
    BY <1>2, <1>8, WriteLength
  <2>3. PICK d \in Slots : Len(writeFile') = Len(writeFile) + (d + 1)
    BY <2>2
  <2>4. d + 1 \in Nat /\ d + 1 >= 1
    BY SlotBounds
  <2>5. writeFile' = writeFile \o Abstract!NextChunks(d + 1)
    BY <1>2, <2>3, <2>4, NextChunksAppended
  <2>6. d + 1 \in 1..(Sent - Len(writeFile))
    BY <1>3, <1>4, <2>3, <2>4 DEF Sent
  <2>7. EndOf(receiver') = "up"
    BY <2>1 DEF EndOf
  <2>8. Abstract!Deliver
    BY <1>1, <2>5, <2>6, <2>7 DEF Abstract!Deliver, Sent
  <2> QED BY <2>8 DEF Abstract!Next
<1>9. CASE FreeGarbage
  <2>1. /\ receiver' = "crashed"
        /\ \/ writeFile' = writeFile
           \/ writeFile' = Append(writeFile, Head(fwd).payload)
    BY <1>9 DEF FreeGarbage
  <2>2. \E n \in {0, 1} : Len(writeFile') = Len(writeFile) + n
    <3>1. writeFile \in Seq(Chunks)
      BY <1>2 DEF TypeInv, TypeOK, ReceiverTypeOK
    <3>2. Len(Append(writeFile, Head(fwd).payload)) = Len(writeFile) + 1
      BY <3>1
    <3>3. Len(writeFile) + 0 = Len(writeFile)
      BY <1>3
    <3> QED BY <2>1, <3>2, <3>3
  <2>3. PICK n \in {0, 1} : Len(writeFile') = Len(writeFile) + n
    BY <2>2
  <2>4. writeFile' = writeFile \o Abstract!NextChunks(n)
    BY <1>2, <2>3, NextChunksAppended
  <2>5. Len(writeFile) + n <= Sent
    BY <1>4, <2>3
  <2>6. EndOf(receiver') = "gone"
    BY <2>1 DEF EndOf
  <2>7. Abstract!ReceiverGivesUp
    BY <1>1, <2>4, <2>5, <2>6 DEF Abstract!ReceiverGivesUp, Sent
  <2> QED BY <2>7 DEF Abstract!Next
<1>10. CASE ReceiverRefused
  BY <1>10, AbstractTimeout DEF ReceiverStep
<1> QED BY <1>6, <1>7, <1>8, <1>9, <1>10 DEF ReceiverStep

\* A segment for a program that has exited is invisible: an end that it makes
\* unreachable has not given up yet.
LEMMA AbstractClosed ==
  ASSUME ReachClosedReceiver \/ ReachClosedSender
  PROVE  UNCHANGED Abstract!vars
<1>1. /\ UNCHANGED <<sendPktCount, writeFile>>
      /\ sender' = sender \/ (sender = "running" /\ sender' = "unreachable")
      /\ receiver' = receiver
         \/ (receiver = "running" /\ receiver' = "unreachable")
  BY DEF ReachClosedReceiver, ReachClosedSender, receiverVars, senderVars,
         storeVars
<1>2. EndOf(sender') = EndOf(sender) /\ EndOf(receiver') = EndOf(receiver)
  BY <1>1 DEF EndOf
<1> QED BY <1>1, <1>2, Stutter

\* Every step maps to a step of Transfer or a stutter.
LEMMA AbstractStep ==
  ASSUME TypeInv, ProtocolInv, TypeInv', ProtocolInv', Timely, [Next]_vars
  PROVE  [Abstract!Next]_(Abstract!vars)
<1>1. ASSUME NEW expired \in SUBSET Slots, PollStep(expired)
      PROVE  [Abstract!Next]_(Abstract!vars)
  BY <1>1, AbstractPoll
<1>2. CASE SocketStep
  BY <1>2, AbstractSocket
<1>3. CASE ReceiverStep
  BY <1>3, AbstractReceiver
<1>4. CASE ReceiverTimeout
  BY <1>4, AbstractTimeout
<1>5. CASE ReachClosedReceiver \/ ReachClosedSender
  BY <1>5, AbstractClosed
<1>7. CASE LinkFault \/ UNCHANGED vars
  <2>1. UNCHANGED <<sender, receiver, sendPktCount, writeFile>>
    BY <1>7 DEF LinkFault, vars, senderVars, receiverVars, storeVars
  <2>2. UNCHANGED Abstract!vars
    BY <2>1, Stutter
  <2> QED BY <2>2
<1> QED BY <1>1, <1>2, <1>3, <1>4, <1>5, <1>7 DEF Next, SenderStep

\* The programs implement the abstract transfer on every link on which nothing
\* is read after its number has come round: every step of theirs is one of its
\* steps or invisible to it (read_write_loop.c as a whole).
THEOREM TransferImplementedWhenTimely ==
  ASSUME CleanSlots
  PROVE  Spec /\ []Timely => ImplementsTransfer
<1>1. Init => Abstract!Init
  BY AbstractInit
<1>2. Init => TypeInv /\ ProtocolInv
  BY InitInv DEF IInv
<1>3. TypeInv /\ ProtocolInv /\ Timely /\ [Next]_vars => TypeInv' /\ ProtocolInv'
  BY NextType, NextKept DEF Kept
<1>4. /\ TypeInv /\ ProtocolInv /\ TypeInv' /\ ProtocolInv' /\ Timely
      /\ [Next]_vars
      => [Abstract!Next]_(Abstract!vars)
  BY AbstractStep
<1> QED BY <1>1, <1>2, <1>3, <1>4, PTL DEF Spec, ImplementsTransfer, Abstract!Spec

\* In particular when there is Room.
THEOREM TransferImplemented ==
  ASSUME CleanSlots, Room
  PROVE  Spec => ImplementsTransfer
  BY TransferImplementedWhenTimely, InTime, PTL
=============================================================================
