------------------------------- MODULE Sender -------------------------------
(***************************************************************************)
(* read_write_loop as the sender program runs it (sender.c: readFd is the  *)
(* input, writeFile is NULL).  One turn of the loop polls both descriptors *)
(* once, then runs the input branch, then the socket branch on at most one *)
(* datagram; pc tells whether the turn's poll found a datagram that the    *)
(* input branch has not hidden from the socket branch yet.                 *)
(***************************************************************************)
EXTENDS Link

CONSTANTS InputKind,      \* "file", always readable, or "pipe"
          GarbageTypes,   \* what the type and the seqnum byte of an unfilled
          GarbageSeqnums  \* slot may hold: {"NONE"} and {0} where it is zero

ASSUME SenderAssumption ==
  /\ InputKind \in {"file", "pipe"}
  /\ GarbageTypes \subseteq {"NONE", "DATA"} /\ GarbageTypes # {}
  /\ GarbageSeqnums \subseteq Seqnums /\ GarbageSeqnums # {}

VARIABLES sender, pc, sendPktCount, sendBufCount, receivingAvaiableSlotCount,
          lastAckSeqnum, updateSendingTimeCount, sendingWindow, sendingTime,
          sendingBuf

ackVars    == <<sendBufCount, receivingAvaiableSlotCount, lastAckSeqnum,
                updateSendingTimeCount, sendingWindow, sendingTime>>
senderVars == <<sender, pc, sendPktCount, sendingBuf, ackVars>>

\* sendingTime abstracts the clock value of a slot to its order among the
\* others: 0 is unset, as in the code, and otherwise the larger the number the
\* longer ago the slot's packet was last written.
NotArmed == 0

\* "running" in the loop, and "unreachable" too: there an error is pending on
\* the socket, the answer of a closed port.  Otherwise which return the sender
\* left read_write_loop by, the disconnection's, the time-out's or a failed
\* call's, or that it was lost in the loop.
SenderStatus == {"running", "unreachable", "disconnected", "timedout", "failed",
                 "runaway", "crashed"}
SenderExited == sender \notin {"running", "unreachable"}

SenderTypeOK ==
  /\ sender \in SenderStatus
  /\ pc \in {"poll", "sock"}
  /\ sendPktCount \in 0..(NChunks + 1)
  /\ sendBufCount \in Int
  /\ receivingAvaiableSlotCount \in 0..MAX_WINDOW_SIZE
  /\ lastAckSeqnum \in Seqnums \cup {-1}
  /\ updateSendingTimeCount \in Nat
  /\ sendingWindow \in [Slots -> Seqnums]
  /\ sendingTime \in [Slots -> Nat]
  /\ sendingBuf \in [Slots -> Packets]

\* The credit the sender starts with, before any ACK announced a window.
InitialSlotCount == 1

SenderInit ==
  /\ sender = "running" /\ pc = "poll"
  /\ sendPktCount = 0 /\ sendBufCount = 0
  /\ receivingAvaiableSlotCount = InitialSlotCount
  /\ lastAckSeqnum = -1 /\ updateSendingTimeCount = 0
  /\ sendingWindow = [i \in Slots |-> i]
  /\ sendingTime = [i \in Slots |-> NotArmed]
  /\ sendingBuf \in [Slots -> {BlankSlot(t, s) : t \in GarbageTypes,
                                                s \in GarbageSeqnums}]

-----------------------------------------------------------------------------
\* poll reports POLLIN for a regular file for ever, for a pipe only while
\* there is data in it: at the end of a pipe there is POLLHUP alone.
StdinReadable == InputKind = "file" \/ sendPktCount < NChunks

\* All increasing lists of slots: the orders in which a loop over the slots
\* (i = 0, 1, ...) can come across those it picks.
SlotLists ==
  {r \in UNION {[1..n -> Slots] : n \in 0..MAX_WINDOW_SIZE} :
     \A i, j \in DOMAIN r : i < j => r[i] < r[j]}

\* A loop that looks for slots to resend and writes none.
Scans_Nothing(slots) == {<<>>}

\* What a loop over the slots writes when it resends those in `slots` (a set
\* with one element: the packets in slot order).
Scans(slots) ==
  {[j \in DOMAIN r |-> sendingBuf[r[j]]] :
     r \in {q \in SlotLists : {q[j] : j \in DOMAIN q} = slots}}

\* RTO may have elapsed for a set of timed slots that holds, with a slot, all
\* those written before it.
MayHaveExpired(expired) ==
  /\ \A i \in expired : sendingTime[i] # NotArmed
  /\ \A i \in expired, j \in Slots :
       sendingTime[j] > sendingTime[i] => j \in expired

\* The clock values once the packets in `written` have been written: theirs
\* are the latest, so all the others are one step older.
Timed(time, written) ==
  IF written = {} THEN time
  ELSE [i \in Slots |-> IF i \in written THEN 1
                        ELSE IF time[i] = NotArmed THEN NotArmed
                        ELSE time[i] + 1]

\* The guard with one of its halves only, the buffer slot numbered by the
\* packets in flight, and sequence numbers that wrap one too early.
MayRead_CreditOnly    == receivingAvaiableSlotCount # 0
SlotOfNext_InFlight   == sendBufCount % MAX_WINDOW_SIZE
SeqnumOfNext_OneShort == sendPktCount % MAX_SEQNUM

\* The input is read only with credit from the receiver and a free slot.
MayRead == receivingAvaiableSlotCount # 0 /\ sendBufCount < MAX_WINDOW_SIZE

SlotOfNext == sendPktCount % MAX_WINDOW_SIZE
SeqnumOfNext == sendPktCount % SeqSpace

\* A packet is stored in the buffer, timed and written after the resent ones.
SendNew(packet, expired, resent) ==
  /\ SendFwd(Append(resent, packet))
  /\ sendingBuf' = [sendingBuf EXCEPT ![SlotOfNext] = packet]
  /\ sendBufCount' = sendBufCount + 1
  /\ sendingTime' = Timed(Timed(sendingTime, expired), {SlotOfNext})
  /\ sendPktCount' = sendPktCount + 1
  /\ receivingAvaiableSlotCount' = receivingAvaiableSlotCount - 1

SendData(expired, resent) ==
  /\ MayRead /\ sendPktCount < NChunks
  /\ SendNew(create_packet_data(sendPktCount, SeqnumOfNext, sendPktCount),
             expired, resent)
  /\ UNCHANGED sender

\* Disconnecting at the end of the input whatever was acknowledged, and only
\* on an ACK that the receiver never sends.
MayDisconnect_AtEof      == TRUE
MayDisconnect_LastNumber == lastAckSeqnum = SeqnumOfNext - 1

\* read returned 0 and the last ACK asks for the packet after the last one.
MayDisconnect == lastAckSeqnum = SeqnumOfNext

SendDeco(expired, resent) ==
  /\ MayRead /\ sendPktCount = NChunks /\ MayDisconnect
  /\ SendNew(create_packet_deco(SeqnumOfNext, sendPktCount), expired, resent)
  /\ sender' = "disconnected"

SendNothingNew(expired, resent) ==
  /\ ~(MayRead /\ (sendPktCount < NChunks \/ MayDisconnect))
  /\ SendFwd(resent)
  /\ sendingTime' = Timed(sendingTime, expired)
  /\ UNCHANGED <<sender, sendingBuf, sendBufCount, sendPktCount,
                 receivingAvaiableSlotCount>>

\* The input branch: the slots found expired are resent, then the input is
\* read at most once.
PollInput(expired) ==
  /\ sender = "running" /\ pc = "poll" /\ StdinReadable
  /\ MayHaveExpired(expired)
  /\ \E resent \in Scans(expired) :
       \/ SendData(expired, resent)
       \/ SendDeco(expired, resent)
       \/ SendNothingNew(expired, resent)
  /\ pc' = IF rev # <<>> /\ sender' = "running" THEN "sock" ELSE "poll"
  /\ UNCHANGED <<lastAckSeqnum, updateSendingTimeCount, sendingWindow,
                 rev, faults>>

-----------------------------------------------------------------------------
\* The socket branch reads one datagram; with a pipe, the turn may have found
\* nothing to read in it.
ReadSocket ==
  /\ sender = "running" /\ rev # <<>>
  /\ pc = "sock" \/ InputKind = "pipe"
  /\ rev' = Tail(rev) /\ pc' = "poll"
  /\ UNCHANGED faults

\* Undecodable, or an acknowledgement with the TR bit: logged and dropped.
IgnoreAck ==
  /\ ReadSocket
  /\ ~pkt_decode(Head(rev)) \/ Head(rev).tr = 1
  /\ UNCHANGED <<sender, sendPktCount, sendingBuf, ackVars, fwd>>

\* An ACK read as including the packet it names, and one that is not looked
\* for behind the last slot of the window.
AckedCount_Inclusive(seqnum) ==
  LET index == find_pkt(seqnum, sendingWindow)
  IN  IF index = -1 /\ seqnum = SeqnumOfNext THEN MAX_WINDOW_SIZE
      ELSE IF index \in Slots THEN index + 1 ELSE index

AckedCount_WindowOnly(seqnum) == find_pkt(seqnum, sendingWindow)

\* How many slots the ACK frees; -1 when its number is not in the window.
AckedCount(seqnum) ==
  LET index == find_pkt(seqnum, sendingWindow)
  IN  IF index = -1 /\ seqnum = SeqnumOfNext THEN MAX_WINDOW_SIZE ELSE index

\* A loop that unsets one clock too many.
FreedSlots_OneMore(index) ==
  {(updateSendingTimeCount + j) % MAX_WINDOW_SIZE : j \in 0..index}

\* The slots that `index` turns of the loop free, from the oldest one on.
FreedSlots(index) ==
  {(updateSendingTimeCount + j) % MAX_WINDOW_SIZE : j \in 0..(index - 1)}

\* The loop `while(index != 0)` run to its end.
SlideSending(index) ==
  /\ sendBufCount' = sendBufCount - index
  /\ sendingWindow' = window_slides(sendingWindow, index)
  /\ sendingTime' = [i \in Slots |-> IF i \in FreedSlots(index) THEN NotArmed
                                     ELSE sendingTime[i]]
  /\ updateSendingTimeCount' = updateSendingTimeCount + index

\* With index = -1 the loop counts down from -1: it overflows its counters
\* and writes outside sendingTime, and the program is lost.
RunAway ==
  /\ sender' = "runaway"
  /\ UNCHANGED <<sendBufCount, sendingWindow, sendingTime,
                 updateSendingTimeCount>>

HandleAck ==
  /\ ReadSocket
  /\ LET m == Head(rev)
     IN  /\ pkt_decode(m) /\ m.tr = 0 /\ m.type = "ACK"
         /\ receivingAvaiableSlotCount' = m.window
         /\ lastAckSeqnum' = m.seqnum
         /\ \/ /\ \E index \in 0..MAX_WINDOW_SIZE :
                    index = AckedCount(m.seqnum) /\ SlideSending(index)
               /\ UNCHANGED sender
            \/ AckedCount(m.seqnum) = -1 /\ RunAway
  /\ UNCHANGED <<sendPktCount, sendingBuf, fwd>>

\* Every slot that holds the number, unfilled ones included, is sent again;
\* encoding an unfilled one crashes where malloc left a length and a pointer.
HandleNack ==
  /\ ReadSocket
  /\ LET m == Head(rev)
         slots == {i \in Slots : sendingBuf[i].seqnum = m.seqnum}
     IN  /\ pkt_decode(m) /\ m.tr = 0 /\ m.type = "NACK"
         /\ lastAckSeqnum' = m.seqnum
         /\ \/ /\ \E msgs \in Scans(slots) : SendFwd(msgs)
               /\ UNCHANGED sender
            \/ /\ GarbagePointers /\ \E i \in slots : i >= sendPktCount
               /\ sender' = "crashed" /\ UNCHANGED fwd
  /\ UNCHANGED <<sendPktCount, sendingBuf, sendBufCount, sendingWindow,
                 receivingAvaiableSlotCount, sendingTime,
                 updateSendingTimeCount>>

\* poll waited 5 s: the writer of the pipe was silent, which still has it
\* open, and nothing came from the link.
SenderTimeout ==
  /\ sender = "running" /\ pc = "poll" /\ InputKind = "pipe"
  /\ sender' = "timedout"
  /\ UNCHANGED <<pc, sendPktCount, sendingBuf, ackVars, linkVars>>

\* With an error pending poll reports POLLERR, which no branch tests: the loop
\* turns until the input branch writes or a datagram makes the socket branch
\* read, and that call fails.
MayWrite ==
  /\ StdinReadable
  /\ \/ \E i \in Slots : sendingTime[i] # NotArmed
     \/ MayRead /\ (sendPktCount < NChunks \/ MayDisconnect)

SenderRefused ==
  /\ sender = "unreachable" /\ (MayWrite \/ rev # <<>>)
  /\ sender' = "failed"
  /\ UNCHANGED <<pc, sendPktCount, sendingBuf, ackVars, linkVars>>
=============================================================================
