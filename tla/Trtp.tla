-------------------------------- MODULE Trtp --------------------------------
(***************************************************************************)
(* A transfer: the sender program, the receiver program and the link       *)
(* between them.  Each step is one step of one of the two loops, one fault *)
(* of the link, the clock passing RTO for a slot, or a poll that waited    *)
(* five seconds for nothing.                                               *)
(***************************************************************************)
EXTENDS Sender, Receiver, FiniteSets

CONSTANTS PatientTimers,  \* TRUE: RTO is longer than any round trip
          PatientPoll,    \* TRUE: a live sender is heard of every 5 s
          DirectLink      \* TRUE: no link_sim, a dead peer's kernel refuses

ASSUME TimingAssumption ==
  PatientTimers \in BOOLEAN /\ PatientPoll \in BOOLEAN /\ DirectLink \in BOOLEAN

vars == <<senderVars, receiverVars, linkVars>>

Init == LinkInit /\ SenderInit /\ ReceiverInit

-----------------------------------------------------------------------------
\* With patient timers no slot expires while a copy of its packet or any ACK
\* is under way.
TimersAllow(expired) ==
  PatientTimers =>
    \A i \in expired : /\ rev = <<>>
                       /\ \A j \in DOMAIN fwd : fwd[j].nth # sendingBuf[i].nth

PollStep(expired) == /\ TimersAllow(expired) /\ PollInput(expired)
                     /\ UNCHANGED receiverVars

\* A round trip may take longer than poll waits unless PatientPoll.
PollTimeout == SenderTimeout /\ (PatientPoll => fwd = <<>> /\ rev = <<>>)

SocketStep == /\ \/ IgnoreAck \/ HandleAck \/ HandleNack
                 \/ PollTimeout \/ SenderRefused
              /\ UNCHANGED receiverVars

SenderStep == SocketStep \/ \E expired \in SUBSET Slots : PollStep(expired)

ReceiverStep ==
  /\ \/ IgnoreDatagram \/ SendNack \/ Disconnect
     \/ AckOutOfWindow \/ WriteInOrder \/ StoreOutOfOrder \/ FreeGarbage
     \/ ReceiverRefused
  /\ UNCHANGED senderVars

\* The receiver's poll waited five seconds, which it only does once connected.
ReceiverTimeout ==
  /\ receiver = "running"
  /\ PatientPoll => SenderExited /\ fwd = <<>>
  /\ receiver' = "timedout"
  /\ UNCHANGED <<ackWindow, storeVars, senderVars, linkVars>>

\* A segment reaches a program that has exited.  On a direct link the kernel
\* answers that the port is closed, an error that stays on the writer's socket
\* until a call on it fails; link_sim passes nothing of the kind on.
ReachClosedReceiver ==
  /\ ReceiverExited /\ fwd # <<>>
  /\ fwd' = Tail(fwd)
  /\ sender' = IF DirectLink /\ sender = "running" THEN "unreachable"
               ELSE sender
  /\ UNCHANGED <<pc, sendPktCount, sendingBuf, ackVars, receiverVars, rev,
                 faults>>

ReachClosedSender ==
  /\ SenderExited /\ rev # <<>>
  /\ rev' = Tail(rev)
  /\ receiver' = IF DirectLink /\ receiver = "running" THEN "unreachable"
                 ELSE receiver
  /\ UNCHANGED <<ackWindow, storeVars, senderVars, fwd, faults>>

LinkFault ==
  /\ faults < MaxFaults /\ faults' = faults + 1
  /\ \/ fwd # <<>> /\ Injected(fwd, fwd', FwdFaults) /\ UNCHANGED rev
     \* what the turn's poll has seen is already in the sender's socket
     \/ /\ rev # <<>> /\ (pc = "sock" => Len(rev) > 1)
        /\ Injected(rev, rev', RevFaults) /\ UNCHANGED fwd
  /\ UNCHANGED <<senderVars, receiverVars>>

Next ==
  \/ SenderStep \/ ReceiverStep \/ ReceiverTimeout
  \/ ReachClosedReceiver \/ ReachClosedSender
  \/ LinkFault

Spec == Init /\ [][Next]_vars

\* Both loops keep turning, since the programs block only in poll and a
\* regular file never lets the sender's poll block; and the clock keeps
\* running, so that scans that could find a slot expired do find it so.  That
\* the writer of a pipe is silent for five seconds need never happen.
Fairness ==
  /\ WF_vars(SenderStep /\ sender' # "timedout") /\ WF_vars(ReceiverStep)
  /\ SF_vars(\E expired \in (SUBSET Slots) \ {{}} : PollStep(expired))
  /\ WF_vars(ReceiverTimeout)
  /\ WF_vars(ReachClosedReceiver) /\ WF_vars(ReachClosedSender)

FairSpec == Spec /\ Fairness

-----------------------------------------------------------------------------
TypeOK == LinkTypeOK /\ SenderTypeOK /\ ReceiverTypeOK

\* The file holds the chunks of the input, each once and in order.
InOrder == writeFile = [j \in 1..Len(writeFile) |-> j - 1]

\* A buffer slot is given up only when its packet is in the file.
AckedIsWritten == updateSendingTimeCount <= Len(writeFile)

\* The sender leaves by the disconnection branch, and the receiver by following
\* a disconnection request, only when the file is complete
\* (read_write_loop.c:181-219, 326-331).
CompleteWhenDisconnected ==
  "disconnected" \in {sender, receiver} => Len(writeFile) = NChunks

\* What a program's caller is told: main returns EXIT_SUCCESS after every
\* return of read_write_loop, so only a signal says otherwise.
ExitStatus(status) ==
  CASE status \in {"waiting", "running", "unreachable"} -> "none"
    [] status \in {"runaway", "crashed"} -> "signal"
    [] OTHER -> "EXIT_SUCCESS"

\* A program that reports success leaves a complete file
\* (test.sh:28-29, 40-42).
SuccessIsComplete ==
  "EXIT_SUCCESS" \in {ExitStatus(sender), ExitStatus(receiver)}
    => Len(writeFile) = NChunks

\* read_write_loop.c:462-468: the loop that slides the sending window ends.
NoRunaway == sender # "runaway"

\* What the sender keeps agrees with what it sent and what was acknowledged:
\* the window starts at the oldest unacknowledged packet, exactly the packets
\* in flight are timed, and each is still in its slot to be resent.
SendWindowConsistent ==
  sender \in {"running", "timedout"} =>
    /\ sendPktCount = updateSendingTimeCount + sendBufCount
    /\ sendBufCount \in 0..MAX_WINDOW_SIZE
    /\ \A i \in Slots :
         sendingWindow[i] = (updateSendingTimeCount + i) % SeqSpace
    /\ \A i \in Slots :
         LET k == updateSendingTimeCount + i
             slot == k % MAX_WINDOW_SIZE
         IN  IF k < sendPktCount
             THEN sendingTime[slot] # NotArmed /\ sendingBuf[slot].nth = k
                  /\ sendingBuf[slot].seqnum = k % SeqSpace
             ELSE sendingTime[slot] = NotArmed

\* A slot marked as occupied holds the very chunk that the file lacks at that
\* distance, and the slot at index 0 is never occupied.
StoreConsistent ==
  receiver # "crashed" =>
  /\ binaryReceivingBuf[0] = 0
  /\ \A i \in Slots :
       /\ receivingWindow[i] = (Len(writeFile) + i) % SeqSpace
       /\ binaryReceivingBuf[i] = 1 =>
            /\ receivingBuf[i] \in Packets
            /\ receivingBuf[i].payload = Len(writeFile) + i

\* Eight bits of sequence number suffice: the receiver never takes a packet of
\* one lap for the packet of another.
NoAliasing ==
  receiver # "crashed" =>
  \A j \in DOMAIN fwd :
    LET index == find_pkt(fwd[j].seqnum, receivingWindow)
    IN  fwd[j].type = "DATA" /\ index # -1 =>
          fwd[j].nth = Len(writeFile) + index

\* The window that the last ACK announced leaves room for the packets that are
\* stored (read_write_loop.c:393, 424; create_packet.c:152).
AnnouncedIsFree ==
  ackWindow + Cardinality({i \in Slots : binaryReceivingBuf[i] = 1})
     <= MAX_WINDOW_SIZE

\* The transfer as Transfer promises it: chunks counted by sendPktCount, of
\* which the disconnection request is no chunk.
EndOf(status) == CASE status \in {"waiting", "running", "unreachable"} -> "up"
                   [] status = "disconnected" -> "closed"
                   [] OTHER -> "gone"

Abstract == INSTANCE Transfer WITH
  N <- NChunks, Window <- MAX_WINDOW_SIZE,
  sent <- IF sendPktCount > NChunks THEN NChunks ELSE sendPktCount,
  file <- writeFile,
  senderEnd <- EndOf(sender), receiverEnd <- EndOf(receiver)

ImplementsTransfer == Abstract!Spec

-----------------------------------------------------------------------------
\* Both programs leave by the disconnection: the sender requests it and the
\* receiver follows.
CleanEnd == <>(sender = "disconnected" /\ receiver = "disconnected")

\* The whole input reaches the file (test.sh:51-58 compares them).
TransferCompletes == <>(Len(writeFile) = NChunks)

\* The sender's loop returns (read_write_loop.h:7).
SenderReturns == <>SenderExited

\* Neither program is left running.
BothEnd == <>(SenderExited /\ ReceiverExited)
=============================================================================
