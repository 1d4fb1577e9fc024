------------------------------ MODULE Receiver ------------------------------
(***************************************************************************)
(* read_write_loop as the receiver program runs it (receiver.c: readFd is  *)
(* -1, so only the socket is polled), behind wait_for_client, which blocks *)
(* until a first datagram is there and leaves it unread.                   *)
(***************************************************************************)
EXTENDS Link

CONSTANTS MaxSlotDebt   \* bound: how far below 0 receivingEmptySlot falls

ASSUME ReceiverAssumption == MaxSlotDebt \in Nat

VARIABLES receiver, receivingWindow, binaryReceivingBuf, receivingBuf,
          receivingEmptySlot, lastAck, ackWindow, writeFile

\* ackWindow is the window field of thePkt_ack, which survives from one ACK
\* to the next; writeFile is what fwrite was given, chunk by chunk.
storeVars    == <<receivingWindow, binaryReceivingBuf, receivingBuf,
                  receivingEmptySlot, lastAck, writeFile>>
receiverVars == <<receiver, ackWindow, storeVars>>

\* A slot of receivingBuf holds a packet, NULL, or what malloc left in it.
NULL   == [slot |-> "NULL"]
Uninit == [slot |-> "Uninit"]

\* As the sender's, behind wait_for_client; "refused" is the failed read.
ReceiverStatus == {"waiting", "running", "unreachable", "disconnected",
                   "timedout", "refused", "crashed"}
ReceiverExited == receiver \notin {"waiting", "running", "unreachable"}

ReceiverTypeOK ==
  /\ receiver \in ReceiverStatus
  /\ receivingWindow \in [Slots -> Seqnums]
  /\ binaryReceivingBuf \in [Slots -> {0, 1}]
  /\ receivingBuf \in [Slots -> Packets \cup {NULL, Uninit}]
  /\ receivingEmptySlot \in Int /\ lastAck \in Seqnums
  /\ ackWindow \in 0..MAX_WINDOW_SIZE
  /\ writeFile \in Seq(Chunks)

ReceiverInit ==
  /\ receiver = "waiting"
  /\ receivingWindow = [i \in Slots |-> i]
  /\ binaryReceivingBuf = [i \in Slots |-> 0]
  /\ receivingBuf = [i \in Slots |-> Uninit]
  /\ receivingEmptySlot = MAX_WINDOW_SIZE
  /\ lastAck = 0 /\ ackWindow = 0 /\ writeFile = <<>>

-----------------------------------------------------------------------------
Listening == receiver \in {"waiting", "running"}

\* One turn of the loop: the socket is readable and one datagram is read.
ReadDatagram == /\ Listening /\ fwd # <<>>
                /\ fwd' = Tail(fwd)
                /\ UNCHANGED faults

IsData(m) == pkt_decode(m) /\ m.tr = 0 /\ m.type = "DATA"

\* Undecodable, or a type no branch handles: dropped.
IgnoreDatagram ==
  /\ ReadDatagram
  /\ \/ ~pkt_decode(Head(fwd))
     \/ Head(fwd).tr = 0 /\ Head(fwd).type = "NONE"
  /\ receiver' = "running"
  /\ UNCHANGED <<ackWindow, storeVars, rev>>

\* A packet that decodes although its TR bit is set asks for a NACK.
SendNack ==
  /\ ReadDatagram
  /\ LET m == Head(fwd)
     IN  /\ pkt_decode(m) /\ m.tr = 1 /\ m.type \notin {"ACK", "NACK"}
         /\ SendRev(create_packet_nack(m.seqnum, m.nth))
  /\ receiver' = "running"
  /\ UNCHANGED <<ackWindow, storeVars>>

\* An empty DATA packet disconnects, whatever its sequence number.
Disconnect ==
  /\ ReadDatagram
  /\ IsData(Head(fwd)) /\ Head(fwd).payload = NoPayload
  /\ receiver' = "disconnected"
  /\ UNCHANGED <<ackWindow, storeVars, rev>>

\* The ACK names the packet after lastAck and announces emptySlot; nth counts
\* the chunks written when it leaves.
SendAck(last, emptySlot, written) ==
  /\ ackWindow' = pkt_set_window(ackWindow, emptySlot)
  /\ SendRev(create_packet_ack((last + 1) % SeqSpace, ackWindow', written))
  /\ receiver' = "running"

ReceiveData(index) ==
  /\ ReadDatagram
  /\ IsData(Head(fwd)) /\ Head(fwd).payload # NoPayload
  /\ index = find_pkt(Head(fwd).seqnum, receivingWindow)

\* A duplicate that is dropped without repeating the ACK.
AckOutOfWindow_Silent ==
  /\ ReceiveData(-1)
  /\ receiver' = "running"
  /\ UNCHANGED <<ackWindow, storeVars, rev>>

\* index = -1: nothing is kept, the last ACK is repeated.
AckOutOfWindow ==
  /\ ReceiveData(-1)
  /\ SendAck(lastAck, receivingEmptySlot, Len(writeFile))
  /\ UNCHANGED storeVars

\* A receiver that never looks at the packets stored behind the one it writes.
Drains_Never(d) == d = 0

\* d stored packets follow the one at index 0 without a gap: the turns of the
\* loop `while(binaryReceivingBuf[j] == 1)`.
Drains(d) ==
  /\ \A i \in 1..d : binaryReceivingBuf[i] = 1
  /\ d + 1 \in Slots => binaryReceivingBuf[d + 1] = 0

\* index = 0: the packet is written, the window slides, and every stored
\* packet that is now next is written in turn and gives its slot back.
WriteInOrder ==
  /\ ReceiveData(0)
  /\ \E d \in Slots :
       /\ Drains(d)
       /\ writeFile' = Append(writeFile, Head(fwd).payload)
                         \o [j \in 1..d |-> receivingBuf[j].payload]
       /\ lastAck' = IF d = 0 THEN Head(fwd).seqnum ELSE receivingBuf[d].seqnum
       /\ receivingWindow' = window_slides(receivingWindow, d + 1)
       /\ binaryReceivingBuf' = update_bufs(binaryReceivingBuf, 0, d + 1)
       /\ receivingBuf' = update_bufs(receivingBuf, NULL, d + 1)
       /\ receivingEmptySlot' = receivingEmptySlot + d
  /\ SendAck(lastAck', receivingEmptySlot', Len(writeFile'))

\* A stored packet that is not counted.
StoreOutOfOrder_NotCounted ==
  \E index \in Slots \ {0} :
    /\ ReceiveData(index)
    /\ receivingBuf' = [receivingBuf EXCEPT ![index] = Head(fwd)]
    /\ binaryReceivingBuf' = [binaryReceivingBuf EXCEPT ![index] = 1]
    /\ SendAck(lastAck, receivingEmptySlot, Len(writeFile))
    /\ UNCHANGED <<receivingWindow, lastAck, writeFile, receivingEmptySlot>>

\* index > 0: the packet replaces whatever the slot held and is counted as
\* one slot less even when the slot held the same packet already.
StoreOutOfOrder ==
  \E index \in Slots \ {0} :
    /\ ReceiveData(index)
    /\ receivingEmptySlot > -MaxSlotDebt
    /\ receivingBuf' = [receivingBuf EXCEPT ![index] = Head(fwd)]
    /\ receivingEmptySlot' = receivingEmptySlot - 1
    /\ binaryReceivingBuf' = [binaryReceivingBuf EXCEPT ![index] = 1]
    /\ SendAck(lastAck, receivingEmptySlot', Len(writeFile))
    /\ UNCHANGED <<receivingWindow, lastAck, writeFile>>

\* Sliding the buffer and storing in it free the packet the slot held; in a
\* slot never filled the pointer freed is what malloc left there.
FreeGarbage ==
  /\ GarbagePointers
  /\ \E index \in Slots :
       /\ ReceiveData(index) /\ receivingBuf[index] = Uninit
       /\ writeFile' = IF index = 0
                       THEN Append(writeFile, Head(fwd).payload)
                       ELSE writeFile
  /\ receiver' = "crashed"
  /\ UNCHANGED <<ackWindow, receivingWindow, binaryReceivingBuf, receivingBuf,
                 receivingEmptySlot, lastAck, rev>>

\* With an error pending on its socket the receiver has nothing to wait for in
\* poll and reads only when a datagram is there; that read fails.
ReceiverRefused ==
  /\ receiver = "unreachable" /\ fwd # <<>>
  /\ receiver' = "refused"
  /\ UNCHANGED <<ackWindow, storeVars, linkVars>>
=============================================================================
