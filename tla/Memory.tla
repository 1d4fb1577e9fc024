------------------------------- MODULE Memory -------------------------------
(***************************************************************************)
(* The payloads that read_write_loop allocates.  thePkt is one structure   *)
(* for everything read or received; sendingBuf and receivingBuf copy it    *)
(* with its payload pointer, and pkt_set_payload allocates without freeing *)
(* what the pointer held.  heap maps a block to its content.  Which        *)
(* segments are due, acknowledged or resent is Trtp's subject: here any    *)
(* may be, of those the windows allow.  The header fields of thePkt are    *)
(* written before they are read by every handler and are left out, and so  *)
(* are the structures themselves, which no two pointers share, and the     *)
(* slots that malloc left non-zero, which are Receiver's FreeGarbage.      *)
(***************************************************************************)
EXTENDS Buffer, Codec

CONSTANTS Stream,   \* what the reads of the input return, in order
          NBlocks   \* bound: allocations that find a free block

ASSUME MemoryAssumption ==
  /\ Stream \in Seq(Seq(Seq(Nat)))
  /\ \A n \in DOMAIN Stream : Len(Stream[n]) \in 1..MAX_PAYLOAD_SIZE
  /\ NBlocks \in Nat

VARIABLES program,   \* "sender", "receiver" or "stopped"
          position,  \* chunks read, by the sender, or written, by the receiver
          buffer,    \* sendingBuf or receivingBuf
          payload,   \* thePkt->payload
          heap,
          buf_rcv,   \* beyond the header, which every datagram overwrites: the
                     \* end of earlier datagrams stays there
          arrival,   \* auxiliary: what became of the last datagram
          output,    \* auxiliary: the chunks that were sent or written
          misuse     \* auxiliary: a block that is not allocated was used

vars == <<program, position, buffer, payload, heap, buf_rcv, arrival, output, misuse>>

Blocks == 1..NBlocks
Free   == <<>>        \* no payload that is stored is empty
NULL   == 0
Unused == [nth |-> -1, payload |-> NULL]   \* a slot never filled, or NULL

Init ==
  /\ program \in {"sender", "receiver"}
  /\ position = 0
  /\ buffer = [i \in Slots |-> Unused]
  /\ payload = NULL
  /\ heap = [b \in Blocks |-> Free]
  /\ buf_rcv = [k \in (HEADER + 1)..MaxLen |-> <<0>>]
  /\ arrival = [accepted |-> FALSE, faithful |-> FALSE]
  /\ output = {}
  /\ misuse = FALSE

-----------------------------------------------------------------------------
(* malloc and free. *)

MayAllocate == \E b \in Blocks : heap[b] = Free
malloc == CHOOSE b \in Blocks :
            heap[b] = Free /\ \A c \in 1..(b - 1) : heap[c] # Free
Filled(mem, block, data) == [b \in Blocks |-> IF b = block THEN data ELSE mem[b]]

\* pkt_set_payload with the free that the code has commented out.
pkt_set_payload_Freeing(data) ==
  [payload |-> malloc, heap |-> Filled(Filled(heap, payload, Free), malloc, data)]

\* pkt_set_payload that reuses the block it finds.
pkt_set_payload_InPlace(data) ==
  LET b == IF payload = NULL THEN malloc ELSE payload
  IN  [payload |-> b, heap |-> Filled(heap, b, data)]

\* pkt_set_payload of thePkt with some data: always a block of its own, and
\* the one held before is left to whoever has a copy of the pointer.
pkt_set_payload(data) ==
  [payload |-> malloc, heap |-> Filled(heap, malloc, data)]

\* A handler uses payloads in turns; each reads one block, then frees one, and
\* NULL stands for none.
Turn(read, free) == [read |-> read, free |-> free]

\* mem after some of the turns.
After(mem, turns, done) ==
  [b \in Blocks |-> IF \E i \in done : turns[i].free = b THEN Free ELSE mem[b]]

\* mem when turn j begins.
Before(mem, turns, j) == After(mem, turns, {i \in DOMAIN turns : i < j})

\* All the turns, in order: a turn may not use what one before it freed.
Use(mem, turns) ==
  /\ heap' = After(mem, turns, DOMAIN turns)
  /\ misuse' = (misuse \/ \E j \in DOMAIN turns :
                            \E b \in {turns[j].read, turns[j].free} \ {NULL} :
                              Before(mem, turns, j)[b] = Free)

\* free_all: the structures in the buffers are freed without their payloads.
free_all(thePkt) ==
  /\ program' = "stopped"
  /\ payload' = NULL
  /\ Use(thePkt.heap, <<Turn(NULL, thePkt.payload)>>)

Now == [payload |-> payload, heap |-> heap]

\* poll times out, or a call fails.
GiveUp ==
  /\ program # "stopped"
  /\ free_all(Now)
  /\ UNCHANGED <<position, buffer, buf_rcv, arrival, output>>

-----------------------------------------------------------------------------
(* The sender. *)

Segment(type, nth) ==
  [type |-> type, tr |-> 0, window |-> MAX_WINDOW_SIZE, seqnum |-> nth % SeqSpace,
   payload |-> IF type = PTYPE_DATA /\ nth < Len(Stream) THEN Stream[nth + 1] ELSE <<>>]

\* A chunk is read, copied into sendingBuf with its payload, and sent.
SendData ==
  /\ program = "sender" /\ position < Len(Stream) /\ MayAllocate
  /\ LET thePkt == pkt_set_payload(Stream[position + 1])
     IN  /\ payload' = thePkt.payload
         /\ buffer' = [buffer EXCEPT ![position % MAX_WINDOW_SIZE] =
                         [nth |-> position, payload |-> thePkt.payload]]
         /\ output' = output \cup {<<position, thePkt.heap[thePkt.payload]>>}
         /\ Use(thePkt.heap, <<Turn(thePkt.payload, NULL)>>)
  /\ position' = position + 1
  /\ UNCHANGED <<program, buf_rcv, arrival>>

\* At the end of the input: pkt_set_payload(NULL, 0) frees the payload that
\* thePkt shares with a slot of sendingBuf, and the program leaves.
SendDeco ==
  /\ program = "sender" /\ position = Len(Stream)
  /\ free_all(Now)
  /\ buffer' = [buffer EXCEPT ![position % MAX_WINDOW_SIZE] =
                  [nth |-> position, payload |-> NULL]]
  /\ UNCHANGED <<position, buf_rcv, arrival, output>>

\* pkt_encode of some slots of sendingBuf.
Resend(slots) ==
  /\ output' = output \cup {<<buffer[i].nth, heap[buffer[i].payload]>> : i \in slots}
  /\ Use(heap, [i \in slots |-> Turn(buffer[i].payload, NULL)])
  /\ UNCHANGED <<program, position, buffer, payload>>

InUse == {i \in Slots : buffer[i] # Unused}

Timeout ==
  /\ program = "sender"
  /\ \E i \in InUse : Resend({i})
  /\ UNCHANGED <<buf_rcv, arrival>>

\* read puts datagram over what buf_rcv holds; pkt_decode gets both.
Read(datagram) ==
  [k \in 1..MaxLen |-> IF k <= Len(datagram) THEN datagram[k] ELSE buf_rcv[k]]
Take(datagram, sent, d) ==
  /\ buf_rcv' = [k \in DOMAIN buf_rcv |-> Read(datagram)[k]]
  /\ arrival' = [accepted |-> d.status = "PKT_OK",
                  faithful |-> /\ d.type = sent.type /\ d.seqnum = sent.seqnum
                               /\ \/ d.payload = sent.payload
                                  \/ d.tr = 1 /\ d.payload = <<>>]

\* An ACK or a NACK: thePkt keeps the payload it had.  A NACK that is accepted
\* makes the sender resend every slot of its sequence number.
ReceiveControl(sent, datagram) ==
  /\ program = "sender"
  /\ LET d == pkt_decode(Read(datagram), Len(datagram))
     IN  /\ Take(datagram, sent, d)
         /\ Resend(IF d.status = "PKT_OK" /\ d.tr = 0 /\ d.type = PTYPE_NACK
                   THEN {i \in InUse : buffer[i].nth % SeqSpace = d.seqnum} ELSE {})

-----------------------------------------------------------------------------
(* The receiver. *)

\* Discarded, answered by a NACK, or outside of the window: what pkt_decode
\* allocated stays with thePkt.
Keep(thePkt) ==
  /\ payload' = thePkt.payload
  /\ Use(thePkt.heap, <<>>)
  /\ UNCHANGED <<program, position, buffer, output>>

\* The packet at index 0 is written, then the d stored behind it, and after
\* each fwrite the slide deletes the packet of slot 0, which by turn j is the
\* one that slot j held.
WriteInOrder(thePkt, d) ==
  LET turns == [j \in 0..d |-> Turn(IF j = 0 THEN thePkt.payload ELSE buffer[j].payload,
                                    buffer[j].payload)]
  IN  /\ payload' = thePkt.payload
      /\ output' = output \cup
           {<<position + j, Before(thePkt.heap, turns, j)[turns[j].read]>> : j \in 0..d}
      /\ Use(thePkt.heap, turns)
      /\ buffer' = update_bufs(buffer, Unused, d + 1)
      /\ position' = position + d + 1
      /\ UNCHANGED program

\* The packet of the slot, a copy of this one perhaps, is deleted first.
Store(thePkt, nth, index) ==
  /\ payload' = thePkt.payload
  /\ buffer' = [buffer EXCEPT ![index] = [nth |-> nth, payload |-> thePkt.payload]]
  /\ Use(thePkt.heap, <<Turn(NULL, buffer[index].payload)>>)
  /\ UNCHANGED <<program, position, output>>

\* How many packets are stored, without a gap, from slot 1 on.
InOrder == CHOOSE d \in Slots : /\ 1..d \subseteq InUse
                                /\ d + 1 \in Slots => d + 1 \notin InUse

Receive(nth, datagram) ==
  /\ program = "receiver" /\ MayAllocate
  /\ LET d == pkt_decode(Read(datagram), Len(datagram))
         thePkt == IF d.payload = <<>> THEN Now ELSE pkt_set_payload(d.payload)
         index  == find_pkt(d.seqnum, [i \in Slots |-> (position + i) % SeqSpace])
         isData == d.status = "PKT_OK" /\ d.tr = 0
     IN  /\ Take(datagram, Segment(PTYPE_DATA, nth), d)
         /\ \/ /\ ~isData \/ (d.payload # <<>> /\ index = -1)
               /\ Keep(thePkt)
            \/ /\ isData /\ d.payload = <<>>
               /\ free_all(thePkt)
               /\ UNCHANGED <<position, buffer, output>>
            \/ /\ isData /\ d.payload # <<>> /\ index = 0
               /\ WriteInOrder(thePkt, InOrder)
            \/ /\ isData /\ d.payload # <<>> /\ index > 0
               /\ Store(thePkt, nth, index)

-----------------------------------------------------------------------------
\* A DATA segment the receiver may meet: one of the window before, which it
\* has written, one of its own, or the disconnection, after the last chunk.
Expected(nth) ==
  /\ nth \in (position - MAX_WINDOW_SIZE)..(position + MAX_WINDOW_SIZE - 1)
  /\ nth = Len(Stream) => position = nth

Next ==
  \/ GiveUp \/ SendData \/ SendDeco \/ Timeout
  \/ \E type \in {PTYPE_ACK, PTYPE_NACK}, nth \in 0..position :
       LET sent == Segment(type, nth)
       IN  \E datagram \in Arriving(pkt_encode(sent)) : ReceiveControl(sent, datagram)
  \/ \E nth \in 0..Len(Stream) :
       /\ Expected(nth)
       /\ \E datagram \in Arriving(pkt_encode(Segment(PTYPE_DATA, nth))) :
            Receive(nth, datagram)

Spec == Init /\ [][Next]_vars

-----------------------------------------------------------------------------
\* Every pointer is NULL or to a block, and no more chunks are counted than
\* there are.
TypeOK == /\ program \in {"sender", "receiver", "stopped"}
          /\ position \in 0..Len(Stream)
          /\ buffer \in [Slots -> [nth : -1..Len(Stream), payload : Blocks \cup {NULL}]]
          /\ payload \in Blocks \cup {NULL} /\ DOMAIN heap = Blocks

Allocated(block) == block \in Blocks /\ heap[block] # Free

\* The block of a slot holds the chunk that the slot is for.
Holds(slot) == /\ slot.nth \in 0..(Len(Stream) - 1)
               /\ Allocated(slot.payload)
               /\ heap[slot.payload] = Stream[slot.nth + 1]

\* Who owns a block: thePkt, a slot, or thePkt and the slot it was copied to
\* last (read_write_loop.c:233, :422).  The sender's slots hold chunks it has
\* read, the receiver's the chunk missing at their distance, in blocks that no
\* two of them share, since each is freed with its slot.
Ownership ==
  /\ payload = NULL \/ Allocated(payload)
  /\ program = "sender" =>
       \A i \in InUse : Holds(buffer[i]) /\ buffer[i].nth < position
  /\ program = "receiver" =>
       /\ 0 \notin InUse
       /\ \A i \in InUse : Holds(buffer[i]) /\ buffer[i].nth = position + i
       /\ \A i, j \in InUse : buffer[i].payload = buffer[j].payload => i = j

\* With NoMisuse and PayloadIntact, the inductive invariant of MemoryProofs.
MemoryInv == TypeOK /\ Ownership

\* No payload is read or freed unless it is allocated: none is freed twice,
\* sent after it was freed or written to the file after it was freed, although
\* thePkt and the buffers share pointers (read_write_loop.c:233, :422).
NoMisuse == ~misuse

\* What is sent again is the chunk that was read under its number, and the
\* chunk written at a position is the one that was read there: no later packet
\* changes a payload that a slot still points to.
PayloadIntact == \A chunk \in output : chunk[2] = Stream[chunk[1] + 1]

\* What pkt_decode accepts is the packet that was sent, with its payload or,
\* when TR says so, without: never with bytes that an earlier datagram left in
\* buf_rcv beyond a shorter one (packet_implem.c:90-156).
AcceptedIsSent == arrival.accepted => arrival.faithful
=============================================================================
