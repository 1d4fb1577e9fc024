# TRTP file transfer: models, checks and proofs

The repository holds two C programs, `sender` and `receiver`, which copy a
file over UDP with a selective-repeat protocol (TRTP), and `link_sim`, a relay
that makes the network lossy for tests. This directory models the two programs,
the bytes and the memory of their segments, `link_sim` and its delay queue in
TLA+, checks the models with TLC on small instances, and proves with TLAPS
what they promise for every value of their parameters.

## Inventory of the system

| Component | Source | State | Operations |
|---|---|---|---|
| Window and buffer helpers | `src/buffer.c`, `buffer.h` | none of its own (arrays of the caller) | `find_pkt`, `window_slide`, `update_binaryReceivingBuf`, `update_receivingBuf`, `create_storage_buffer` |
| Sender program | `src/read_write_loop.c` with a file descriptor to read, `sender.c` | `sendPktCount`, `sendBufCount`, `receivingAvaiableSlotCount`, `lastAckSeqnum`, `updateSendingTimeCount`, `sendingWindow`, `sendingTime`, `sendingBuf` | resend on RTO, read and send a chunk, disconnect at the end of the input, handle ACK, handle NACK, ignore, time out, fail on a refused write or read |
| Receiver program | `src/read_write_loop.c` with a file to write, `receiver.c`, `wait_for_client.c` | `receivingWindow`, `binaryReceivingBuf`, `receivingBuf`, `receivingEmptySlot`, `lastAck`, the window field kept in `thePkt_ack`, the file | wait for the first datagram, write in order and drain, store out of order, repeat an ACK, send a NACK, disconnect, ignore, time out, fail on a refused read |
| Segments | `src/create_packet.c`, `packet_implem.c` | a `struct pkt` and its payload | setters, `pkt_encode`, `pkt_decode` |
| Link simulator | `link_sim.c` | `last_clock`, `pkt_queue`, `src_addr`, options | wait, deliver what has expired, take a datagram, drop, cut, corrupt, delay or relay it |
| Delay queue | `min_queue.c` | `e`, `size`, `alloc` | `minq_new`, `minq_push`, `minq_pop`, `minq_peek` |
| Command line, sockets | `sender.c`, `receiver.c`, `create_socket.c`, `real_address.c` | descriptors | set-up |

The programs share no memory: the two ends interact by datagrams, which
`link_sim` may lose, damage, truncate or reorder in either direction (`-r`,
`-R`). Each is a single-threaded loop around `poll` or `select`. What is hard:

- every sequence number is the position of a packet modulo 256, compared for
  equality with the 31 numbers of a window kept as an array;
- each end infers the other's state from numbers that were true when they were
  sent: a free slot count, "the packet I expect next";
- a turn of the sender's loop polls once and then does two things;
- retransmission and disconnection happen only when the input is readable;
- the sender leaves as soon as it has sent the disconnection request;
- an error of `poll` is not looked at, and a program that gives up reports the
  same exit status as one that is done;
- memory is taken from `malloc` and used as if it had been cleared;
- packets are copied with the pointer to their payload, which several copies
  then share with the one structure that everything is read into;
- `pkt_decode` reads a buffer that holds the end of earlier datagrams;
- `link_sim` compares dates whose microseconds may exceed a second, waits on a
  difference it does not always normalise, and caches the time of its turn;
- the heap is laid out from index 0 with `LCHILD(0) = 0`.

`PROJECT.json` lists each of these as a hazard with its line and the
properties aimed at it.

Per component, what makes it correct: the helpers compute the window n
positions on and find a number in the slot of its position; the sender's
counters, window, clocks and buffer describe the same set of packets in
flight; the receiver's store holds exactly what the file lacks at each
distance, and the window it announces leaves room for them; segments carry
what their numbers say; together, the file is a prefix of the input, no packet
is given up before it is written, an end that leaves by the disconnection
leaves a complete file, and both programs end; a payload in a slot is allocated and unchanged until the
slot is given up, and what decodes is what was encoded; the delay queue gives
out a minimal element; `link_sim` passes each datagram on once at most, to the
right one of two hosts, and near its date.

## Modules

- `Buffer`, `Packet`, `Link`: the helpers, the segments, and the two channels
  with the faults that the link may inject.
- `Sender`, `Receiver`: `read_write_loop` as each of the two programs runs it.
  One action per branch of the loop. Names are the source's.
- `Trtp`: the two programs over the link, the time-outs, what happens to a
  segment for a program that has exited, the exit status, the properties.
- `Transfer`: the abstract specification: chunks are sent no more than a
  window ahead of the file, the file grows by the next chunks, the sender and
  then the receiver close when it is complete, or an end gives up.
- `TrtpInv`: the inductive invariant; `Timely`, which says that nothing is
  read after its number has come round; `Room`, when there are enough numbers
  for that.
- `Codec`, `Memory`: `pkt_encode` and `pkt_decode` field by field, and the
  payloads that either program allocates, shares and frees. `Memory` composes
  `Buffer` and `Codec`.
- `LinkSim`: `link_sim` as a program with a clock. `Relay`: what it is to the
  ends; `LinkSim` implements it.
- `MinQueue`: the heap, a step per iteration of its loops. `PriorityQueue`:
  what `min_queue.h` promises; `MinQueue` implements it.
- `MCMinQueue`, `MCLinkSim`, `MCMemory`: values of constants for the runs.
- `BufferProofs`, `TrtpTypes`, `SenderProofs`, `ReceiverProofs`, `TrtpProofs`,
  `MemoryProofs`, `MinQueueProofs`, `LinkSimProofs`: theorems and proofs.

How they fit: `Trtp` needs of the link only the faults of `Link`. Each is an
outcome that `Relay` allows a datagram (lost, cut, a byte inverted, delivered
late), and `LinkSim` implements `Relay` over the queue that `MinQueue` shows
`min_queue.c` to be. Of the segments `Trtp` needs whether they decode; `Codec`
says which do, and `Memory` that a payload is still what it was when it is
sent again or written.

### How state and actions correspond to the code

The bytes of a segment are abstracted to the header fields that the loop
branches on, the chunk of the input a payload stands for, and whether the
bytes pass `pkt_decode`. `nth`, the position that `seqnum` abbreviates, is an
auxiliary field: no guard reads it, except `TimersAllow`, which states an
assumption on time.

Sender. `PollInput` is the branch `fds[0].revents & POLLIN` of one turn: the
scan for expired slots, then at most one of `SendData`, `SendDeco` and
nothing. `pc` records whether the poll of that turn had also seen a datagram;
`IgnoreAck`, `HandleAck`, `HandleNack` are the branch `fds[1].revents &
POLLIN` of the same turn. With a pipe (`InputKind = "pipe"`) the input branch
may not run at all. The loop `while(index != 0)` of lines 462-468 is one
action with the closed form of its `index` iterations; `index = -1` is
`RunAway`, a state of its own, since the iterations then write out of bounds.
`sendingTime` keeps the order in which slots were last written and `NotArmed`
for the code's 0: a slot may expire only together with all older ones.
`PollTimeout` is the return of lines 143-147, which only a pipe whose writer is
silent allows.

Receiver. "waiting" is `wait_for_client`. `WriteInOrder` is the branch `index
== 0` including the drain loop, whose number of turns is d; `StoreOutOfOrder`
the branch `index > 0`, `AckOutOfWindow` the branch `index == -1`.
`ackWindow` is the window field that survives in `thePkt_ack` when
`pkt_set_window` refuses a value. `FreeGarbage` is the crash of `pkt_del` on
an uninitialised pointer (only if `GarbagePointers`).

How a program ends. `sender` and `receiver` name the return by which it left
the loop: "disconnected" for lines 181-219 and 326-331, "timedout", "failed" or
"refused" for a call that failed; "runaway" and "crashed" are not returns.
`ExitStatus` is what `main` makes of it: `EXIT_SUCCESS` for every return
(`sender.c:79`, `receiver.c:84`). None of the properties takes the exit status
for success but `SuccessIsComplete`, which is false.

A closed port. On a direct link a datagram for a program that has exited is
answered by the kernel of its host, and the error stays on the writer's
socket: the status "unreachable" (`ReachClosedReceiver`, `ReachClosedSender`).
`poll` then returns `POLLERR` at once, so that it never times out, and lines
148 and 262 test `POLLIN` only. The program goes on turning until it writes,
because a slot expired, there is a chunk to read or the disconnection is due
(`MayWrite`), or until another datagram makes it read; that call fails and the
program leaves (`SenderRefused`, `ReceiverRefused`). An end that has neither
spins for ever. `link_sim` is not connected and passes no such error on.

Approximations, each a superset of what the code does unless it says bound: a
fault may strike the segment next to be delivered at any moment; RTO may elapse
at any moment for any set of slots closed under age; a program may meet dirty
or clean memory from `malloc`.

Approximations that leave something out: a slot of `sendingBuf` that was never
filled holds a number of `GarbageSeqnums`, a type of `GarbageTypes` ("NONE"
where the memory is zero, or also "DATA") and no length; what else `malloc` may
have left there (the other types, a TR bit, a length with a wild pointer) is
represented by the crash that `GarbagePointers` allows when such a slot is
sent. A port found closed while the sender is in the middle of a turn counts as
found after it.

Segments. A datagram is a sequence of cells: type, TR and window; seqnum;
length; timestamp; CRC1; one per unit of payload; CRC2. The CRC is taken to
tell any two contents apart, which CRC-32 does for the one inverted byte that
`link_sim` produces. `buf_rcv` keeps what earlier datagrams left beyond the
one read, which is what `pkt_decode` finds when it reads too far.

Memory. `heap` maps blocks to contents. A handler uses payloads in turns, each
of which reads one block and then frees one: a drain is one turn per packet,
`fwrite` and then `pkt_del` of slot 0 as in lines 362-394. `Before` is the heap
when a turn begins, and `misuse` records that a turn read or freed a block that
was not allocated then, so that a block freed by an earlier turn of the same
drain counts. `arrival` says whether the last datagram was accepted, and
whether what was decoded is what was sent. `SendData`, `Store`, `WriteInOrder` and the others do
to the heap what the branch of the same name in `Sender` and `Receiver` does.
Which segment is due is over-approximated: any slot may be sent again, any
ACK or NACK of the past may arrive, any DATA segment within a window of the
file may arrive in any of the forms the link may give it. `malloc` gives the
lowest free block, so that a block that is freed is used again at once; it
does not fail, and runs end when it would. The structures themselves are not
blocks: no two pointers share one. Slots that `malloc` left dirty are
`Receiver`'s `FreeGarbage`.

`LinkSim`. A turn of `proxy_loop` is `Select`, the wait, `Return` with
`update_time`, one `DeliverOne` per turn of the loop in
`deliver_delayed_pkt`, and `process_incoming_pkt`. One tick is a millisecond
and time passes only while the loop waits. Dates are the pairs of seconds and
fraction that the code computes; `options` are the command line's, `MayStrike`
abstracts `rand()` to what it may return. `Interrupted` is `select` ending
with `EINTR`, `DeliverLater` a refused write; `slack` adds up the time they
cost. Datagrams longer than the buffer are not sent by the ends and are left
out. `Damaged` lets a cut and a corruption exclude each other as the code does.

`MinQueue`. `Push` and `Pop` are the calls up to their loops, `ParentDown` and
`ChildUp` one iteration each, `Insert` and `Settled` the ends. `Junk` is a
cell nobody wrote. Elements are distinct pointers: `link_sim` allocates one
per datagram. `min_queue.c` is called by one thread, so no call interleaves
with another; the steps exist to state what holds between iterations.

Bounds: `NChunks` chunks of input; `MaxFaults` faults in a behaviour;
`FwdCapacity` segments under way to the receiver (the sender's write waits
when they are reached); `RevCapacity` to the sender (a full socket buffer
drops, as the kernel does); `MaxSlotDebt`, how far below zero
`receivingEmptySlot` is followed; `UINT8_RANGE`, the values of the type that a window is converted to, 256 in
the runs; `NBlocks` payloads in memory; `MaxSize`
elements in the heap; `MaxDatagrams`, `Horizon`, `EndOfTime` and `MaxDelays`,
the datagrams, the time in which they come, the time in which they leave and
the interruptions of `LinkSim`.

## Runs

`MAX_WINDOW_SIZE` is 31 and `MAX_SEQNUM` 255 in the code. The runs use two or
three slots and the smallest spaces in which numbers still wrap during the
transfer, so that wrap-around, a full window, a gap with packets stored behind
it and the retransmission of each happen within a few chunks.

| Run | Configuration | Shows |
|---|---|---|
| `fifo` | `Fifo.cfg`: 2 slots, 5 numbers, 5 chunks; losses, cuts, marks and corruption, 2 faults | `IInv`, the invariant that is proved; types, file in order, nothing given up early, complete when an end leaves by the disconnection, no runaway loop, both ends' bookkeeping, no occupied slot announced, no aliasing |
| `reorder` | `Reorder.cfg`: 2 slots, 9 numbers, 9 chunks and the end packet, which takes number 0 again; 2 losses or reorderings either way, for which there is just `Room` | `IInv` also holds here; the receiver takes no packet for another, no slot is given up early, `Transfer` is implemented; the sender may run away |
| `pipe_direct` | `PipeDirect.cfg`: 3 slots, 7 numbers, 8 chunks; pipe input, no relay, dirty memory, 1 loss or mark | ends that time out, become unreachable, are refused or crash only give up; several packets stored behind a gap |
| `ack_loss` | `AckLoss.cfg`: any two ACKs lost or damaged, RTO arbitrary | both programs leave by the disconnection |
| `one_loss` | `OneLoss.cfg`: 3 slots, one segment lost, RTO above the round trip | the file is completed, both programs end, by the disconnection or by time-out |
| `min_queue` | `MinQueue.cfg`: up to 6 elements in 3 priorities, growing by 2 | the heap's invariant, `peek` is minimal, `PriorityQueue` implemented, calls return |
| `link_sim` | `LinkSim.cfg`: 2 datagrams, 3 hosts, seconds of 4 ticks, delays of 0, 4 with jitter, 11 (reduced to 3 by the modulus 8); one interruption | datagrams leave near their dates, in order without jitter, at last; `Relay` implemented, its peer the first that did not send rubbish |
| `packet_memory` | `Memory.cfg`: 3 slots, so drains of up to two stored packets; 7 numbers, 3 chunks of 1 or 2 units, 3 blocks | who owns each payload, no use after free and no double free, payloads intact, what is accepted was sent |
| `stale_ack` | `StaleAck.cfg` | violation of `NoRunaway` |
| `slot_drift` | `Drift.cfg` | violation of `TransferCompletes` |
| `pipe_eof` | `PipeEof.cfg` | violation of `SenderReturns` |
| `exit_status` | `ExitStatus.cfg` | violation of `SuccessIsComplete` |

Deadlock is checked in `min_queue`, which always has a next call. The other
systems may really stop: the programs exit, `link_sim` fails, and a state in
which no more datagrams come is final.

Why the bounds are enough: in `min_queue` six elements give three levels of
the tree, both children, a node without a right child, equal priorities at
every level and two growths. In `link_sim` seconds of four ticks and delays
around one second make every carry, every borrow of `timeval_diff` and the
early delivery happen; two datagrams can be queued in either order of date.
In `packet_memory` the chunks of lengths 2, 1, 2 make a cut or shorter
datagram lie over the end of a longer one of the same or another content, and
blocks are reused after every free; a full store behind a gap drains in three
turns, each of which frees a block that the next must not use; three blocks are
what such a drain needs, and each payload that leaks leaves one less (the proof
is for any number).

A number space of five for two slots, enough when the link keeps the order, is
not enough when it reorders (`NoAliasing` and `Timely` fail with `Reorder.cfg`
and `MAX_SEQNUM = 4`). `Room` is sufficient, not necessary: it asks for 13
numbers for three slots and two faults, and TLC finds `Timely` true with nine.
The code's 256 numbers for 31 slots have `Room` for six faults.

### What the violations show

- `stale_ack`: two ACKs swapped by the link. The newer slides the window, the
  older is then outside it, `find_pkt` returns -1 and the loop of line 462
  counts down from -1.
- `slot_drift`: with two losses and two slots, a packet stored out of order is
  resent and stored again; `receivingEmptySlot` (line 424) loses two for one
  packet and draining (line 393) gives back one. The receiver announces no
  free slot with an empty store, and the sender, which never asks again,
  retransmits nothing and reads nothing: the input is never finished. With 31
  slots the same happens after 31 such duplicates.
- `pipe_eof`: the loop never returns at the end of a pipe, against
  `read_write_loop.h:7`.
- `exit_status`: `test.sh:28-46` takes the exit status of both programs for the
  outcome of the transfer. `read_write_loop` returns nothing and both mains
  return `EXIT_SUCCESS` after it. In the trace the sender is lost on a stale
  ACK, the receiver times out with a part of the file and reports success.

Other counterexamples are one or two constants away from a passing run, whose
property they violate:

| Run and property | Changed constants | What TLC finds |
|---|---|---|
| `one_loss`, `BothEnd` | `DirectLink = TRUE` | The sender leaves, its disconnection is lost, and an ACK of the receiver finds its port closed. The receiver spins on `POLLERR`: `poll` no longer waits, so there is no time-out, and nothing comes that it could read (lines 148, 262; `test.sh:37`). |
| `one_loss`, `BothEnd` | `PatientPoll = FALSE` | The receiver gives up during a pause of five seconds. The sender's input is a regular file, so its `poll` never waits, line 143 is never reached, `link_sim` reports nothing, and it resends for ever. |
| `one_loss`, `BothEnd` | `NChunks = 0` | With an empty file the test of line 181 never holds, and both programs run for ever. |
| `fifo`, `CompleteWhenDisconnected` | `GarbageTypes = {"DATA"}` | A NACK makes the sender send every slot whose number byte matches, filled or not (line 476). One that was never filled and reads as DATA of length 0 disconnects the receiver in the middle of the file. |
| `fifo`, `AnnouncedIsFree` | `UINT8_RANGE = 4`, `MaxSlotDebt = 2` | The drift of `slot_drift` continued. Between -225 and -256 the conversion to `uint8_t` gives 31 to 0, which `pkt_set_window` accepts; with a type of four values -2 becomes 2. |

Smaller differences between words and code, which the modules follow the code
in: `link_sim` cuts a segment after its header and sets TR, which
`read_write_loop.c:298` would answer with a NACK, but the header's length still
announces the payload, so `pkt_decode` fails and the segment is recovered by
RTO only; `link_sim.c:195` says that the delay is capped to ten seconds, line
206 takes it modulo ten seconds; line 219 says "current date + delay", but a date
that is not normalised makes the datagram leave up to a second earlier
(`DeliveredNearDue` states the bounds that do hold); the jitter of the usage
text, `rand[-jitter, jitter]`, never reaches `+jitter`, and above the delay it
is another distribution; `select` may be given microseconds above a second.
`gitlog.stat:201` says that no memory is leaked any more, but with the `free`
of `packet_implem.c:320-325` commented out every payload that is received
again is; it cannot simply be put back, since the pointer is shared (the
variant `pkt_set_payload_Freeing` violates `NoMisuse`).

### Fairness and the assumptions on time

`Fairness` says that both loops keep turning, which the code gives: each turn
ends and `poll` blocks neither on a regular file nor when a datagram is there.
Strong fairness of the turns that find some slot expired says that the clock
keeps running: a scan that could find a slot expired again and again does find
it so. The one step of the loops that is owed nothing is the sender's time-out:
that the writer of a pipe is silent for five seconds need never happen. The
link owes nothing: faults have no fairness, `MaxFaults` bounds them.

Two constants state assumptions on time that some runs make. `PatientPoll`:
the receiver's five seconds do not elapse while the sender is running, nor the
sender's while something is under way, which holds when retransmissions (every
200 ms) are not all lost. Without it either end may give up at any moment that
its poll finds nothing: `fifo`, `reorder` and `pipe_direct` run so. `PatientTimers`:
RTO is longer than any round trip, as in the default set-up of `test.sh` (no
delay). `ack_loss` needs no patient timers; with lost data and impatient
timers the drift of `slot_drift` can strike, which is why `one_loss` assumes
them and allows one loss: with one loss a packet is stored at most once.

`LinkSim` has weak fairness of its loop and of the clock, which runs while the
loop waits: no system call of the loop blocks, and `select` returns at its
time-out. Interruptions and refused writes are finite (`MaxDelays`): with a
send buffer that stays full for ever nothing would leave. `MinQueue` has weak
fairness of the steps inside a call, which is that a function that runs goes
on; no call need ever be made. `Memory` checks safety only.

### Variants

An operator named after a definition with a suffix (`Drains_Never`,
`AckedCount_Inclusive`, `MayDisconnect_AtEof`, ...) is that definition with a
bug one could have written. No specification uses it; put in the place of the
definition it makes the property that `PROJECT.json` pairs it with fail, which
shows that the property can tell.

## Proofs

Assumptions: those of the modules (`WindowAssumption`: at least one slot, and
two windows of numbers fit below `MAX_SEQNUM`; `LinkSimAssumption`: a second
has at least two ticks, rates are at most 100; `MinQueueAssumption`: elements
have numbers as priorities; the others bound the kinds of faults and inputs).
The faults of either direction, reordering among them, the input kind, dirty
memory and the timing constants are arbitrary. What a theorem of `TrtpProofs`
assumes beyond that is in its statement and is one of three things:

- `CleanSlots`, about memory: no slot of the sender that was never filled reads
  as DATA, as when `malloc` returns zeroed memory; the table above has the
  counterexample.
- `[]Timely`, about the behaviour: no segment is read by a receiver whose
  window ends a whole number space beyond it, no acknowledgement by a sender
  whose window does. Eight bits cannot work without it, and the theorems
  `SafeWhenTimely` and `TransferImplementedWhenTimely` show that beside
  `CleanSlots` nothing else is needed, however much the link reorders.
- `Room`, about the constants: neither direction reorders, or
  `(MaxFaults + 2) * MAX_WINDOW_SIZE <= MAX_SEQNUM`. `InvariantHolds` proves `IInv`
  from it and `InTime` proves `[]Timely`, which discharges that
  hypothesis in the other theorems of the module. `MaxFaults` counts
  faults in a whole behaviour, so with reordering these are statements on
  behaviours of as many faults as `Room` allows.

`WindowLoopEnds` needs that acknowledgements, but not segments, keep their
order: `stale_ack` is the counterexample otherwise. `TypeCorrect` needs none of
these, and `AnnouncedSlotsFree` only `[]DebtFits`.

The invariant `IInv` exists because none of the safety properties is inductive:
that an ACK never acknowledges what is not written depends on every ACK under
way, which depends on what the receiver wrote, which depends on every segment
under way carrying what its number says. It has two halves.

`ProtocolInv` holds on every link as long as `Timely` does:

- `CountInv`: b <= n <= p <= b + W, where b is the oldest unacknowledged
  packet, n the chunks in the file, p the next packet and W the window;
- `WindowInv`, `TimeInv`, `BufInv`, `StoreInv`: each array in terms of b, n, p;
- `FwdInv`: a segment at position k carries that packet, and k < p. With
  `Timely` its number identifies it (`FindPkt` of `BufferProofs`);
- `RevInv`: ACKs name positions up to n, NACKs positions before p;
  `LastAckInv` is the same of the number kept, which has not come round;
- `StartInv`: until the first chunk is written only one packet exists. This
  carries the weight of `lastAck = 0` at line 67, which would otherwise
  acknowledge packet 0 before it is written.

`LateInv` says how late things can be, and is what makes them `Timely`. On a
link that keeps the order a segment is at most a window behind the file and
behind anything stored (`WithinReach`), and no segment is a window ahead of
one that follows it (`Ordered`); an ACK is not behind one sent before it, a
NACK at most a window (`AcksOrdered`, `AcksBehind`). One fault that reorders
can make each of these worse by one window, since whatever overtakes is itself
within the window of the sender at that moment: `Slack` is W times the faults
so far. With two windows for the protocol itself and one for each fault,
`Room` leaves numbers that have not come round (`SlackBound`, `LateTimely`).

`BufferProofs` holds the facts on remainders, what the helpers return and that
the closed forms of n slides are n applications of the helper, `TrtpTypes` type
correctness and the slot count, `SenderProofs` and `ReceiverProofs` that each
step of a program keeps the invariant (`Kept`: `ProtocolInv`, and `LateInv`
where it held), `TrtpProofs` the faults, the induction, the safety theorems and
the refinement: `TransferImplemented` maps every step to one of `Transfer` or a
stutter. A sender that runs away is, to `Transfer`, one that gives up.

`AnnouncedSlotsFree` holds on every link as long as `DebtFits`: the slot count
has not fallen so far that a `uint8_t` wraps it around to a window that
`pkt_set_window` accepts (the table above has what happens otherwise). Its invariant: the
count and the occupied slots together do not exceed the window, index 0 is
never occupied, and the window announced last is at most the count, and 0 once
the count is below 0. Storing adds at most
one occupied slot for the one that is subtracted; draining d packets gives back
d, and the slots still occupied are mapped by i -> i + d + 1 one to one into
those that were occupied beyond d. The count falls by
one at a time, so 0 has been announced before `pkt_set_window` refuses a
negative one and leaves the window as it was.

`MemoryProofs`. `MemoryInv` with `NoMisuse` and `PayloadIntact` is inductive.
It says who owns a block: the payload of `thePkt` is allocated or NULL; each
slot in use has the chunk it is for in an allocated block; a slot and `thePkt`
may share a block (the shallow copies of lines 233 and 422), but no two slots
of the receiver do, since sliding deletes one of them; the sender deletes no
slot's payload before it leaves. That two slots share none is what a drain
needs turn by turn: the block of turn j is still allocated when turn j begins,
since the turns before it freed the blocks of other slots. `Ownership` survives an
allocation since `malloc` returns a block that is free, which nobody points
to, and a deletion since the deleted block has no second owner but `thePkt`,
which is given another payload before it is used again. What is proved of
`pkt_decode` is a theorem about the codec alone, `DecodesWhatWasSent`: whatever
`buf_rcv` holds beyond a datagram, a datagram that `pkt_encode` made and the
link cut, marked or damaged decodes just when it is, up to TR, the one that was
encoded, and gives back what was encoded. That a cut segment with a payload is
refused is part of it: it is what the code does, although
`packet_interface.h:54-56` and `read_write_loop.c:298` want otherwise. `AcceptedIsSent` asks only that what is accepted
was sent, which a decoder of cut segments would satisfy too. It rests on the
CRC telling contents apart (`crc32` is injective in `Codec`). The window, the
number space, the input, the number and the size of the blocks are arbitrary.

`MinQueueProofs`. `HeapInv` is inductive: cells in use hold distinct elements,
and the heap order holds except around the open or sinking node, where the
node's parent stands in for it towards its children, so that each iteration
re-establishes the order one level further. `PeekMinimal` follows by going up
from a least counterexample to the root (well-founded order of the indices:
the one use of induction, on a set and not on an operator).
`HeapImplementsQueue` maps the elements in use, and the one on its way up, to
the queue's content: a pop removes a minimal one at its first step, every
other iteration is invisible.

`LinkSimProofs`. `LinkInv` is inductive: `IdInv` (no datagram at two places)
carries the refinement, `DateInv` the timing: no date lies more than a second
back, but for `slack`, and a wait ends before one does, whatever
`timeval_diff` makes of the borrow; `ConstantDelayInv` the order. `NearDue`
and `ConstantDelayInOrder` follow from it and from what `timeval_cmp` says
about the ticks of two dates that are not normalised: within a second of each
other in general, exact when both carry the same delay. `LinkSimIsRelay` maps
every step to one of `Relay` or a stutter; `Relay` fixes its peer at the first
datagram that is no rubbish, so the proof covers the rule of `link_sim.c:265`.

Only model-checked: the liveness properties `CleanEnd`, `TransferCompletes`,
`BothEnd`, `CallsReturn` and `DelayedLeave`, since TLAPS does not prove
ENABLED-based fairness arguments. Every safety property and every refinement
that a passing run checks is proved. Not proved: that fewer numbers than `Room` asks
for suffice, which TLC finds for some of them.

## Not modelled, and why

- `clock()` as CPU time with 0 as a sentinel: timers are kept as an order. A
  slot whose clock reads 0 when it is sent would never be resent.
- Allocation failures and a failing `fwrite`, which end the program at once,
  and the errors of `create_packet_*`, which are assigned to a parameter and
  never seen by the caller: no value the loop passes causes one, but for the
  window of an ACK, which is modelled.
- Memory that leaks: payloads without an owner stay allocated in `Memory`, and
  no property limits their number.
- The command line and socket set-up of the three programs: sequential calls
  of the library before the loops begin.
- `format_des_segments.c` and `chat.c`, course exercises that are not part of
  the programs; `LINGI1341-linksim-master`, the upstream of `link_sim.c` and
  `min_queue.c`; the CUnit tests.

## Plan

1. Done: the two programs over the link, the abstract transfer, the invariant,
   its proof and the refinement proof.
2. Done: `MinQueue`, `LinkSim`, their abstract specifications and proofs.
3. Done: `Codec` and `Memory`, and the proofs of who owns a payload, of no use
   after free and of what decodes.
4. Done: the proof of the slot count on every link.
5. Done: the safety of a transfer and the refinement on links that reorder.
6. Next: the progress that liveness rests on, as far as it is safety (what a
   blocked sender and an idle receiver are waiting for), and a bound on the
   numbers that counts the segments under way rather than all faults.
