------------------------------- MODULE Packet -------------------------------
(***************************************************************************)
(* TRTP segments, as create_packet.c builds them, pkt_encode sends them    *)
(* and pkt_decode sees them.  The bytes of a segment are abstracted to     *)
(* what the receiving loop tells apart: the header fields it branches on,  *)
(* the chunk of the input file a payload stands for, and whether the bytes *)
(* still pass pkt_decode.  nth is an auxiliary field that no guard reads:  *)
(* the position in the stream that seqnum abbreviates modulo 256.          *)
(***************************************************************************)
EXTENDS Buffer

CONSTANTS NChunks,          \* how many non-empty reads the input provides
          UINT8_RANGE,      \* values of a uint8_t: 256
          GarbagePointers   \* TRUE: malloc may return memory that is not zero

ASSUME ChunksAssumption == NChunks \in Nat
ASSUME WidthAssumption ==
  UINT8_RANGE \in Nat /\ MAX_WINDOW_SIZE < UINT8_RANGE
ASSUME PointersAssumption == GarbagePointers \in BOOLEAN

Chunks    == 0..(NChunks - 1)
NoPayload == -1              \* length == 0
Types     == {"NONE", "DATA", "ACK", "NACK"}

Packets ==
  [type : Types, tr : {0, 1}, window : 0..MAX_WINDOW_SIZE, seqnum : Seqnums,
   payload : Chunks \cup {NoPayload}, nth : Nat,
   bytes : {"intact", "damaged"}]

\* pkt_set_window without its range check.
pkt_set_window_Unchecked(old, window) == window % UINT8_RANGE

\* The window field after pkt_set_window: the int argument is converted to
\* uint8_t, and a value above MAX_WINDOW_SIZE leaves the field as it was,
\* which no caller checks.
pkt_set_window(old, window) ==
  IF window % UINT8_RANGE > MAX_WINDOW_SIZE THEN old ELSE window % UINT8_RANGE

create_packet(type, seqnum, window, payload, nth) ==
  [type |-> type, tr |-> 0, window |-> window, seqnum |-> seqnum,
   payload |-> payload, nth |-> nth, bytes |-> "intact"]

create_packet_data(payload, seqnum, nth) ==
  create_packet("DATA", seqnum, MAX_WINDOW_SIZE, payload, nth)

create_packet_deco(seqnum, nth) ==
  create_packet("DATA", seqnum, MAX_WINDOW_SIZE, NoPayload, nth)

create_packet_ack(seqnum, window, nth) ==
  create_packet("ACK", seqnum, window, NoPayload, nth)

\* Nothing reads the window of a NACK.
create_packet_nack(seqnum, nth) ==
  create_packet("NACK", seqnum, 0, NoPayload, nth)

\* A slot that create_storage_buffer allocated and nothing filled, in memory
\* that holds no length: its seqnum byte is compared with the number of a NACK,
\* and when it matches pkt_encode sends the slot, with the type it holds.
BlankSlot(type, seqnum) == create_packet(type, seqnum, 0, NoPayload, 0)

\* pkt_decode accepts a segment whose CRCs and length are right.  The TR bit
\* is masked out of CRC1, so setting it goes unnoticed.
pkt_decode(m) == m.bytes = "intact"
=============================================================================
