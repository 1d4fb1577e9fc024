-------------------------------- MODULE Codec --------------------------------
(***************************************************************************)
(* Segments on the wire, as pkt_encode and pkt_decode of packet_implem.c   *)
(* write and read them.  A datagram is a sequence of cells, one per field  *)
(* of the header, one per unit of payload and one for CRC2, so offsets     *)
(* count cells.  A cell is a tuple.  A CRC is taken to tell any two        *)
(* contents apart, hence a tuple that holds them: link_sim inverts one     *)
(* byte, which a CRC-32 detects.                                           *)
(***************************************************************************)
EXTENDS Integers, Sequences

CONSTANT MAX_PAYLOAD_SIZE   \* 512

ASSUME PayloadAssumption == MAX_PAYLOAD_SIZE \in Nat \ {0}

PTYPE_DATA == 1
PTYPE_ACK  == 2
PTYPE_NACK == 3

HEADER == 5      \* cells: type/tr/window, seqnum, length, timestamp, CRC1
MaxLen == HEADER + MAX_PAYLOAD_SIZE + 1

crc32(cells) == <<32, cells>>

\* The first byte with the bit of TR cleared, over which CRC1 is taken.
MaskTR(first) == <<first[1], 0, first[3]>>
HeaderCRC(d)  == crc32(<<MaskTR(d[1]), d[2], d[3], d[4]>>)

pkt_encode(p) ==
  LET header == <<<<p.type, p.tr, p.window>>, <<p.seqnum>>, <<Len(p.payload)>>, <<69>>>>
  IN  header \o <<HeaderCRC(header)>>
      \o IF p.payload = <<>> THEN <<>> ELSE p.payload \o <<crc32(p.payload)>>

\* pkt_decode of the first len cells of data, a buffer that holds more.  When
\* status is not PKT_OK, only payload is of interest: what pkt_set_payload was
\* given by then, <<>> when it was not called.  The setters accept whatever
\* fits the fields read, a length above MAX_PAYLOAD_SIZE excepted.
Decoded(status, data, payload) ==
  [status |-> status, type |-> data[1][1], tr |-> data[1][2],
   seqnum |-> data[2][1], payload |-> payload]

\* Decoding that takes the bytes it has read for bytes that were received.
pkt_decode_AnyLength(data, len) ==
  LET length  == data[3][1]
      end     == HEADER + length
      payload == SubSeq(data, HEADER + 1, end)
  IN  IF length > MAX_PAYLOAD_SIZE THEN Decoded("E_LENGTH", data, <<>>)
      ELSE IF data[HEADER] # HeaderCRC(data) THEN Decoded("E_CRC", data, <<>>)
      ELSE IF length # 0 /\ end # len /\ data[end + 1] # crc32(payload)
      THEN Decoded("E_CRC", data, payload)
      ELSE Decoded("PKT_OK", data, payload)

pkt_decode(data, len) ==
  LET length  == data[3][1]
      end     == HEADER + length
      hasCRC2 == length # 0 /\ end # len
      payload == SubSeq(data, HEADER + 1, end)
  IN  IF length > MAX_PAYLOAD_SIZE THEN Decoded("E_LENGTH", data, <<>>)
      ELSE IF data[HEADER] # HeaderCRC(data) THEN Decoded("E_CRC", data, <<>>)
      ELSE IF hasCRC2 /\ data[end + 1] # crc32(payload)
      THEN Decoded("E_CRC", data, payload)
      ELSE IF len # end + IF hasCRC2 THEN 1 ELSE 0
      THEN Decoded("E_UNCONSISTENT", data, payload)
      ELSE Decoded("PKT_OK", data, payload)

\* What the link may make of a datagram: the header alone with TR set, ...
SetTR(d, tr) == [d EXCEPT ![1][2] = tr]
Truncated(d) == SubSeq(SetTR(d, 1), 1, HEADER)

\* ... or a byte of any cell inverted.
InvertedCells(d, k) ==
  CASE k = 1 -> {<<3 - d[1][1], 1 - d[1][2], 31 - d[1][3]>>}
    [] k = 3 -> {<<n>> : n \in (0..(MAX_PAYLOAD_SIZE + 1)) \ {d[3][1]}}
    [] OTHER -> {<<255>> \o d[k]}
Inverted(d) ==
  UNION {{[d EXCEPT ![k] = c] : c \in InvertedCells(d, k)} : k \in DOMAIN d}

Arriving(d) == {d, SetTR(d, 1), Truncated(d)} \cup Inverted(d)
=============================================================================
