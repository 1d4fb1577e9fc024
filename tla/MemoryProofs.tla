---------------------------- MODULE MemoryProofs ----------------------------
(***************************************************************************)
(* Codec and Memory for every stream, window, size of payload and number   *)
(* of blocks: pkt_decode accepts what pkt_encode sent and nothing else     *)
(* that the link may make of it, and every payload has an owner, which is  *)
(* why none is used after it was freed and none changes.                   *)
(***************************************************************************)
EXTENDS Memory, BufferProofs, SequenceTheorems, WellFoundedInduction

-----------------------------------------------------------------------------
(* Codec. *)

\* What the setters accept.
Encodable(p) ==
  /\ p.payload \in Seq(Seq(Nat)) /\ Len(p.payload) <= MAX_PAYLOAD_SIZE
  /\ p.type \in {PTYPE_DATA, PTYPE_ACK, PTYPE_NACK} /\ p.tr = 0

\* Two contents with one CRC are the same.
LEMMA CRCInjective ==
  ASSUME NEW a, NEW b, crc32(a) = crc32(b)
  PROVE  a = b
<1>1. crc32(a)[2] = a /\ crc32(b)[2] = b
  BY DEF crc32
<1> QED BY <1>1

\* The cells of a header that is encoded.
HeaderOf(p) ==
  <<<<p.type, p.tr, p.window>>, <<p.seqnum>>, <<Len(p.payload)>>, <<69>>>>

\* What pkt_encode writes, cell by cell.
LEMMA EncodeCells ==
  ASSUME NEW p, Encodable(p)
  PROVE  LET e == pkt_encode(p)
             L == Len(p.payload)
         IN  /\ L \in Nat
             /\ e = [k \in 1..Len(e) |-> e[k]]
             /\ Len(e) = IF L = 0 THEN HEADER ELSE HEADER + L + 1
             /\ e[1] = <<p.type, p.tr, p.window>> /\ e[2] = <<p.seqnum>>
             /\ e[3] = <<L>> /\ e[4] = <<69>>
             /\ e[HEADER] = HeaderCRC(HeaderOf(p))
             /\ \A k \in 1..L : e[HEADER + k] = p.payload[k]
             /\ L # 0 => e[HEADER + L + 1] = crc32(p.payload)
<1> DEFINE L == Len(p.payload)
           h == HeaderOf(p)
           c == HeaderCRC(h)
           t == crc32(p.payload)
           S == Seq(Nat) \cup {h[1], h[2], h[3], h[4], c, t}
           f == h \o <<c>>
           g == IF p.payload = <<>> THEN <<>> ELSE p.payload \o <<t>>
           e == pkt_encode(p)
<1>1. p.payload \in Seq(S) /\ L \in Nat
  BY DEF Encodable
<1>2. h \in Seq(S) /\ <<c>> \in Seq(S) /\ <<t>> \in Seq(S) /\ <<>> \in Seq(S)
  BY DEF HeaderOf
<1>3. Len(h) = 4 /\ Len(<<c>>) = 1 /\ Len(<<t>>) = 1 /\ Len(<<>>) = 0
  BY DEF HeaderOf
<1>4. e = f \o g
  BY DEF pkt_encode, HeaderOf
<1> DEFINE one == <<c>>
           last == <<t>>
<1> HIDE DEF S, c, t, h, e
<1>5. /\ f \in Seq(S) /\ Len(f) = 5
      /\ \A k \in 1..4 : f[k] = h[k]
      /\ f[5] = c
  <2>1. one \in Seq(S) /\ Len(one) = 1 /\ one[1] = c
    BY <1>2
  <2> HIDE DEF one
  <2>2. /\ h \o one \in Seq(S) /\ Len(h \o one) = Len(h) + Len(one)
        /\ \A i \in 1..(Len(h) + Len(one)) :
             (h \o one)[i] = IF i <= Len(h) THEN h[i] ELSE one[i - Len(h)]
    BY <1>2, <2>1, ConcatProperties
  <2>3. f = h \o one
    BY DEF f, one
  <2> HIDE DEF f
  <2>4. 5 \in 1..5 /\ ~(5 <= 4) /\ 5 - 4 = 1
    OBVIOUS
  <2> QED BY <1>3, <2>1, <2>2, <2>3, <2>4
<1>6. p.payload = <<>> <=> L = 0
  BY <1>1, EmptySeq
<1>7. /\ g \in Seq(S) /\ Len(g) = IF L = 0 THEN 0 ELSE L + 1
      /\ \A k \in 1..L : g[k] = p.payload[k]
      /\ L # 0 => g[L + 1] = t
  <2>1. CASE L = 0
    BY <1>1, <1>2, <1>6, <2>1
  <2>2. CASE L # 0
    <3>1. last \in Seq(S) /\ Len(last) = 1 /\ last[1] = t
      BY <1>2
    <3>2. g = p.payload \o last
      BY <1>6, <2>2 DEF g, last
    <3> HIDE DEF last, g
    <3>3. /\ p.payload \o last \in Seq(S) /\ Len(p.payload \o last) = L + Len(last)
          /\ \A i \in 1..(L + Len(last)) :
               (p.payload \o last)[i] = IF i <= L THEN p.payload[i] ELSE last[i - L]
      BY <1>1, <3>1, ConcatProperties
    <3>4. L + 1 \in 1..(L + 1) /\ ~(L + 1 <= L) /\ (L + 1) - L = 1
      BY <1>1
    <3> QED BY <1>1, <2>2, <3>1, <3>2, <3>3, <3>4
  <2> QED BY <2>1, <2>2
<1> HIDE DEF f, g
<1>8. /\ e \in Seq(S) /\ Len(e) = 5 + Len(g)
      /\ \A k \in 1..5 : e[k] = f[k]
      /\ \A k \in 1..Len(g) : e[5 + k] = g[k]
  <2>1. /\ f \o g \in Seq(S) /\ Len(f \o g) = Len(f) + Len(g)
        /\ \A i \in 1..(Len(f) + Len(g)) :
             (f \o g)[i] = IF i <= Len(f) THEN f[i] ELSE g[i - Len(f)]
    BY <1>5, <1>7, ConcatProperties
  <2>2. Len(g) \in Nat
    BY <1>1, <1>7
  <2>3. ASSUME NEW k \in 1..Len(g)
        PROVE  5 + k \in 1..(5 + Len(g)) /\ ~(5 + k <= 5) /\ (5 + k) - 5 = k
    BY <2>2
  <2>4. \A k \in 1..5 : k \in 1..(5 + Len(g)) /\ k <= 5
    BY <2>2
  <2> QED BY <1>4, <1>5, <2>1, <2>3, <2>4
<1>9. e = [k \in 1..Len(e) |-> e[k]]
  BY <1>8
<1>10. \A k \in 1..L : e[5 + k] = p.payload[k]
  BY <1>1, <1>7, <1>8
<1>11. L # 0 => e[5 + L + 1] = t
  BY <1>1, <1>7, <1>8
<1>12. e[1] = h[1] /\ e[2] = h[2] /\ e[3] = h[3] /\ e[4] = h[4] /\ e[5] = c
  BY <1>5, <1>8
<1>13. /\ h[1] = <<p.type, p.tr, p.window>> /\ h[2] = <<p.seqnum>>
       /\ h[3] = <<L>> /\ h[4] = <<69>>
  BY DEF h, HeaderOf
<1> QED BY <1>1, <1>7, <1>8, <1>9, <1>10, <1>11, <1>12, <1>13 DEF HEADER, c, t, h, e

\* A field of one unit is not that field after another unit.
LEMMA LongerCell ==
  ASSUME NEW S, NEW cell \in Seq(S), 255 \in S
  PROVE  <<255>> \o cell # cell
<1> DEFINE extra == <<255>>
<1>1. extra \in Seq(S) /\ Len(extra) = 1 /\ Len(cell) \in Nat
  OBVIOUS
<1> HIDE DEF extra
<1>2. Len(extra \o cell) = Len(extra) + Len(cell)
  BY <1>1, ConcatProperties
<1>3. extra \o cell # cell
  BY <1>1, <1>2
<1> QED BY <1>3 DEF extra

\* The cells after the header, when they are those of a payload.
LEMMA PayloadCells ==
  ASSUME NEW D, NEW data \in Seq(Seq(Nat)),
         \A k \in 1..Len(data) : D[5 + k] = data[k]
  PROVE  SubSeq(D, 6, 5 + Len(data)) = data
<1> DEFINE L == Len(data)
           tail == SubSeq(D, 6, 5 + L)
<1>1. L \in Nat
  OBVIOUS
<1>2. \A i \in 6..(5 + L) : D[i] \in Seq(Nat)
  <2>1. ASSUME NEW i \in 6..(5 + L) PROVE D[i] \in Seq(Nat)
    <3>1. i - 5 \in 1..L /\ 5 + (i - 5) = i
      BY <1>1
    <3>2. data[i - 5] \in Seq(Nat)
      BY <3>1, ElementOfSeq
    <3>3. D[5 + (i - 5)] = data[i - 5]
      BY <3>1
    <3> QED BY <3>1, <3>2, <3>3
  <2> QED BY <2>1
<1>3. /\ tail \in Seq(Seq(Nat))
      /\ Len(tail) = IF 6 <= 5 + L THEN (5 + L) - 6 + 1 ELSE 0
      /\ \A i \in 1..((5 + L) - 6 + 1) : tail[i] = D[6 + i - 1]
  BY <1>1, <1>2, SubSeqProperties
<1>4. Len(tail) = L /\ (5 + L) - 6 + 1 = L /\ \A i \in 1..L : 6 + i - 1 = 5 + i
  BY <1>1, <1>3
<1>5. \A i \in 1..L : tail[i] = data[i]
  BY <1>3, <1>4
<1> QED BY <1>3, <1>4, <1>5, SeqEqual

\* pkt_decode of a buffer that begins with a datagram as it was encoded, up to
\* TR: it is accepted and gives back what was encoded.
LEMMA DecodesEncoded ==
  ASSUME NEW p, Encodable(p), NEW D, NEW tr,
         D[1] = <<p.type, tr, p.window>>,
         \A k \in 2..Len(pkt_encode(p)) : D[k] = pkt_encode(p)[k]
  PROVE  pkt_decode(D, Len(pkt_encode(p)))
           = [status |-> "PKT_OK", type |-> p.type, tr |-> tr,
              seqnum |-> p.seqnum, payload |-> p.payload]
<1> DEFINE e == pkt_encode(p)
           L == Len(p.payload)
<1>1. /\ L \in Nat /\ L <= MAX_PAYLOAD_SIZE
      /\ Len(e) = IF L = 0 THEN 5 ELSE 5 + L + 1
      /\ e[2] = <<p.seqnum>> /\ e[3] = <<L>> /\ e[4] = <<69>>
      /\ e[5] = HeaderCRC(HeaderOf(p))
      /\ \A k \in 1..L : e[5 + k] = p.payload[k]
      /\ L # 0 => e[5 + L + 1] = crc32(p.payload)
  BY EncodeCells DEF HEADER, Encodable
<1>2. MAX_PAYLOAD_SIZE \in Nat
  BY PayloadAssumption
<1> HIDE DEF e
<1>3. /\ D[2] = <<p.seqnum>> /\ D[3] = <<L>> /\ D[4] = <<69>>
      /\ D[5] = HeaderCRC(HeaderOf(p))
  <2>1. 2 \in 2..Len(e) /\ 3 \in 2..Len(e) /\ 4 \in 2..Len(e) /\ 5 \in 2..Len(e)
    BY <1>1
  <2> QED BY <1>1, <2>1 DEF e
<1>4. HeaderCRC(D) = HeaderCRC(HeaderOf(p))
  BY <1>3 DEF HeaderCRC, MaskTR, HeaderOf
<1>5. SubSeq(D, 6, 5 + L) = p.payload
  <2>1. ASSUME NEW k \in 1..L PROVE D[5 + k] = p.payload[k]
    <3>1. 5 + k \in 2..Len(e)
      BY <1>1
    <3> QED BY <1>1, <3>1 DEF e
  <2> QED BY <2>1, PayloadCells DEF Encodable
<1>6. L # 0 => D[5 + L + 1] = crc32(p.payload)
  <2>1. L # 0 => 5 + L + 1 \in 2..Len(e)
    BY <1>1
  <2> QED BY <1>1, <2>1 DEF e
<1>7. D[1][1] = p.type /\ D[1][2] = tr /\ D[2][1] = p.seqnum /\ D[3][1] = L
  BY <1>3
<1>8. ~(L > MAX_PAYLOAD_SIZE) /\ D[5] = HeaderCRC(D)
  BY <1>1, <1>2, <1>3, <1>4
<1>9. /\ ~(L # 0 /\ 5 + L # Len(e) /\ D[5 + L + 1] # crc32(p.payload))
      /\ Len(e) = 5 + L + IF L # 0 /\ 5 + L # Len(e) THEN 1 ELSE 0
  <2> HIDE DEF L
  <2>1. CASE L = 0
    BY <1>1, <2>1
  <2>2. CASE L # 0
    <3>1. Len(e) = 5 + L + 1 /\ 5 + L # Len(e)
      BY <1>1, <2>2
    <3> QED BY <1>6, <2>2, <3>1
  <2> QED BY <2>1, <2>2
<1>10. pkt_decode(D, Len(e)) = Decoded("PKT_OK", D, p.payload)
  <2>1. D[HEADER] = HeaderCRC(D) /\ HEADER + L = 5 + L /\ HEADER + 1 = 6
    BY <1>8 DEF HEADER
  <2> HIDE DEF L
  <2> QED BY <1>5, <1>7, <1>8, <1>9, <2>1 DEF pkt_decode
<1> QED BY <1>7, <1>10 DEF Decoded, e

\* Why a datagram is rejected: its header, its payload, or its end.
LEMMA RejectsHeader ==
  ASSUME NEW D, NEW len, D[HEADER] # HeaderCRC(D)
  PROVE  pkt_decode(D, len).status # "PKT_OK"
  BY DEF pkt_decode, Decoded

LEMMA RejectsPayload ==
  ASSUME NEW D, NEW len, D[3][1] # 0, HEADER + D[3][1] # len,
         D[HEADER + D[3][1] + 1] # crc32(SubSeq(D, HEADER + 1, HEADER + D[3][1]))
  PROVE  pkt_decode(D, len).status # "PKT_OK"
<1> DEFINE end == HEADER + D[3][1]
           sum == crc32(SubSeq(D, HEADER + 1, end))
<1>1. D[3][1] # 0 /\ end # len /\ D[end + 1] # sum
  OBVIOUS
<1> QED BY <1>1 DEF pkt_decode, Decoded

LEMMA RejectsCut ==
  ASSUME NEW D, D[3][1] \in Nat, D[3][1] # 0
  PROVE  pkt_decode(D, HEADER).status # "PKT_OK"
<1> DEFINE end == HEADER + D[3][1]
<1>1. D[3][1] # 0 /\ end # HEADER /\ HEADER # end + 1
  BY DEF HEADER
<1> QED BY <1>1 DEF pkt_decode, Decoded

\* The second field of a cell of three.
LEMMA TripleExcept ==
  ASSUME NEW a, NEW b, NEW c, NEW x, NEW cell, cell = <<a, b, c>>
  PROVE  [cell EXCEPT ![2] = x] = <<a, x, c>>
  OBVIOUS

\* The first cell with another TR, and no other.
LEMMA SetTRCells ==
  ASSUME NEW p, Encodable(p), NEW tr
  PROVE  LET e == pkt_encode(p)
             r == SetTR(e, tr)
         IN  /\ Len(r) = Len(e) /\ r[1] = <<p.type, tr, p.window>>
             /\ \A k \in 2..Len(e) : r[k] = e[k]
             /\ SetTR(r, 0) = e
<1> DEFINE e == pkt_encode(p)
           r == SetTR(e, tr)
           n == Len(e)
           L == Len(p.payload)
<1>1. /\ L \in Nat /\ e = [k \in 1..n |-> e[k]]
      /\ n = IF L = 0 THEN 5 ELSE 5 + L + 1
      /\ e[1] = <<p.type, 0, p.window>>
  BY EncodeCells DEF HEADER, Encodable
<1>2. n \in Nat /\ 1 \in 1..n
  BY <1>1
<1> HIDE DEF L, n, e
<1>3. r = [k \in 1..n |-> IF k = 1 THEN <<p.type, tr, p.window>> ELSE e[k]]
  <2>1. [e[1] EXCEPT ![2] = tr] = <<p.type, tr, p.window>>
    <3> DEFINE first == e[1]
    <3>1. first = <<p.type, 0, p.window>>
      BY <1>1
    <3> HIDE DEF first
    <3>2. [first EXCEPT ![2] = tr] = <<p.type, tr, p.window>>
      BY <3>1, TripleExcept
    <3> QED BY <3>2 DEF first
  <2> QED BY <1>1, <1>2, <2>1 DEF SetTR
<1>4. SetTR(r, 0) = [k \in 1..n |-> IF k = 1 THEN <<p.type, 0, p.window>> ELSE r[k]]
  <2>1. r[1] = <<p.type, tr, p.window>> /\ DOMAIN r = 1..n
    BY <1>2, <1>3
  <2>2. [r[1] EXCEPT ![2] = 0] = <<p.type, 0, p.window>>
    BY <2>1
  <2> HIDE DEF r
  <2> QED BY <1>2, <1>3, <2>1, <2>2 DEF SetTR
<1>5. SetTR(r, 0) = e
  <2>1. \A k \in 1..n : (IF k = 1 THEN <<p.type, 0, p.window>> ELSE r[k]) = e[k]
    BY <1>1, <1>3
  <2> HIDE DEF r
  <2>2. SetTR(r, 0) = [k \in 1..n |-> e[k]]
    BY <1>4, <2>1
  <2> QED BY <1>1, <2>2
<1>6. Len(r) = n
  BY <1>2, <1>3
<1>7. \A k \in 2..n : r[k] = e[k] /\ r[1] = <<p.type, tr, p.window>>
  BY <1>2, <1>3
<1>8. r[1] = <<p.type, tr, p.window>>
  BY <1>2, <1>3
<1> QED BY <1>5, <1>6, <1>7, <1>8 DEF e, n

\* A datagram of which one cell is inverted is not the one that was sent.
LEMMA InvertedDiffers ==
  ASSUME NEW p, Encodable(p), NEW k \in DOMAIN pkt_encode(p),
         NEW c \in InvertedCells(pkt_encode(p), k)
  PROVE  LET e == pkt_encode(p)
             r == [e EXCEPT ![k] = c]
         IN  /\ k \in 1..Len(e) /\ r[k] = c /\ Len(r) = Len(e)
             /\ \A j \in 1..Len(e) : j # k => r[j] = e[j]
             /\ c # e[k]
             /\ k = 1 => c = <<3 - p.type, 1, 31 - p.window>>
             /\ k = 3 => \E n \in Nat : c = <<n>>
<1> DEFINE e == pkt_encode(p)
           r == [e EXCEPT ![k] = c]
           n == Len(e)
           L == Len(p.payload)
<1>1. /\ L \in Nat /\ e = [j \in 1..n |-> e[j]]
      /\ n = IF L = 0 THEN 5 ELSE 5 + L + 1
      /\ e[1] = <<p.type, 0, p.window>> /\ e[2] = <<p.seqnum>>
      /\ e[3] = <<L>> /\ e[4] = <<69>>
      /\ e[5] = HeaderCRC(HeaderOf(p))
      /\ \A j \in 1..L : e[5 + j] = p.payload[j]
      /\ L # 0 => e[5 + L + 1] = crc32(p.payload)
  BY EncodeCells DEF HEADER, Encodable
<1>2. c \in InvertedCells(e, k) /\ k \in DOMAIN e
  OBVIOUS
<1> HIDE DEF e, n, L
<1>3. DOMAIN e = 1..n /\ n \in Nat
  BY <1>1
<1>4. r = [j \in 1..n |-> IF j = k THEN c ELSE e[j]]
  BY <1>1, <1>3
<1>5. k \in 1..n /\ r[k] = c /\ Len(r) = n
  BY <1>2, <1>3, <1>4
<1>6. \A j \in 1..n : j # k => r[j] = e[j]
  BY <1>4
<1>7. k = 1 => c = <<3 - p.type, 1, 31 - p.window>> /\ c # e[1]
  <2> SUFFICES ASSUME k = 1 PROVE c = <<3 - p.type, 1, 31 - p.window>> /\ c # e[1]
    OBVIOUS
  <2>1. c = <<3 - e[1][1], 1 - e[1][2], 31 - e[1][3]>>
    BY <1>2 DEF InvertedCells
  <2> QED BY <1>1, <2>1
<1>8. k = 3 => (\E m \in Nat : c = <<m>>) /\ c # e[3]
  <2> SUFFICES ASSUME k = 3 PROVE (\E m \in Nat : c = <<m>>) /\ c # e[3]
    OBVIOUS
  <2>1. PICK m \in (0..(MAX_PAYLOAD_SIZE + 1)) \ {e[3][1]} : c = <<m>>
    BY <1>2 DEF InvertedCells
  <2>2. m \in Nat /\ m # L
    <3> DEFINE cell == e[3]
    <3>1. cell = <<L>>
      BY <1>1
    <3>2. m \in (0..(MAX_PAYLOAD_SIZE + 1)) \ {cell[1]}
      OBVIOUS
    <3> HIDE DEF cell
    <3>3. cell[1] = L
      BY <3>1
    <3> QED BY <3>2, <3>3, PayloadAssumption
  <2>3. <<m>> # <<L>>
    BY <2>2
  <2> QED BY <1>1, <2>1, <2>2, <2>3
<1>9. k \notin {1, 3} => c # e[k]
  <2> SUFFICES ASSUME k \notin {1, 3} PROVE c # e[k]
    OBVIOUS
  <2>1. c = <<255>> \o e[k]
    BY <1>2 DEF InvertedCells
  <2>2. \E S : e[k] \in Seq(S) /\ 255 \in S
    <3>1. CASE k = 2
      <4> DEFINE x == p.seqnum
      <4>1. e[k] = <<x>>
        BY <1>1, <3>1
      <4> HIDE DEF x
      <4>2. <<x>> \in Seq({255, x})
        OBVIOUS
      <4> WITNESS {255, x}
      <4> QED BY <4>1, <4>2
    <3>2. CASE k = 4
      <4>1. e[k] = <<69>>
        BY <1>1, <3>2
      <4>2. <<69>> \in Seq({255, 69})
        OBVIOUS
      <4> WITNESS {255, 69}
      <4> QED BY <4>1, <4>2
    <3>3. CASE k = 5
      <4> DEFINE h == HeaderOf(p)
                 cells == <<MaskTR(h[1]), h[2], h[3], h[4]>>
      <4>1. e[k] = <<32, cells>>
        BY <1>1, <3>3 DEF HeaderCRC, crc32
      <4> HIDE DEF cells
      <4>2. <<32, cells>> \in Seq({255, 32, cells})
        OBVIOUS
      <4> WITNESS {255, 32, cells}
      <4> QED BY <4>1, <4>2
    <3>4. CASE k \in 6..(5 + L)
      <4>1. k - 5 \in 1..L /\ 5 + (k - 5) = k
        BY <1>1, <3>4
      <4>2. p.payload \in Seq(Seq(Nat)) /\ k - 5 \in 1..Len(p.payload)
        BY <4>1 DEF Encodable, L
      <4>3. p.payload[k - 5] \in Seq(Nat)
        BY <4>2, ElementOfSeq
      <4>4. e[5 + (k - 5)] = p.payload[k - 5]
        BY <1>1, <4>1
      <4>5. e[k] \in Seq(Nat) /\ 255 \in Nat
        BY <4>1, <4>3, <4>4
      <4> QED BY <4>5
    <3>5. CASE L # 0 /\ k = 5 + L + 1
      <4>1. e[k] = <<32, p.payload>>
        BY <1>1, <3>5 DEF crc32
      <4> DEFINE cells == p.payload
      <4> HIDE DEF cells
      <4>2. <<32, cells>> \in Seq({255, 32, cells})
        OBVIOUS
      <4> WITNESS {255, 32, cells}
      <4> QED BY <4>1, <4>2 DEF cells
    <3>6. k = 2 \/ k = 4 \/ k = 5 \/ k \in 6..(5 + L) \/ (L # 0 /\ k = 5 + L + 1)
      BY <1>1, <1>5
    <3> QED BY <3>1, <3>2, <3>3, <3>4, <3>5, <3>6
  <2>3. PICK S : e[k] \in Seq(S) /\ 255 \in S
    BY <2>2
  <2> QED BY <2>1, <2>3, LongerCell
<1>10. c # e[k]
  BY <1>7, <1>8, <1>9
<1> QED BY <1>5, <1>6, <1>7, <1>8, <1>10 DEF e, n

\* Whichever cell of a datagram is inverted, it is rejected.
LEMMA InvertedRejected ==
  ASSUME NEW p, Encodable(p), NEW k \in DOMAIN pkt_encode(p),
         NEW c \in InvertedCells(pkt_encode(p), k),
         NEW D, \A j \in 1..Len(pkt_encode(p)) :
                  D[j] = [pkt_encode(p) EXCEPT ![k] = c][j]
  PROVE  pkt_decode(D, Len(pkt_encode(p))).status # "PKT_OK"
<1> DEFINE e == pkt_encode(p)
           r == [e EXCEPT ![k] = c]
           n == Len(e)
           L == Len(p.payload)
           h == HeaderOf(p)
<1>1. /\ L \in Nat /\ n = IF L = 0 THEN 5 ELSE 5 + L + 1
      /\ e[1] = <<p.type, 0, p.window>> /\ e[2] = <<p.seqnum>>
      /\ e[3] = <<L>> /\ e[4] = <<69>>
      /\ e[5] = HeaderCRC(h)
      /\ \A j \in 1..L : e[5 + j] = p.payload[j]
      /\ L # 0 => e[5 + L + 1] = crc32(p.payload)
  BY EncodeCells DEF HEADER, Encodable
<1>2. /\ k \in 1..n /\ r[k] = c /\ c # e[k]
      /\ \A j \in 1..n : j # k => r[j] = e[j]
      /\ k = 1 => c = <<3 - p.type, 1, 31 - p.window>>
  BY InvertedDiffers
<1>3. \A j \in 1..n : D[j] = r[j]
  OBVIOUS
<1> HIDE DEF e, r, n, L
<1>4. D[k] = c /\ \A j \in 1..n : j # k => D[j] = e[j]
  BY <1>2, <1>3
<1> DEFINE sent == <<MaskTR(e[1]), e[2], e[3], e[4]>>
           got  == <<MaskTR(D[1]), D[2], D[3], D[4]>>
<1>5. e[5] = crc32(sent) /\ HeaderCRC(D) = crc32(got)
  <2>1. MaskTR(h[1]) = MaskTR(e[1]) /\ h[2] = e[2] /\ h[3] = e[3] /\ h[4] = e[4]
    BY <1>1 DEF HeaderOf, MaskTR, L
  <2> QED BY <1>1, <2>1 DEF HeaderCRC
<1>6. 1 \in 1..n /\ 2 \in 1..n /\ 3 \in 1..n /\ 4 \in 1..n /\ 5 \in 1..n
  BY <1>1
<1>7. CASE k \in 1..4
  <2>1. D[5] = e[5]
    BY <1>4, <1>6, <1>7
  <2>2. sent # got
    <3>1. CASE k = 1
      <4>1. MaskTR(e[1]) = <<p.type, 0, p.window>>
        BY <1>1 DEF MaskTR
      <4>2. MaskTR(D[1]) = <<3 - p.type, 0, 31 - p.window>>
        BY <1>2, <1>4, <3>1 DEF MaskTR
      <4>3. p.type \in Int /\ 3 - p.type # p.type
        BY DEF Encodable, PTYPE_DATA, PTYPE_ACK, PTYPE_NACK
      <4> QED BY <4>1, <4>2, <4>3
    <3>2. CASE k \in 2..4
      <4>1. sent[2] = e[2] /\ sent[3] = e[3] /\ sent[4] = e[4]
            /\ got[2] = D[2] /\ got[3] = D[3] /\ got[4] = D[4]
        OBVIOUS
      <4> HIDE DEF sent, got
      <4>2. k = 2 \/ k = 3 \/ k = 4
        BY <3>2
      <4> QED BY <1>2, <1>4, <4>1, <4>2
    <3> QED BY <1>7, <3>1, <3>2
  <2> HIDE DEF sent, got
  <2>3. D[HEADER] # HeaderCRC(D)
    BY <1>5, <2>1, <2>2, CRCInjective DEF HEADER
  <2> QED BY <2>3, RejectsHeader
<1>8. CASE k = 5
  <2>1. D[1] = e[1] /\ D[2] = e[2] /\ D[3] = e[3] /\ D[4] = e[4]
    BY <1>4, <1>6, <1>8
  <2>2. HeaderCRC(D) = e[5]
    BY <1>5, <2>1
  <2>3. D[HEADER] # HeaderCRC(D)
    BY <1>2, <1>4, <1>8, <2>2 DEF HEADER
  <2> QED BY <2>3, RejectsHeader
<1>9. CASE k > 5
  <2>1. L # 0 /\ n = 5 + L + 1 /\ k \in 6..(5 + L + 1)
    BY <1>1, <1>2, <1>9
  <2>2. D[3] = <<L>>
    BY <1>1, <1>4, <1>6, <1>9
  <2>3. D[3][1] = L
    BY <2>2
  <2> DEFINE tail == SubSeq(D, 6, 5 + L)
  <2>4. \A j \in 1..L : tail[j] = D[5 + j]
    <3> DEFINE S == {D[i] : i \in 6..(5 + L)}
    <3>1. \A i \in 6..(5 + L) : D[i] \in S
      OBVIOUS
    <3> HIDE DEF S
    <3>2. \A i \in 1..((5 + L) - 6 + 1) : tail[i] = D[6 + i - 1]
      BY <1>1, <3>1, SubSeqProperties
    <3>3. (5 + L) - 6 + 1 = L /\ \A i \in 1..L : 6 + i - 1 = 5 + i
      BY <1>1
    <3> QED BY <3>2, <3>3
  <2> HIDE DEF tail
  <2>5. D[5 + L + 1] # crc32(tail)
    <3>1. CASE k = 5 + L + 1
      <4>1. \A j \in 1..L : D[5 + j] = p.payload[j]
        <5>1. \A j \in 1..L : 5 + j \in 1..n /\ 5 + j # k
          BY <1>1, <2>1, <3>1
        <5> QED BY <1>1, <1>4, <5>1
      <4>2. tail = p.payload
        BY <4>1, PayloadCells DEF Encodable, L, tail
      <4> QED BY <1>1, <1>2, <1>4, <2>1, <3>1, <4>2
    <3>2. CASE k \in 6..(5 + L)
      <4>1. k - 5 \in 1..L /\ 5 + (k - 5) = k
        BY <1>1, <3>2
      <4>2. tail[k - 5] = c /\ p.payload[k - 5] = e[k]
        BY <1>1, <1>4, <2>4, <4>1
      <4>3. tail # p.payload
        BY <1>2, <4>2
      <4>4. 5 + L + 1 # k /\ 5 + L + 1 \in 1..n
        BY <1>1, <2>1, <3>2
      <4>5. D[5 + L + 1] = crc32(p.payload)
        BY <1>1, <1>4, <2>1, <4>4
      <4> QED BY <4>3, <4>5, CRCInjective
    <3> QED BY <1>1, <2>1, <3>1, <3>2
  <2>6. HEADER + L # n /\ HEADER + L + 1 = 5 + L + 1 /\ HEADER + 1 = 6 /\ HEADER + L = 5 + L
    BY <1>1, <2>1 DEF HEADER
  <2> HIDE DEF L
  <2>7. D[HEADER + D[3][1] + 1] # crc32(SubSeq(D, HEADER + 1, HEADER + D[3][1]))
    BY <2>3, <2>5, <2>6 DEF tail
  <2>8. D[3][1] # 0 /\ HEADER + D[3][1] # n
    BY <2>1, <2>3, <2>6
  <2> QED BY <2>7, <2>8, RejectsPayload DEF n, e
<1>10. k \in 1..4 \/ k = 5 \/ k > 5
  BY <1>1, <1>2
<1> QED BY <1>7, <1>8, <1>9, <1>10

\* Of what the link may make of an encoded segment, pkt_decode accepts just
\* what is the segment up to TR, whatever follows it in the buffer, and gives
\* back its type, number and payload (packet_implem.c:90-156).  What it refuses
\* includes the segment truncated to its header, if it had a payload.
THEOREM DecodesWhatWasSent ==
  ASSUME NEW p, Encodable(p), NEW r \in Arriving(pkt_encode(p)),
         NEW D, \A j \in 1..Len(r) : D[j] = r[j]
  PROVE  LET d == pkt_decode(D, Len(r))
         IN  /\ d.status = "PKT_OK" <=> SetTR(r, 0) = pkt_encode(p)
             /\ d.status = "PKT_OK" => /\ d.type = p.type /\ d.seqnum = p.seqnum
                                       /\ d.payload = p.payload
<1> DEFINE e == pkt_encode(p)
           n == Len(e)
           L == Len(p.payload)
           d == pkt_decode(D, Len(r))
<1>1. L \in Nat /\ n = IF L = 0 THEN 5 ELSE 5 + L + 1
  BY EncodeCells DEF HEADER
<1>2. SetTR(e, 0) = e
  <2> DEFINE m == SetTR(e, 0)
  <2>1. m[1] = <<p.type, 0, p.window>> /\ \A k \in 2..n : m[k] = e[k]
    BY SetTRCells
  <2>2. e = [k \in 1..n |-> e[k]] /\ e[1] = <<p.type, 0, p.window>>
    BY EncodeCells DEF Encodable
  <2>3. m = [k \in 1..n |-> m[k]]
    BY <2>2 DEF SetTR
  <2> HIDE DEF m, e
  <2>4. \A k \in 1..n : m[k] = e[k]
    <3>1. \A k \in 1..n : k = 1 \/ k \in 2..n
      BY <1>1
    <3> QED BY <2>1, <2>2, <3>1
  <2>5. m = e
    BY <2>2, <2>3, <2>4
  <2> QED BY <2>5 DEF m
<1>3. ASSUME NEW tr, r = SetTR(e, tr)
      PROVE  /\ SetTR(r, 0) = e /\ d.status = "PKT_OK"
             /\ d.type = p.type /\ d.seqnum = p.seqnum /\ d.payload = p.payload
  <2>1. /\ Len(r) = n /\ r[1] = <<p.type, tr, p.window>>
        /\ \A k \in 2..n : r[k] = e[k]
        /\ SetTR(r, 0) = e
    BY <1>3, SetTRCells
  <2>2. D[1] = <<p.type, tr, p.window>> /\ \A k \in 2..n : D[k] = e[k]
    <3>1. 1 \in 1..n /\ \A k \in 2..n : k \in 1..n
      BY <1>1
    <3> QED BY <2>1, <3>1
  <2>3. d = [status |-> "PKT_OK", type |-> p.type, tr |-> tr,
             seqnum |-> p.seqnum, payload |-> p.payload]
    BY <2>1, <2>2, DecodesEncoded
  <2> QED BY <2>1, <2>3
<1>4. CASE r = e
  BY <1>2, <1>3, <1>4
<1>5. CASE r = SetTR(e, 1)
  BY <1>3, <1>5
<1>6. CASE r = Truncated(e)
  <2> DEFINE m == SetTR(e, 1)
             S == {m[i] : i \in 1..n}
  <2>1. Len(m) = n /\ m[1] = <<p.type, 1, p.window>> /\ \A k \in 2..n : m[k] = e[k]
    BY SetTRCells
  <2>2. \A i \in 1..5 : m[i] \in S
    BY <1>1
  <2> HIDE DEF m, S
  <2>3. /\ SubSeq(m, 1, 5) \in Seq(S)
        /\ Len(SubSeq(m, 1, 5)) = IF 1 <= 5 THEN 5 - 1 + 1 ELSE 0
        /\ \A i \in 1..(5 - 1 + 1) : SubSeq(m, 1, 5)[i] = m[1 + i - 1]
    BY <2>2, SubSeqProperties
  <2>4. r = SubSeq(m, 1, 5)
    BY <1>6 DEF Truncated, HEADER, m
  <2>5. Len(r) = 5 /\ r \in Seq(S) /\ \A i \in 1..5 : r[i] = m[i]
    BY <2>3, <2>4
  <2>6. CASE L = 0
    <3>1. m = [k \in 1..n |-> m[k]] /\ n = 5
      <4>1. e = [k \in 1..n |-> e[k]]
        BY EncodeCells
      <4> QED BY <1>1, <2>6, <4>1 DEF m, SetTR
    <3>2. m \in Seq(S)
      BY <2>2, <3>1
    <3>3. r = m
      BY <2>1, <2>5, <3>1, <3>2, SeqEqual
    <3> QED BY <1>3, <3>3 DEF m
  <2>7. CASE L # 0
    <3>1. Len(r) # n /\ Len(r) = HEADER
      BY <1>1, <2>5, <2>7 DEF HEADER
    <3>2. SetTR(r, 0) # e
      <4>1. Len(SetTR(r, 0)) = Len(r)
        BY <2>5 DEF SetTR
      <4> QED BY <3>1, <4>1
    <3>3. D[3][1] = L
      <4>1. D[3] = e[3] /\ e[3] = <<L>>
        <5>1. 3 \in 1..5 /\ 3 \in 2..n
          BY <1>1
        <5> QED BY <2>1, <2>5, <5>1, EncodeCells
      <4> DEFINE cell == D[3]
      <4>2. cell = <<L>>
        BY <4>1
      <4> HIDE DEF cell
      <4>3. cell[1] = L
        BY <4>2
      <4> QED BY <4>3 DEF cell
    <3>4. d.status # "PKT_OK"
      BY <1>1, <2>7, <3>1, <3>3, RejectsCut
    <3> QED BY <3>2, <3>4
  <2> QED BY <2>6, <2>7
<1>7. CASE r \in Inverted(e)
  <2>0. PICK k \in DOMAIN e : \E x \in InvertedCells(e, k) : r = [e EXCEPT ![k] = x]
    BY <1>7 DEF Inverted
  <2>1. PICK c \in InvertedCells(e, k) : r = [e EXCEPT ![k] = c]
    BY <2>0
  <2>2. /\ k \in 1..n /\ r[k] = c /\ Len(r) = n /\ c # e[k]
        /\ k = 1 => c = <<3 - p.type, 1, 31 - p.window>>
    BY <2>1, InvertedDiffers
  <2>3. d.status # "PKT_OK"
    BY <2>1, <2>2, InvertedRejected
  <2>4. SetTR(r, 0) # e
    <3>1. CASE k = 1
      <4> DEFINE first == r[1]
      <4>1. first = <<3 - p.type, 1, 31 - p.window>>
        BY <2>2, <3>1
      <4> HIDE DEF first
      <4>2. [first EXCEPT ![2] = 0] = <<3 - p.type, 0, 31 - p.window>>
        BY <4>1, TripleExcept
      <4>3. DOMAIN r = DOMAIN e /\ 1 \in DOMAIN e
        BY <2>1, <3>1
      <4>4. SetTR(r, 0)[1] = <<3 - p.type, 0, 31 - p.window>>
        BY <4>2, <4>3 DEF SetTR, first
      <4>5. e[1] = <<p.type, p.tr, p.window>>
        BY EncodeCells
      <4>6. 3 - p.type # p.type
        BY DEF Encodable, PTYPE_DATA, PTYPE_ACK, PTYPE_NACK
      <4> HIDE DEF e
      <4> QED BY <4>4, <4>5, <4>6
    <3>2. CASE k # 1
      <4>1. SetTR(r, 0)[k] = r[k]
        BY <2>1, <3>2 DEF SetTR
      <4> QED BY <2>2, <4>1
    <3> QED BY <3>1, <3>2
  <2> QED BY <2>3, <2>4
<1> QED BY <1>4, <1>5, <1>6, <1>7 DEF Arriving

-----------------------------------------------------------------------------
(* malloc, the stream, and what the receiver takes from a datagram. *)

\* Every set of naturals that is not empty has a least member.
LEMMA LeastNatural ==
  ASSUME NEW S, S \subseteq Nat, S # {}
  PROVE  \E m \in S : \A n \in S : m <= n
<1>1. PICK m \in S : \A n \in S : ~(<<n, m>> \in OpToRel(<, Nat))
  BY NatLessThanWellFounded, WFMin
<1>2. \A n \in S : ~(n < m)
  BY <1>1 DEF OpToRel
<1> QED BY <1>2

\* malloc returns a block that was free, and NULL is no block.
LEMMA MallocFacts ==
  /\ NULL \notin Blocks
  /\ MayAllocate => malloc \in Blocks /\ heap[malloc] = Free
<1>1. NBlocks \in Nat /\ NULL \notin Blocks
  BY MemoryAssumption DEF Blocks, NULL
<1>2. ASSUME MayAllocate PROVE malloc \in Blocks /\ heap[malloc] = Free
  <2> DEFINE S == {b \in Blocks : heap[b] = Free}
  <2>1. S \subseteq Nat /\ S # {}
    BY <1>1, <1>2 DEF MayAllocate, Blocks
  <2>2. PICK m \in S : \A b \in S : m <= b
    BY <2>1, LeastNatural
  <2>3. m \in Blocks /\ heap[m] = Free /\ m \in Nat
    BY <2>1
  <2>4. \A c \in 1..(m - 1) : heap[c] # Free
    <3>1. \A c \in 1..(m - 1) : c \in Blocks /\ ~(m <= c)
      BY <1>1, <2>3 DEF Blocks
    <3> QED BY <2>2, <3>1
  <2> HIDE DEF S
  <2>5. \E b \in Blocks : heap[b] = Free /\ \A c \in 1..(b - 1) : heap[c] # Free
    BY <2>3, <2>4
  <2> QED BY <2>5 DEF malloc
<1> QED BY <1>1, <1>2

\* A chunk of the stream is not empty and fits a segment.
LEMMA StreamFacts ==
  /\ Len(Stream) \in Nat
  /\ \A n \in 0..(Len(Stream) - 1) :
       /\ Stream[n + 1] \in Seq(Seq(Nat)) /\ Stream[n + 1] # Free
       /\ Len(Stream[n + 1]) <= MAX_PAYLOAD_SIZE
<1>1. Len(Stream) \in Nat /\ DOMAIN Stream = 1..Len(Stream)
  BY MemoryAssumption
<1>2. ASSUME NEW n \in 0..(Len(Stream) - 1)
      PROVE  /\ Stream[n + 1] \in Seq(Seq(Nat)) /\ Stream[n + 1] # Free
             /\ Len(Stream[n + 1]) <= MAX_PAYLOAD_SIZE
  <2>1. n + 1 \in 1..Len(Stream)
    BY <1>1
  <2>2. Stream[n + 1] \in Seq(Seq(Nat))
    BY <2>1, MemoryAssumption, ElementOfSeq
  <2>3. Len(Stream[n + 1]) \in 1..MAX_PAYLOAD_SIZE
    BY <1>1, <2>1, MemoryAssumption
  <2>4. Stream[n + 1] # <<>>
    <3>1. Len(<<>>) = 0
      OBVIOUS
    <3> QED BY <2>3, <3>1
  <2> QED BY <2>2, <2>3, <2>4, PayloadAssumption DEF Free
<1> QED BY <1>1, <1>2

\* What either program sends can be encoded.
LEMMA SegmentFacts ==
  ASSUME NEW type \in {PTYPE_DATA, PTYPE_ACK, PTYPE_NACK}, NEW nth \in Nat
  PROVE  LET s == Segment(type, nth)
         IN  /\ Encodable(s) /\ s.seqnum = nth % SeqSpace
             /\ type = PTYPE_DATA /\ nth < Len(Stream) => s.payload = Stream[nth + 1]
             /\ ~(type = PTYPE_DATA /\ nth < Len(Stream)) => s.payload = <<>>
<1> DEFINE data == IF type = PTYPE_DATA /\ nth < Len(Stream)
                   THEN Stream[nth + 1] ELSE <<>>
<1>1. data \in Seq(Seq(Nat)) /\ Len(data) <= MAX_PAYLOAD_SIZE
  <2>1. CASE type = PTYPE_DATA /\ nth < Len(Stream)
    <3>1. nth \in 0..(Len(Stream) - 1)
      BY <2>1, StreamFacts
    <3> QED BY <2>1, <3>1, StreamFacts
  <2>2. CASE ~(type = PTYPE_DATA /\ nth < Len(Stream))
    <3>1. <<>> \in Seq(Seq(Nat)) /\ Len(<<>>) = 0
      OBVIOUS
    <3> QED BY <2>2, <3>1, PayloadAssumption
  <2> QED BY <2>1, <2>2
<1> DEFINE s == Segment(type, nth)
<1>2. s.payload = data /\ s.type = type /\ s.tr = 0 /\ s.seqnum = nth % SeqSpace
  BY DEF Segment
<1> HIDE DEF s
<1> QED BY <1>1, <1>2 DEF Encodable, s

\* The slots from 1 on that are in use without a gap.
LEMMA InOrderFacts ==
  /\ InOrder \in Slots /\ 1..InOrder \subseteq InUse
  /\ InOrder + 1 \in Slots => InOrder + 1 \notin InUse
<1> DEFINE S == {d \in Slots : d + 1 \in Slots => d + 1 \notin InUse}
<1>1. S \subseteq Nat /\ S # {}
  <2>1. MAX_WINDOW_SIZE - 1 \in S
    BY SizeFacts, SlotBounds
  <2> QED BY <2>1, SlotBounds
<1>2. PICK m \in S : \A d \in S : m <= d
  BY <1>1, LeastNatural
<1>3. m \in Slots /\ m \in Nat /\ (m + 1 \in Slots => m + 1 \notin InUse)
  BY <1>1
<1>4. ASSUME NEW j \in 1..m PROVE j \in InUse
  <2>1. j - 1 \in Slots /\ j \in Slots /\ ~(m <= j - 1) /\ (j - 1) + 1 = j
    <3>1. m < MAX_WINDOW_SIZE /\ MAX_WINDOW_SIZE \in Nat
      BY <1>3, SlotBounds, SizeFacts
    <3>2. j - 1 \in Int /\ 0 <= j - 1 /\ j - 1 < m /\ j < MAX_WINDOW_SIZE /\ 0 <= j
      BY <1>3, <3>1
    <3> QED BY <1>3, <3>1, <3>2, SlotBounds
  <2>2. j - 1 \notin S
    BY <1>2, <2>1
  <2> QED BY <2>1, <2>2
<1> HIDE DEF S
<1>5. \E d \in Slots : 1..d \subseteq InUse /\ (d + 1 \in Slots => d + 1 \notin InUse)
  BY <1>3, <1>4
<1> QED BY <1>5 DEF InOrder

\* A datagram over buf_rcv, whatever buf_rcv holds.
LEMMA ReadCells ==
  ASSUME NEW type \in {PTYPE_DATA, PTYPE_ACK, PTYPE_NACK}, NEW nth \in Nat,
         NEW datagram \in Arriving(pkt_encode(Segment(type, nth)))
  PROVE  LET s == Segment(type, nth)
             d == pkt_decode(Read(datagram), Len(datagram))
         IN  /\ d.status = "PKT_OK" <=> SetTR(datagram, 0) = pkt_encode(s)
             /\ d.status = "PKT_OK" => /\ d.type = s.type /\ d.seqnum = s.seqnum
                                       /\ d.payload = s.payload
<1> DEFINE s == Segment(type, nth)
           e == pkt_encode(s)
<1>1. Encodable(s)
  BY SegmentFacts
<1>2. Len(datagram) \in 0..Len(e)
  <2> HIDE DEF s
  <2>1. e = [k \in 1..Len(e) |-> e[k]] /\ Len(e) \in Nat /\ HEADER <= Len(e)
    BY <1>1, EncodeCells DEF HEADER
  <2>2. \A tr : Len(SetTR(e, tr)) = Len(e)
    BY <1>1, SetTRCells
  <2>3. CASE datagram = Truncated(e)
    <3> DEFINE m == SetTR(e, 1)
               S == {m[i] : i \in 1..HEADER}
    <3>1. \A i \in 1..HEADER : m[i] \in S
      OBVIOUS
    <3> HIDE DEF m, S
    <3>2. Len(SubSeq(m, 1, 5)) = IF 1 <= 5 THEN 5 - 1 + 1 ELSE 0
      BY <3>1, SubSeqProperties DEF HEADER
    <3> QED BY <2>1, <2>3, <3>2 DEF Truncated, HEADER, m
  <2>4. CASE datagram \in Inverted(e)
    <3>1. PICK k \in DOMAIN e : \E x \in InvertedCells(e, k) : datagram = [e EXCEPT ![k] = x]
      BY <2>4 DEF Inverted
    <3>2. PICK c \in InvertedCells(e, k) : datagram = [e EXCEPT ![k] = c]
      BY <3>1
    <3>3. Len(datagram) = Len(e)
      BY <1>1, <3>2, InvertedDiffers
    <3> QED BY <2>1, <3>3
  <2>5. CASE datagram = e \/ datagram = SetTR(e, 1)
    BY <2>1, <2>2, <2>5
  <2> QED BY <2>3, <2>4, <2>5 DEF Arriving, s
<1>3. Len(e) <= MaxLen /\ Len(e) \in Nat
  <2> HIDE DEF s
  <2>1. /\ Len(s.payload) \in Nat /\ Len(s.payload) <= MAX_PAYLOAD_SIZE
        /\ Len(e) = IF Len(s.payload) = 0 THEN 5 ELSE 5 + Len(s.payload) + 1
    BY <1>1, EncodeCells DEF HEADER, Encodable
  <2> QED BY <2>1, PayloadAssumption DEF MaxLen, HEADER
<1>4. \A j \in 1..Len(datagram) : Read(datagram)[j] = datagram[j]
  <2>1. \A j \in 1..Len(datagram) : j \in 1..MaxLen /\ j <= Len(datagram)
    BY <1>2, <1>3, PayloadAssumption DEF MaxLen, HEADER
  <2> QED BY <2>1 DEF Read
<1> HIDE DEF s
<1> QED BY <1>1, <1>4, DecodesWhatWasSent DEF s

-----------------------------------------------------------------------------
(* The invariant. *)

IInv == MemoryInv /\ NoMisuse /\ PayloadIntact

\* The parts of the invariant, as the steps below use them.
LEMMA IInvFacts ==
  ASSUME IInv
  PROVE  /\ program \in {"sender", "receiver", "stopped"}
         /\ position \in Nat /\ position <= Len(Stream) /\ Len(Stream) \in Nat
         /\ buffer \in [Slots -> [nth : -1..Len(Stream), payload : Blocks \cup {NULL}]]
         /\ payload \in Blocks \cup {NULL} /\ DOMAIN heap = Blocks
         /\ payload = NULL \/ (payload \in Blocks /\ heap[payload] # Free)
         /\ ~misuse
         /\ \A chunk \in output : chunk[2] = Stream[chunk[1] + 1]
  BY StreamFacts DEF IInv, MemoryInv, TypeOK, Ownership, Allocated, NoMisuse, PayloadIntact

\* A block before a turn that no turn before it has freed.
LEMMA BeforeFacts ==
  ASSUME NEW mem, NEW turns, NEW j, NEW b \in Blocks,
         \A i \in DOMAIN turns : i < j => turns[i].free # b
  PROVE  Before(mem, turns, j)[b] = mem[b]
<1>1. ~(\E i \in {i \in DOMAIN turns : i < j} : turns[i].free = b)
  OBVIOUS
<1> QED BY <1>1 DEF Before, After

\* The heap after turns each of which uses blocks that were allocated and that
\* no turn before it has freed.
LEMMA UseFacts ==
  ASSUME NEW mem, NEW turns, Use(mem, turns), ~misuse,
         \A j \in DOMAIN turns : \A b \in {turns[j].read, turns[j].free} \ {NULL} :
           /\ b \in Blocks /\ mem[b] # Free
           /\ \A i \in DOMAIN turns : i < j => turns[i].free # b
  PROVE  /\ ~misuse' /\ DOMAIN heap' = Blocks
         /\ \A b \in Blocks :
              (\A i \in DOMAIN turns : turns[i].free # b) => heap'[b] = mem[b]
<1>1. ASSUME NEW j \in DOMAIN turns, NEW b \in {turns[j].read, turns[j].free} \ {NULL}
      PROVE  Before(mem, turns, j)[b] # Free
  <2>1. b \in Blocks /\ mem[b] # Free /\ \A i \in DOMAIN turns : i < j => turns[i].free # b
    OBVIOUS
  <2>2. Before(mem, turns, j)[b] = mem[b]
    BY <2>1, BeforeFacts
  <2> QED BY <2>1, <2>2
<1>2. ~misuse'
  BY <1>1 DEF Use
<1>3. heap' = [b \in Blocks |-> IF \E i \in DOMAIN turns : turns[i].free = b
                                THEN Free ELSE mem[b]]
  BY DEF Use, After
<1> QED BY <1>2, <1>3

\* A single turn.
LEMMA UseOne ==
  ASSUME NEW mem, NEW read, NEW free, Use(mem, <<Turn(read, free)>>), ~misuse,
         \A b \in {read, free} \ {NULL} : b \in Blocks /\ mem[b] # Free
  PROVE  /\ ~misuse' /\ DOMAIN heap' = Blocks
         /\ \A b \in Blocks : b # free => heap'[b] = mem[b]
<1> DEFINE turns == <<Turn(read, free)>>
<1>1. /\ DOMAIN turns = {1} /\ turns[1].read = read /\ turns[1].free = free
      /\ Use(mem, turns)
  BY DEF Turn
<1> HIDE DEF turns
<1>2. ~(1 < 1)
  OBVIOUS
<1>3. \A j \in DOMAIN turns : \A b \in {turns[j].read, turns[j].free} \ {NULL} :
        /\ b \in Blocks /\ mem[b] # Free
        /\ \A i \in DOMAIN turns : i < j => turns[i].free # b
  BY <1>1, <1>2
<1> QED BY <1>1, <1>3, UseFacts

\* pkt_set_payload fills a block that nobody owned.
LEMMA SetPayloadFacts ==
  ASSUME MayAllocate, NEW data, data # Free
  PROVE  LET thePkt == pkt_set_payload(data)
         IN  /\ thePkt.payload \in Blocks /\ heap[thePkt.payload] = Free
             /\ thePkt.heap[thePkt.payload] = data
             /\ \A b \in Blocks : heap[b] # Free => thePkt.heap[b] = heap[b]
<1>1. malloc \in Blocks /\ heap[malloc] = Free
  BY MallocFacts
<1> DEFINE m == malloc
<1> HIDE DEF m
<1>2. /\ Filled(heap, m, data)[m] = data
      /\ \A b \in Blocks : heap[b] # Free => Filled(heap, m, data)[b] = heap[b]
  BY <1>1 DEF Filled, m
<1> QED BY <1>1, <1>2 DEF pkt_set_payload, m

\* free_all keeps the invariant: the program is over, and the payload that
\* thePkt holds is freed once.
LEMMA FreeAllKeeps ==
  ASSUME IInv, NEW thePkt, free_all(thePkt), UNCHANGED <<position, output>>,
         thePkt.payload # NULL => /\ thePkt.payload \in Blocks
                                  /\ thePkt.heap[thePkt.payload] # Free,
         buffer' \in [Slots -> [nth : -1..Len(Stream), payload : Blocks \cup {NULL}]]
  PROVE  IInv'
<1>1. /\ program' = "stopped" /\ payload' = NULL
      /\ Use(thePkt.heap, <<Turn(NULL, thePkt.payload)>>)
  BY DEF free_all
<1>2. ~misuse
  BY IInvFacts
<1>3. \A b \in {NULL, thePkt.payload} \ {NULL} : b \in Blocks /\ thePkt.heap[b] # Free
  OBVIOUS
<1>4. ~misuse' /\ DOMAIN heap' = Blocks
  BY <1>1, <1>2, <1>3, UseOne
<1>5. TypeOK'
  BY <1>1, <1>4 DEF TypeOK, IInv, MemoryInv
<1>6. Ownership'
  BY <1>1 DEF Ownership
<1>7. PayloadIntact'
  BY DEF PayloadIntact, IInv
<1> QED BY <1>4, <1>5, <1>6, <1>7 DEF IInv, MemoryInv, NoMisuse

\* A step of a sender or of a receiver: what is left to show of Ownership.
LEMMA SenderOwns ==
  ASSUME program' = "sender",
         payload' = NULL \/ (payload' \in Blocks /\ heap'[payload'] # Free),
         \A i \in InUse' :
           /\ buffer'[i].nth \in 0..(Len(Stream) - 1) /\ buffer'[i].nth < position'
           /\ buffer'[i].payload \in Blocks /\ heap'[buffer'[i].payload] # Free
           /\ heap'[buffer'[i].payload] = Stream[buffer'[i].nth + 1]
  PROVE  Ownership'
  BY DEF Ownership, Allocated, Holds

-----------------------------------------------------------------------------
(* The sender's steps. *)

\* The slots of the sender that are in use.
LEMMA SenderSlots ==
  ASSUME IInv, program = "sender"
  PROVE  \A i \in InUse :
           /\ i \in Slots /\ buffer[i].nth \in 0..(Len(Stream) - 1)
           /\ buffer[i].nth < position
           /\ buffer[i].payload \in Blocks /\ heap[buffer[i].payload] # Free
           /\ heap[buffer[i].payload] = Stream[buffer[i].nth + 1]
  BY DEF IInv, MemoryInv, Ownership, Allocated, Holds, InUse

LEMMA GiveUpKeeps == ASSUME IInv, GiveUp PROVE IInv'
<1>1. free_all(Now) /\ UNCHANGED <<position, buffer, output>>
  BY DEF GiveUp
<1>2. Now.payload = payload /\ Now.heap = heap
  BY DEF Now
<1>3. buffer' \in [Slots -> [nth : -1..Len(Stream), payload : Blocks \cup {NULL}]]
  BY <1>1, IInvFacts
<1> HIDE DEF Now
<1> QED BY <1>1, <1>2, <1>3, IInvFacts, FreeAllKeeps

LEMMA SendDecoKeeps == ASSUME IInv, SendDeco PROVE IInv'
<1>1. /\ position = Len(Stream) /\ free_all(Now) /\ UNCHANGED <<position, output>>
      /\ buffer' = [buffer EXCEPT ![position % MAX_WINDOW_SIZE] =
                      [nth |-> position, payload |-> NULL]]
  BY DEF SendDeco
<1>2. Now.payload = payload /\ Now.heap = heap
  BY DEF Now
<1>3. buffer' \in [Slots -> [nth : -1..Len(Stream), payload : Blocks \cup {NULL}]]
  <2> DEFINE slot == [nth |-> position, payload |-> NULL]
  <2>1. slot \in [nth : -1..Len(Stream), payload : Blocks \cup {NULL}]
    BY <1>1, IInvFacts
  <2> HIDE DEF slot
  <2> QED BY <1>1, <2>1, IInvFacts DEF slot
<1> HIDE DEF Now
<1> QED BY <1>1, <1>2, <1>3, IInvFacts, FreeAllKeeps

\* The chunk that is read gets a block of its own, which nobody points to, so
\* no slot loses its content; the slot it takes had been acknowledged.
LEMMA SendDataKeeps == ASSUME IInv, SendData PROVE IInv'
<1> DEFINE thePkt == pkt_set_payload(Stream[position + 1])
           k == position % MAX_WINDOW_SIZE
<1>1. /\ program = "sender" /\ position < Len(Stream) /\ MayAllocate
      /\ payload' = thePkt.payload
      /\ buffer' = [buffer EXCEPT ![k] = [nth |-> position, payload |-> thePkt.payload]]
      /\ output' = output \cup {<<position, thePkt.heap[thePkt.payload]>>}
      /\ Use(thePkt.heap, <<Turn(thePkt.payload, NULL)>>)
      /\ position' = position + 1 /\ program' = program
  BY DEF SendData
<1>2. position \in 0..(Len(Stream) - 1) /\ k \in Slots
  BY <1>1, IInvFacts, ModFacts
<1>3. /\ thePkt.payload \in Blocks /\ heap[thePkt.payload] = Free
      /\ thePkt.heap[thePkt.payload] = Stream[position + 1]
      /\ \A b \in Blocks : heap[b] # Free => thePkt.heap[b] = heap[b]
      /\ Stream[position + 1] # Free
  BY <1>1, <1>2, StreamFacts, SetPayloadFacts
<1> HIDE DEF thePkt, k
<1>4. /\ ~misuse' /\ DOMAIN heap' = Blocks
      /\ \A b \in Blocks : heap'[b] = thePkt.heap[b]
  <2>1. \A b \in {thePkt.payload, NULL} \ {NULL} : b \in Blocks /\ thePkt.heap[b] # Free
    BY <1>3
  <2>2. /\ ~misuse' /\ DOMAIN heap' = Blocks
        /\ \A b \in Blocks : b # NULL => heap'[b] = thePkt.heap[b]
    BY <1>1, <2>1, UseOne, IInvFacts
  <2> QED BY <2>2, MallocFacts
<1> DEFINE slot == [nth |-> position, payload |-> thePkt.payload]
<1>5. slot \in [nth : -1..Len(Stream), payload : Blocks \cup {NULL}]
  BY <1>2, <1>3, StreamFacts
<1>6. slot.nth = position /\ slot.payload = thePkt.payload
  OBVIOUS
<1> HIDE DEF slot
<1>7. /\ buffer' = [buffer EXCEPT ![k] = slot]
      /\ buffer \in [Slots -> [nth : -1..Len(Stream), payload : Blocks \cup {NULL}]]
  BY <1>1, IInvFacts DEF slot
<1>8. TypeOK'
  <2>1. position' \in 0..Len(Stream)
    BY <1>1, <1>2, StreamFacts
  <2>2. buffer' \in [Slots -> [nth : -1..Len(Stream), payload : Blocks \cup {NULL}]]
    BY <1>2, <1>5, <1>7
  <2> QED BY <1>1, <1>3, <1>4, <2>1, <2>2 DEF TypeOK
<1>9. Ownership'
  <2>1. ASSUME NEW i \in InUse'
        PROVE  /\ buffer'[i].nth \in 0..(Len(Stream) - 1) /\ buffer'[i].nth < position'
               /\ buffer'[i].payload \in Blocks /\ heap'[buffer'[i].payload] # Free
               /\ heap'[buffer'[i].payload] = Stream[buffer'[i].nth + 1]
    <3>1. i \in Slots /\ buffer'[i] # Unused
      BY DEF InUse
    <3>2. CASE i = k
      <4>1. buffer'[i] = slot
        BY <1>2, <1>7, <3>2
      <4> QED BY <1>1, <1>2, <1>3, <1>4, <1>6, <4>1
    <3>3. CASE i # k
      <4>1. buffer'[i] = buffer[i]
        BY <1>7, <3>1, <3>3
      <4>2. i \in InUse
        BY <3>1, <4>1 DEF InUse
      <4> DEFINE b == buffer[i].payload
                 n == buffer[i].nth
      <4>3. /\ n \in 0..(Len(Stream) - 1) /\ n < position
            /\ b \in Blocks /\ heap[b] # Free /\ heap[b] = Stream[n + 1]
        BY <1>1, <4>2, SenderSlots
      <4>4. buffer'[i].payload = b /\ buffer'[i].nth = n
        BY <4>1
      <4> HIDE DEF b, n
      <4>5. heap'[b] = heap[b]
        BY <1>3, <1>4, <4>3
      <4>6. n < position'
        BY <1>1, <1>2, <4>3
      <4> QED BY <4>3, <4>4, <4>5, <4>6
    <3> QED BY <3>2, <3>3
  <2> QED BY <1>1, <1>3, <1>4, <2>1, SenderOwns
<1>10. PayloadIntact'
  <2>1. ASSUME NEW chunk \in output' PROVE chunk[2] = Stream[chunk[1] + 1]
    <3>1. CASE chunk \in output
      BY <3>1, IInvFacts
    <3>2. CASE chunk = <<position, thePkt.heap[thePkt.payload]>>
      BY <1>3, <3>2
    <3> QED BY <1>1, <3>1, <3>2
  <2> QED BY <2>1 DEF PayloadIntact
<1> QED BY <1>4, <1>8, <1>9, <1>10 DEF IInv, MemoryInv, NoMisuse

\* Sending slots again reads blocks that they own.
LEMMA ResendKeeps ==
  ASSUME IInv, program = "sender", NEW slots \in SUBSET InUse, Resend(slots)
  PROVE  IInv'
<1> DEFINE turns == [i \in slots |-> Turn(buffer[i].payload, NULL)]
<1>1. /\ output' = output \cup {<<buffer[i].nth, heap[buffer[i].payload]>> : i \in slots}
      /\ Use(heap, turns)
      /\ UNCHANGED <<program, position, buffer, payload>>
  BY DEF Resend
<1>2. \A i \in slots : /\ buffer[i].payload \in Blocks /\ heap[buffer[i].payload] # Free
                       /\ heap[buffer[i].payload] = Stream[buffer[i].nth + 1]
  BY SenderSlots
<1>3. /\ DOMAIN turns = slots
      /\ \A i \in slots : turns[i].read = buffer[i].payload /\ turns[i].free = NULL
  BY DEF Turn
<1> HIDE DEF turns
<1>4. ~misuse' /\ DOMAIN heap' = Blocks /\ \A b \in Blocks : heap'[b] = heap[b]
  <2>1. \A j \in DOMAIN turns : \A b \in {turns[j].read, turns[j].free} \ {NULL} :
          /\ b \in Blocks /\ heap[b] # Free
          /\ \A i \in DOMAIN turns : i < j => turns[i].free # b
    BY <1>2, <1>3
  <2>2. /\ ~misuse' /\ DOMAIN heap' = Blocks
        /\ \A b \in Blocks :
             (\A i \in DOMAIN turns : turns[i].free # b) => heap'[b] = heap[b]
    BY <1>1, <2>1, UseFacts, IInvFacts
  <2> QED BY <1>3, <2>2, MallocFacts
<1>5. TypeOK'
  BY <1>1, <1>4 DEF TypeOK, IInv, MemoryInv
<1>6. Ownership'
  <2>1. \A i \in InUse' :
          /\ buffer'[i].nth \in 0..(Len(Stream) - 1) /\ buffer'[i].nth < position'
          /\ buffer'[i].payload \in Blocks /\ heap'[buffer'[i].payload] # Free
          /\ heap'[buffer'[i].payload] = Stream[buffer'[i].nth + 1]
    <3>1. InUse' = InUse
      BY <1>1 DEF InUse
    <3> QED BY <1>1, <1>4, <3>1, SenderSlots
  <2>2. payload' = NULL \/ (payload' \in Blocks /\ heap'[payload'] # Free)
    BY <1>1, <1>4, IInvFacts
  <2> QED BY <1>1, <2>1, <2>2, SenderOwns
<1>7. PayloadIntact'
  <2>1. ASSUME NEW chunk \in output' PROVE chunk[2] = Stream[chunk[1] + 1]
    <3>1. CASE chunk \in output
      BY <3>1, IInvFacts
    <3>2. CASE chunk \in {<<buffer[i].nth, heap[buffer[i].payload]>> : i \in slots}
      BY <1>2, <3>2
    <3> QED BY <1>1, <3>1, <3>2
  <2> QED BY <2>1 DEF PayloadIntact
<1> QED BY <1>4, <1>5, <1>6, <1>7 DEF IInv, MemoryInv, NoMisuse

LEMMA TimeoutKeeps == ASSUME IInv, Timeout PROVE IInv'
<1>1. program = "sender" /\ \E i \in InUse : Resend({i})
  BY DEF Timeout
<1>2. PICK i \in InUse : Resend({i})
  BY <1>1
<1>3. {i} \in SUBSET InUse
  OBVIOUS
<1> QED BY <1>1, <1>2, <1>3, ResendKeeps

LEMMA ReceiveControlKeeps ==
  ASSUME IInv, NEW sent, NEW datagram, ReceiveControl(sent, datagram)
  PROVE  IInv'
<1> DEFINE d == pkt_decode(Read(datagram), Len(datagram))
           slots == IF d.status = "PKT_OK" /\ d.tr = 0 /\ d.type = PTYPE_NACK
                    THEN {i \in InUse : buffer[i].nth % SeqSpace = d.seqnum} ELSE {}
<1>1. program = "sender" /\ Resend(slots)
  BY DEF ReceiveControl
<1> HIDE DEF d
<1>2. slots \in SUBSET InUse
  OBVIOUS
<1> HIDE DEF slots
<1> QED BY <1>1, <1>2, ResendKeeps

-----------------------------------------------------------------------------
(* The receiver's steps. *)

\* The slots of the receiver that are in use.
LEMMA ReceiverSlots ==
  ASSUME IInv, program = "receiver"
  PROVE  /\ 0 \notin InUse
         /\ \A i \in InUse :
              /\ i \in Slots /\ i # 0 /\ buffer[i].nth = position + i
              /\ position + i \in 0..(Len(Stream) - 1)
              /\ buffer[i].payload \in Blocks /\ heap[buffer[i].payload] # Free
              /\ heap[buffer[i].payload] = Stream[position + i + 1]
         /\ \A i, j \in InUse : buffer[i].payload = buffer[j].payload => i = j
         /\ \A i \in Slots : i \notin InUse => buffer[i].payload = NULL
<1>1. /\ 0 \notin InUse
      /\ \A i \in InUse : Holds(buffer[i]) /\ buffer[i].nth = position + i
      /\ \A i, j \in InUse : buffer[i].payload = buffer[j].payload => i = j
  BY DEF IInv, MemoryInv, Ownership
<1>2. ASSUME NEW i \in InUse
      PROVE  /\ i \in Slots /\ i # 0 /\ buffer[i].nth = position + i
             /\ position + i \in 0..(Len(Stream) - 1)
             /\ buffer[i].payload \in Blocks /\ heap[buffer[i].payload] # Free
             /\ heap[buffer[i].payload] = Stream[position + i + 1]
  <2>1. i \in Slots /\ i # 0
    BY <1>1 DEF InUse
  <2>2. Holds(buffer[i]) /\ buffer[i].nth = position + i
    BY <1>1
  <2> QED BY <2>1, <2>2 DEF Holds, Allocated
<1>3. \A i \in Slots : i \notin InUse => buffer[i].payload = NULL
  BY DEF InUse, Unused
<1> QED BY <1>1, <1>2, <1>3

\* What is left to show of Ownership after a step of the receiver.
LEMMA ReceiverOwns ==
  ASSUME program' = "receiver",
         payload' = NULL \/ (payload' \in Blocks /\ heap'[payload'] # Free),
         \A i \in InUse' :
           /\ i # 0 /\ buffer'[i].nth = position' + i
           /\ position' + i \in 0..(Len(Stream) - 1)
           /\ buffer'[i].payload \in Blocks /\ heap'[buffer'[i].payload] # Free
           /\ heap'[buffer'[i].payload] = Stream[position' + i + 1],
         \A i, j \in InUse' : buffer'[i].payload = buffer'[j].payload => i = j
  PROVE  Ownership'
<1>1. \A i \in InUse' : Holds(buffer[i])' /\ buffer'[i].nth = position' + i
  BY DEF Holds, Allocated
<1>2. ~(0 \in InUse')
  OBVIOUS
<1> QED BY <1>1, <1>2 DEF Ownership, Allocated

\* thePkt after pkt_decode: it holds an allocated block or none, what was in
\* other blocks is still there, and a block it got is nobody else's.
Decoding(thePkt, data) ==
  /\ thePkt.payload = NULL \/ (thePkt.payload \in Blocks /\ thePkt.heap[thePkt.payload] # Free)
  /\ \A b \in Blocks : heap[b] # Free => thePkt.heap[b] = heap[b]
  /\ data # <<>> => /\ thePkt.payload \in Blocks /\ heap[thePkt.payload] = Free
                    /\ thePkt.heap[thePkt.payload] = data

LEMMA DecodingFacts ==
  ASSUME IInv, MayAllocate, NEW data
  PROVE  Decoding(IF data = <<>> THEN Now ELSE pkt_set_payload(data), data)
<1>1. CASE data = <<>>
  <2>1. Now.payload = payload /\ Now.heap = heap
    BY DEF Now
  <2> QED BY <1>1, <2>1, IInvFacts DEF Decoding
<1>2. CASE data # <<>>
  <2> DEFINE thePkt == pkt_set_payload(data)
  <2>1. /\ thePkt.payload \in Blocks /\ heap[thePkt.payload] = Free
        /\ thePkt.heap[thePkt.payload] = data
        /\ \A b \in Blocks : heap[b] # Free => thePkt.heap[b] = heap[b]
    BY <1>2, SetPayloadFacts DEF Free
  <2> HIDE DEF thePkt
  <2>2. Decoding(thePkt, data)
    BY <1>2, <2>1 DEF Decoding, Free
  <2> QED BY <1>2, <2>2 DEF thePkt
<1> QED BY <1>1, <1>2

LEMMA KeepKeeps ==
  ASSUME IInv, program = "receiver", NEW thePkt, NEW data, Decoding(thePkt, data),
         Keep(thePkt)
  PROVE  IInv'
<1>1. /\ payload' = thePkt.payload /\ Use(thePkt.heap, <<>>)
      /\ UNCHANGED <<program, position, buffer, output>>
  BY DEF Keep
<1>2. /\ thePkt.payload = NULL \/ (thePkt.payload \in Blocks /\ thePkt.heap[thePkt.payload] # Free)
      /\ \A b \in Blocks : heap[b] # Free => thePkt.heap[b] = heap[b]
  BY DEF Decoding
<1> DEFINE turns == <<>>
<1>3. DOMAIN turns = {} /\ Use(thePkt.heap, turns)
  BY <1>1
<1> HIDE DEF turns
<1>4. /\ ~misuse' /\ DOMAIN heap' = Blocks
      /\ \A b \in Blocks : heap'[b] = thePkt.heap[b]
  <2>1. \A j \in DOMAIN turns : \A b \in {turns[j].read, turns[j].free} \ {NULL} :
          /\ b \in Blocks /\ thePkt.heap[b] # Free
          /\ \A i \in DOMAIN turns : i < j => turns[i].free # b
    BY <1>3
  <2>2. \A b \in Blocks : \A i \in DOMAIN turns : turns[i].free # b
    BY <1>3
  <2> QED BY <1>3, <2>1, <2>2, UseFacts, IInvFacts
<1>5. TypeOK'
  BY <1>1, <1>2, <1>4 DEF TypeOK, IInv, MemoryInv
<1>6. Ownership'
  <2>1. InUse' = InUse
    BY <1>1 DEF InUse
  <2>2. payload' = NULL \/ (payload' \in Blocks /\ heap'[payload'] # Free)
    BY <1>1, <1>2, <1>4
  <2>3. \A i \in InUse' :
          /\ i # 0 /\ buffer'[i].nth = position' + i
          /\ position' + i \in 0..(Len(Stream) - 1)
          /\ buffer'[i].payload \in Blocks /\ heap'[buffer'[i].payload] # Free
          /\ heap'[buffer'[i].payload] = Stream[position' + i + 1]
    BY <1>1, <1>2, <1>4, <2>1, ReceiverSlots
  <2>4. \A i, j \in InUse' : buffer'[i].payload = buffer'[j].payload => i = j
    BY <1>1, <2>1, ReceiverSlots
  <2> QED BY <1>1, <2>2, <2>3, <2>4, ReceiverOwns
<1>7. PayloadIntact'
  BY <1>1 DEF PayloadIntact, IInv
<1> QED BY <1>4, <1>5, <1>6, <1>7 DEF IInv, MemoryInv, NoMisuse

\* The slot is given a block that no other slot has, and the one it had is
\* freed, which nobody else points to.
LEMMA StoreKeeps ==
  ASSUME IInv, program = "receiver", NEW thePkt, NEW data, Decoding(thePkt, data),
         NEW index \in Slots, index # 0, position + index \in 0..(Len(Stream) - 1),
         data = Stream[position + index + 1],
         Store(thePkt, position + index, index)
  PROVE  IInv'
<1> DEFINE nth == position + index
           slot == [nth |-> nth, payload |-> thePkt.payload]
           old == buffer[index].payload
<1>1. /\ payload' = thePkt.payload
      /\ buffer' = [buffer EXCEPT ![index] = slot]
      /\ Use(thePkt.heap, <<Turn(NULL, old)>>)
      /\ UNCHANGED <<program, position, output>>
  BY DEF Store
<1>2. data # <<>>
  BY StreamFacts DEF Free
<1>3. /\ thePkt.payload \in Blocks /\ heap[thePkt.payload] = Free
      /\ thePkt.heap[thePkt.payload] = data /\ data # Free
      /\ \A b \in Blocks : heap[b] # Free => thePkt.heap[b] = heap[b]
  BY <1>2 DEF Decoding, Free
<1>4. old = NULL \/ (old \in Blocks /\ heap[old] # Free)
  BY ReceiverSlots
<1>5. old # thePkt.payload
  BY <1>3, <1>4, MallocFacts
<1>6. slot.nth = nth /\ slot.payload = thePkt.payload
      /\ slot \in [nth : -1..Len(Stream), payload : Blocks \cup {NULL}]
  BY <1>3, StreamFacts
<1> HIDE DEF slot, old
<1>7. /\ ~misuse' /\ DOMAIN heap' = Blocks
      /\ \A b \in Blocks : b # old => heap'[b] = thePkt.heap[b]
  <2>1. \A b \in {NULL, old} \ {NULL} : b \in Blocks /\ thePkt.heap[b] # Free
    BY <1>3, <1>4
  <2> QED BY <1>1, <2>1, UseOne, IInvFacts
<1>8. buffer \in [Slots -> [nth : -1..Len(Stream), payload : Blocks \cup {NULL}]]
  BY IInvFacts
<1>9. TypeOK'
  <2>1. buffer' \in [Slots -> [nth : -1..Len(Stream), payload : Blocks \cup {NULL}]]
    BY <1>1, <1>6, <1>8
  <2> QED BY <1>1, <1>3, <1>7, <2>1 DEF TypeOK, IInv, MemoryInv
<1>10. buffer'[index] = slot /\ \A i \in Slots : i # index => buffer'[i] = buffer[i]
  BY <1>1, <1>8
<1>11. \A i \in InUse' : i = index \/ (i # index /\ i \in InUse /\ buffer'[i] = buffer[i])
  BY <1>10 DEF InUse
<1>12. \A i \in InUse : i # index => buffer[i].payload # old
  BY <1>4, MallocFacts, ReceiverSlots DEF old, InUse
<1>13. Ownership'
  <2>1. payload' = NULL \/ (payload' \in Blocks /\ heap'[payload'] # Free)
    BY <1>1, <1>3, <1>5, <1>7
  <2>2. ASSUME NEW i \in InUse'
        PROVE  /\ i # 0 /\ buffer'[i].nth = position' + i
               /\ position' + i \in 0..(Len(Stream) - 1)
               /\ buffer'[i].payload \in Blocks /\ heap'[buffer'[i].payload] # Free
               /\ heap'[buffer'[i].payload] = Stream[position' + i + 1]
    <3>1. CASE i = index
      BY <1>1, <1>3, <1>5, <1>6, <1>7, <1>10, <3>1
    <3>2. CASE i # index
      <4> DEFINE b == buffer[i].payload
      <4>1. /\ i \in InUse /\ buffer'[i] = buffer[i]
        BY <1>11, <3>2
      <4>2. /\ i # 0 /\ buffer[i].nth = position + i
            /\ position + i \in 0..(Len(Stream) - 1)
            /\ b \in Blocks /\ heap[b] # Free
            /\ heap[b] = Stream[position + i + 1] /\ b # old
        BY <1>12, <3>2, <4>1, ReceiverSlots
      <4>3. buffer'[i].payload = b /\ buffer'[i].nth = buffer[i].nth
        BY <4>1
      <4> HIDE DEF b
      <4>4. heap'[b] = heap[b]
        BY <1>3, <1>7, <4>2
      <4> QED BY <1>1, <4>2, <4>3, <4>4
    <3> QED BY <3>1, <3>2
  <2>3. ASSUME NEW i \in InUse', NEW j \in InUse', buffer'[i].payload = buffer'[j].payload
        PROVE  i = j
    <3>1. \A m \in InUse' : m # index => buffer'[m].payload # thePkt.payload
      BY <1>3, <1>11, ReceiverSlots
    <3>2. CASE i = index \/ j = index
      BY <1>6, <1>10, <2>3, <3>1, <3>2
    <3>3. CASE i # index /\ j # index
      BY <1>11, <2>3, <3>3, ReceiverSlots
    <3> QED BY <3>2, <3>3
  <2> QED BY <1>1, <2>1, <2>2, <2>3, ReceiverOwns
<1>14. PayloadIntact'
  BY <1>1 DEF PayloadIntact, IInv
<1> QED BY <1>7, <1>9, <1>13, <1>14 DEF IInv, MemoryInv, NoMisuse

\* A turn of the drain reads and frees the block of a slot that no turn before
\* it had, since no two slots share one; the slots behind the gap move down
\* with their blocks.
LEMMA WriteKeeps ==
  ASSUME IInv, program = "receiver", NEW thePkt, NEW data, Decoding(thePkt, data),
         position \in 0..(Len(Stream) - 1), data = Stream[position + 1],
         WriteInOrder(thePkt, InOrder)
  PROVE  IInv'
<1> DEFINE d == InOrder
           turns == [j \in 0..d |->
                       Turn(IF j = 0 THEN thePkt.payload ELSE buffer[j].payload,
                            buffer[j].payload)]
           frees == {turns[j].free : j \in 0..d}
           chunks == {<<position + j, Before(thePkt.heap, turns, j)[turns[j].read]>> :
                        j \in 0..d}
<1>1. /\ payload' = thePkt.payload
      /\ output' = output \cup chunks
      /\ Use(thePkt.heap, turns)
      /\ buffer' = update_bufs(buffer, Unused, d + 1)
      /\ position' = position + d + 1
      /\ UNCHANGED program
  BY DEF WriteInOrder
<1>2. /\ d \in Slots /\ 1..d \subseteq InUse
      /\ d + 1 \in Slots => d + 1 \notin InUse
  BY InOrderFacts
<1> HIDE DEF d
<1>3. d \in Nat /\ d < MAX_WINDOW_SIZE /\ 0 \in Slots /\ MAX_WINDOW_SIZE \in Nat
      /\ 0..d \subseteq Slots /\ 0..d = {0} \cup 1..d /\ Slots \subseteq Int
  <2>1. d \in Nat /\ d < MAX_WINDOW_SIZE /\ MAX_WINDOW_SIZE \in Nat
    BY <1>2, SlotBounds, SizeFacts
  <2> QED BY <2>1 DEF Slots
<1>4. data # <<>>
  BY StreamFacts DEF Free
<1>5. /\ thePkt.payload \in Blocks /\ heap[thePkt.payload] = Free
      /\ thePkt.heap[thePkt.payload] = data /\ data # Free
      /\ \A b \in Blocks : heap[b] # Free => thePkt.heap[b] = heap[b]
  BY <1>4 DEF Decoding, Free
<1>6. turns[0].free = NULL /\ turns[0].read = thePkt.payload /\ DOMAIN turns = 0..d
  BY <1>3, ReceiverSlots DEF Turn
<1>7. \A j \in 1..d :
        /\ turns[j].free = buffer[j].payload /\ turns[j].read = turns[j].free
        /\ turns[j].free \in Blocks /\ heap[turns[j].free] # Free
        /\ thePkt.heap[turns[j].free] = Stream[position + j + 1]
        /\ thePkt.heap[turns[j].free] # Free
        /\ position + j \in 0..(Len(Stream) - 1)
  <2>1. ASSUME NEW j \in 1..d
        PROVE  /\ turns[j].free = buffer[j].payload /\ turns[j].read = turns[j].free
               /\ turns[j].free \in Blocks /\ heap[turns[j].free] # Free
               /\ thePkt.heap[turns[j].free] = Stream[position + j + 1]
               /\ thePkt.heap[turns[j].free] # Free
               /\ position + j \in 0..(Len(Stream) - 1)
    <3>1. j \in 0..d /\ j # 0 /\ j \in InUse
      BY <1>2, <1>3
    <3>2. turns[j].free = buffer[j].payload /\ turns[j].read = turns[j].free
      BY <3>1 DEF Turn
    <3> HIDE DEF turns
    <3> QED BY <1>5, <3>1, <3>2, ReceiverSlots
  <2> QED BY <2>1
<1> HIDE DEF turns
<1>8. \A j \in 0..d : j = 0 \/ j \in 1..d
  BY <1>3
<1>9. ASSUME NEW i \in 0..d, NEW j \in 0..d, i < j
       PROVE  /\ turns[i].free # turns[j].free
              /\ turns[i].free # thePkt.payload
  <2>1. j \in 1..d /\ i # j
    BY <1>3, <1>8, <1>9
  <2>2. CASE i = 0
    BY <1>5, <1>6, <1>7, <2>1, <2>2, MallocFacts
  <2>3. CASE i \in 1..d
    <3>1. i \in InUse /\ j \in InUse
      BY <1>2, <2>1, <2>3
    <3> QED BY <1>5, <1>7, <2>1, <2>3, <3>1, ReceiverSlots
  <2> QED BY <1>8, <2>2, <2>3
<1>10. /\ ~misuse' /\ DOMAIN heap' = Blocks
      /\ \A b \in Blocks : b \notin frees => heap'[b] = thePkt.heap[b]
  <2>1. ASSUME NEW j \in DOMAIN turns, NEW b \in {turns[j].read, turns[j].free} \ {NULL}
        PROVE  /\ b \in Blocks /\ thePkt.heap[b] # Free
               /\ \A i \in DOMAIN turns : i < j => turns[i].free # b
    <3>1. CASE j = 0
      <4>1. b = thePkt.payload
        BY <1>6, <3>1
      <4>2. \A i \in 0..d : ~(i < 0)
        BY <1>3
      <4> QED BY <1>5, <1>6, <3>1, <4>1, <4>2
    <3>2. CASE j \in 1..d
      <4>1. b = turns[j].free
        BY <1>7, <3>2
      <4> QED BY <1>6, <1>7, <1>9, <3>2, <4>1
    <3> QED BY <1>6, <1>8, <3>1, <3>2
  <2>2. \A j \in DOMAIN turns : \A b \in {turns[j].read, turns[j].free} \ {NULL} :
          /\ b \in Blocks /\ thePkt.heap[b] # Free
          /\ \A i \in DOMAIN turns : i < j => turns[i].free # b
    BY <2>1
  <2> DEFINE mem == thePkt.heap
  <2>3. Use(mem, turns) /\ ~misuse
    BY <1>1, IInvFacts
  <2> HIDE DEF mem
  <2>4. \A j \in DOMAIN turns : \A b \in {turns[j].read, turns[j].free} \ {NULL} :
          /\ b \in Blocks /\ mem[b] # Free
          /\ \A i \in DOMAIN turns : i < j => turns[i].free # b
    BY <2>2 DEF mem
  <2>5. /\ ~misuse' /\ DOMAIN heap' = Blocks
        /\ \A b \in Blocks :
             (\A i \in DOMAIN turns : turns[i].free # b) => heap'[b] = mem[b]
    BY <2>3, <2>4, UseFacts
  <2>6. /\ ~misuse' /\ DOMAIN heap' = Blocks
        /\ \A b \in Blocks : (\A i \in DOMAIN turns : turns[i].free # b)
                               => heap'[b] = thePkt.heap[b]
    BY <2>5 DEF mem
  <2>7. \A b : b \notin frees => \A i \in DOMAIN turns : turns[i].free # b
    BY <1>6
  <2> QED BY <2>6, <2>7
<1>11. \A b \in frees : b = NULL \/ \E j \in 1..d : b = buffer[j].payload /\ heap[b] # Free
  BY <1>6, <1>7, <1>8
<1>12. \A j \in 0..d :
         Before(thePkt.heap, turns, j)[turns[j].read] = Stream[position + j + 1]
  <2>1. ASSUME NEW j \in 0..d
        PROVE  Before(thePkt.heap, turns, j)[turns[j].read] = Stream[position + j + 1]
    <3>1. /\ turns[j].read \in Blocks
          /\ thePkt.heap[turns[j].read] = Stream[position + j + 1]
      <4>1. CASE j = 0
        BY <1>5, <1>6, <4>1
      <4>2. CASE j \in 1..d
        BY <1>7, <4>2
      <4> QED BY <1>8, <4>1, <4>2
    <3>2. \A i \in DOMAIN turns : i < j => turns[i].free # turns[j].read
      BY <1>6, <1>7, <1>8, <1>9
    <3> QED BY <3>1, <3>2, BeforeFacts
  <2> QED BY <2>1
<1>13. thePkt.payload \notin frees
  BY <1>5, <1>11, MallocFacts
<1>14. position + d \in 0..(Len(Stream) - 1)
  <2>1. CASE d = 0
    BY <2>1
  <2>2. CASE d # 0
    BY <1>3, <1>7, <2>2
  <2> QED BY <2>1, <2>2
<1>15. \A i \in Slots :
         buffer'[i] = IF i + (d + 1) < MAX_WINDOW_SIZE THEN buffer[i + (d + 1)] ELSE Unused
  BY <1>1, UpdatesEntry
<1>16. ASSUME NEW i \in InUse'
       PROVE  /\ i \in Slots /\ i + (d + 1) \in InUse /\ buffer'[i] = buffer[i + (d + 1)]
              /\ i # 0
  <2>1. i \in Slots /\ buffer'[i] # Unused
    BY DEF InUse
  <2>2. i + (d + 1) < MAX_WINDOW_SIZE /\ buffer'[i] = buffer[i + (d + 1)]
    BY <1>15, <2>1
  <2>3. i + (d + 1) \in Slots
    BY <1>3, <2>1, <2>2 DEF Slots
  <2>4. i + (d + 1) \in InUse
    BY <2>1, <2>2, <2>3 DEF InUse
  <2>5. i # 0
    BY <1>2, <1>3, <2>3, <2>4
  <2> QED BY <2>1, <2>2, <2>4, <2>5
<1>17. ASSUME NEW m \in InUse, m \notin 1..d
       PROVE  buffer[m].payload \notin frees
  BY <1>2, <1>11, <1>17, MallocFacts, ReceiverSlots
<1> HIDE DEF frees
<1>18. TypeOK'
  <2>1. Unused \in [nth : -1..Len(Stream), payload : Blocks \cup {NULL}]
    BY StreamFacts DEF Unused
  <2>2. ASSUME NEW i \in Slots
        PROVE  buffer'[i] \in [nth : -1..Len(Stream), payload : Blocks \cup {NULL}]
    <3>1. CASE i + (d + 1) < MAX_WINDOW_SIZE
      <4>1. i + (d + 1) \in Slots
        BY <1>3, <3>1 DEF Slots
      <4> QED BY <1>15, <3>1, <4>1, IInvFacts
    <3>2. CASE ~(i + (d + 1) < MAX_WINDOW_SIZE)
      BY <1>15, <2>1, <3>2
    <3> QED BY <3>1, <3>2
  <2>3. buffer' = [i \in Slots |-> buffer'[i]]
    BY <1>1 DEF update_bufs
  <2>4. buffer' \in [Slots -> [nth : -1..Len(Stream), payload : Blocks \cup {NULL}]]
    BY <2>2, <2>3
  <2>5. position' \in 0..Len(Stream)
    BY <1>1, <1>3, <1>14, IInvFacts
  <2> QED BY <1>1, <1>5, <1>10, <2>4, <2>5 DEF TypeOK, IInv, MemoryInv
<1>19. Ownership'
  <2>1. payload' = NULL \/ (payload' \in Blocks /\ heap'[payload'] # Free)
    BY <1>1, <1>5, <1>10, <1>13
  <2>2. ASSUME NEW i \in InUse'
        PROVE  /\ i # 0 /\ buffer'[i].nth = position' + i
               /\ position' + i \in 0..(Len(Stream) - 1)
               /\ buffer'[i].payload \in Blocks /\ heap'[buffer'[i].payload] # Free
               /\ heap'[buffer'[i].payload] = Stream[position' + i + 1]
    <3> DEFINE m == i + (d + 1)
               b == buffer[m].payload
    <3>1. i \in Slots /\ m \in InUse /\ buffer'[i] = buffer[m] /\ i # 0
      BY <1>16
    <3>2. m \notin 1..d /\ position + m = position' + i /\ i \in Int
      BY <1>1, <1>3, <3>1, IInvFacts DEF Slots
    <3>3. b \notin frees
      BY <1>17, <3>1, <3>2
    <3> HIDE DEF m
    <3>4. /\ buffer[m].nth = position + m /\ position + m \in 0..(Len(Stream) - 1)
          /\ b \in Blocks /\ heap[b] # Free /\ heap[b] = Stream[position + m + 1]
      BY <3>1, ReceiverSlots
    <3>5. buffer'[i].payload = b /\ buffer'[i].nth = buffer[m].nth
      BY <3>1
    <3> HIDE DEF b
    <3>6. heap'[b] = heap[b]
      BY <1>5, <1>10, <3>3, <3>4
    <3> QED BY <3>1, <3>2, <3>4, <3>5, <3>6
  <2>3. ASSUME NEW i \in InUse', NEW j \in InUse', buffer'[i].payload = buffer'[j].payload
        PROVE  i = j
    <3>1. /\ i + (d + 1) \in InUse /\ j + (d + 1) \in InUse
          /\ buffer[i + (d + 1)].payload = buffer[j + (d + 1)].payload
      BY <1>16, <2>3
    <3>2. i + (d + 1) = j + (d + 1)
      BY <3>1, ReceiverSlots
    <3>3. i \in Int /\ j \in Int
      BY <1>3, <1>16
    <3> QED BY <1>3, <3>2, <3>3
  <2> QED BY <1>1, <2>1, <2>2, <2>3, ReceiverOwns
<1>20. PayloadIntact'
  <2>1. ASSUME NEW chunk \in output' PROVE chunk[2] = Stream[chunk[1] + 1]
    <3>1. CASE chunk \in output
      BY <3>1, IInvFacts
    <3>2. CASE chunk \in chunks
      <4>1. PICK j \in 0..d :
              chunk = <<position + j, Before(thePkt.heap, turns, j)[turns[j].read]>>
        BY <3>2
      <4> QED BY <1>12, <4>1
    <3> HIDE DEF chunks
    <3> QED BY <1>1, <3>1, <3>2
  <2> QED BY <2>1 DEF PayloadIntact
<1> QED BY <1>10, <1>18, <1>19, <1>20 DEF IInv, MemoryInv, NoMisuse

\* What the receiver learns of a datagram that it takes for data: the chunk
\* and the place of the segment that was sent.
LEMMA ReceivedFacts ==
  ASSUME IInv, NEW nth \in 0..Len(Stream), Expected(nth),
         NEW datagram \in Arriving(pkt_encode(Segment(PTYPE_DATA, nth)))
  PROVE  LET d == pkt_decode(Read(datagram), Len(datagram))
             index == find_pkt(d.seqnum, [i \in Slots |-> (position + i) % SeqSpace])
         IN  d.status = "PKT_OK" /\ d.payload # <<>>
               => /\ nth < Len(Stream) /\ d.payload = Stream[nth + 1]
                  /\ index = 0 => nth = position
                  /\ index > 0 => index \in Slots /\ nth = position + index
<1> DEFINE s == Segment(PTYPE_DATA, nth)
           d == pkt_decode(Read(datagram), Len(datagram))
           window == [i \in Slots |-> (position + i) % SeqSpace]
           index == find_pkt(d.seqnum, window)
<1>1. nth \in Nat /\ position \in Nat /\ Len(Stream) \in Nat
  BY IInvFacts
<1>2. d.status = "PKT_OK" => d.seqnum = s.seqnum /\ d.payload = s.payload
  BY <1>1, ReadCells
<1>3. /\ s.seqnum = nth % SeqSpace
      /\ nth < Len(Stream) => s.payload = Stream[nth + 1]
      /\ ~(nth < Len(Stream)) => s.payload = <<>>
  BY <1>1, SegmentFacts
<1>4. position - MAX_WINDOW_SIZE <= nth /\ nth <= position + MAX_WINDOW_SIZE - 1
  BY DEF Expected
<1>5. find_pkt(nth % SeqSpace, window)
        = IF position <= nth /\ nth < position + MAX_WINDOW_SIZE THEN nth - position ELSE -1
  <2>1. position + MAX_WINDOW_SIZE <= nth + SeqSpace /\ nth < position + SeqSpace
    BY <1>1, <1>4, SizeFacts
  <2>2. \A i \in Slots : window[i] = (position + i) % SeqSpace
    OBVIOUS
  <2> HIDE DEF window
  <2> QED BY <1>1, <2>1, <2>2, FindPkt
<1> HIDE DEF d, s, window
<1> SUFFICES ASSUME d.status = "PKT_OK", d.payload # <<>>
             PROVE  /\ nth < Len(Stream) /\ d.payload = Stream[nth + 1]
                    /\ index = 0 => nth = position
                    /\ index > 0 => index \in Slots /\ nth = position + index
  BY DEF d, window
<1>6. nth < Len(Stream) /\ d.payload = Stream[nth + 1]
  BY <1>2, <1>3
<1>7. index = find_pkt(nth % SeqSpace, window)
  BY <1>2, <1>3
<1>8. index = 0 => nth = position
  BY <1>1, <1>5, <1>7
<1>9. index > 0 => index \in Slots /\ nth = position + index
  BY <1>1, <1>5, <1>7, SlotBounds, SizeFacts
<1> QED BY <1>6, <1>8, <1>9

LEMMA ReceiveKeeps ==
  ASSUME IInv, NEW nth \in 0..Len(Stream), Expected(nth),
         NEW datagram \in Arriving(pkt_encode(Segment(PTYPE_DATA, nth))),
         Receive(nth, datagram)
  PROVE  IInv'
<1> DEFINE d == pkt_decode(Read(datagram), Len(datagram))
           data == d.payload
           thePkt == IF data = <<>> THEN Now ELSE pkt_set_payload(data)
           index  == find_pkt(d.seqnum, [i \in Slots |-> (position + i) % SeqSpace])
           isData == d.status = "PKT_OK" /\ d.tr = 0
<1>1. program = "receiver" /\ MayAllocate
  BY DEF Receive
<1>2. \/ Keep(thePkt)
      \/ data = <<>> /\ free_all(thePkt) /\ UNCHANGED <<position, buffer, output>>
      \/ isData /\ data # <<>> /\ index = 0 /\ WriteInOrder(thePkt, InOrder)
      \/ isData /\ data # <<>> /\ index > 0 /\ Store(thePkt, nth, index)
  BY DEF Receive
<1>3. isData /\ data # <<>>
        => /\ nth < Len(Stream) /\ data = Stream[nth + 1]
           /\ index = 0 => nth = position
           /\ index > 0 => index \in Slots /\ nth = position + index
  BY ReceivedFacts
<1>4. Decoding(thePkt, data)
  BY <1>1, DecodingFacts
<1> HIDE DEF data, index, isData, thePkt
<1>5. nth \in Nat /\ position \in Nat /\ Len(Stream) \in Nat
  BY IInvFacts
<1>6. CASE Keep(thePkt)
  BY <1>1, <1>4, <1>6, KeepKeeps
<1>7. CASE data = <<>> /\ free_all(thePkt) /\ UNCHANGED <<position, buffer, output>>
  <2>1. buffer' \in [Slots -> [nth : -1..Len(Stream), payload : Blocks \cup {NULL}]]
    BY <1>7, IInvFacts
  <2>2. thePkt.payload # NULL => /\ thePkt.payload \in Blocks
                                 /\ thePkt.heap[thePkt.payload] # Free
    BY <1>4 DEF Decoding
  <2> QED BY <1>7, <2>1, <2>2, FreeAllKeeps
<1>8. CASE isData /\ data # <<>> /\ index = 0 /\ WriteInOrder(thePkt, InOrder)
  <2>1. position \in 0..(Len(Stream) - 1) /\ data = Stream[position + 1]
    BY <1>3, <1>5, <1>8
  <2> QED BY <1>1, <1>4, <1>8, <2>1, WriteKeeps
<1>9. CASE isData /\ data # <<>> /\ index > 0 /\ Store(thePkt, nth, index)
  <2>1. /\ index \in Slots /\ index # 0 /\ nth = position + index
        /\ position + index \in 0..(Len(Stream) - 1) /\ data = Stream[position + index + 1]
    BY <1>3, <1>5, <1>9
  <2>2. Store(thePkt, position + index, index)
    BY <1>9, <2>1
  <2> QED BY <1>1, <1>4, <2>1, <2>2, StoreKeeps
<1> QED BY <1>2, <1>6, <1>7, <1>8, <1>9

-----------------------------------------------------------------------------
(* The theorems. *)

LEMMA InitOwns == Init => IInv
<1> SUFFICES ASSUME Init PROVE IInv
  OBVIOUS
<1>1. /\ program \in {"sender", "receiver"} /\ position = 0
      /\ buffer = [i \in Slots |-> Unused] /\ payload = NULL
      /\ DOMAIN heap = Blocks /\ output = {} /\ misuse = FALSE
  BY DEF Init
<1>2. TypeOK
  <2>1. Unused \in [nth : -1..Len(Stream), payload : Blocks \cup {NULL}]
    BY StreamFacts DEF Unused
  <2> QED BY <1>1, <2>1, StreamFacts DEF TypeOK
<1>3. InUse = {}
  BY <1>1 DEF InUse
<1>4. Ownership
  BY <1>1, <1>3 DEF Ownership
<1> QED BY <1>1, <1>2, <1>4 DEF IInv, MemoryInv, NoMisuse, PayloadIntact

LEMMA NextOwns == IInv /\ [Next]_vars => IInv'
<1> SUFFICES ASSUME IInv, [Next]_vars PROVE IInv'
  OBVIOUS
<1>1. CASE GiveUp
  BY <1>1, GiveUpKeeps
<1>2. CASE SendData
  BY <1>2, SendDataKeeps
<1>3. CASE SendDeco
  BY <1>3, SendDecoKeeps
<1>4. CASE Timeout
  BY <1>4, TimeoutKeeps
<1>5. ASSUME NEW sent, NEW datagram, ReceiveControl(sent, datagram)
      PROVE  IInv'
  BY <1>5, ReceiveControlKeeps
<1>6. ASSUME NEW nth \in 0..Len(Stream), Expected(nth),
             NEW datagram \in Arriving(pkt_encode(Segment(PTYPE_DATA, nth))),
             Receive(nth, datagram)
      PROVE  IInv'
  BY <1>6, ReceiveKeeps
<1>7. CASE UNCHANGED vars
  <2>1. InUse' = InUse
    BY <1>7 DEF vars, InUse
  <2> QED BY <1>7, <2>1
          DEF vars, IInv, MemoryInv, TypeOK, Ownership, Holds, Allocated, NoMisuse,
              PayloadIntact
<1> QED BY <1>1, <1>2, <1>3, <1>4, <1>5, <1>6, <1>7 DEF Next

LEMMA IInvHolds == Spec => []IInv
  BY InitOwns, NextOwns, PTL DEF Spec

\* Every payload that thePkt or a slot points to is allocated and is the chunk
\* that the slot is for, and the receiver's slots share none
\* (read_write_loop.c:233, :422).
THEOREM PayloadsOwned == Spec => []MemoryInv
<1>1. IInv => MemoryInv
  BY DEF IInv
<1> QED BY <1>1, IInvHolds, PTL

\* No payload is used after it was freed, and none is freed twice
\* (buffer.c:70-81, read_write_loop.c:372-424, packet_implem.c:24-29).
THEOREM PayloadsAllocated == Spec => []NoMisuse
<1>1. IInv => NoMisuse
  BY DEF IInv
<1> QED BY <1>1, IInvHolds, PTL

\* What is sent again or written is the chunk that was read under its number,
\* however often the blocks are used again.
THEOREM PayloadsUnchanged == Spec => []PayloadIntact
<1>1. IInv => PayloadIntact
  BY DEF IInv
<1> QED BY <1>1, IInvHolds, PTL

\* In either program, whatever earlier datagrams left in buf_rcv, the packet
\* that pkt_decode accepts is the one that was sent, with its payload or,
\* truncated, without (packet_implem.c:90-156).
THEOREM AcceptsWhatWasSent == Spec => []AcceptedIsSent
<1>1. Init => AcceptedIsSent
  BY DEF Init, AcceptedIsSent
<1>2. ASSUME NEW type \in {PTYPE_DATA, PTYPE_ACK, PTYPE_NACK}, NEW nth \in Nat,
             NEW datagram \in Arriving(pkt_encode(Segment(type, nth))),
             Take(datagram, Segment(type, nth), pkt_decode(Read(datagram), Len(datagram)))
      PROVE  AcceptedIsSent'
  <2> DEFINE d == pkt_decode(Read(datagram), Len(datagram))
             s == Segment(type, nth)
  <2>1. d.status = "PKT_OK" => d.type = s.type /\ d.seqnum = s.seqnum /\ d.payload = s.payload
    BY ReadCells
  <2> HIDE DEF d, s
  <2>2. arrival'.accepted = (d.status = "PKT_OK")
        /\ arrival'.faithful = (/\ d.type = s.type /\ d.seqnum = s.seqnum
                                /\ d.payload = s.payload \/ (d.tr = 1 /\ d.payload = <<>>))
    BY <1>2 DEF Take, d, s
  <2> QED BY <2>1, <2>2 DEF AcceptedIsSent
<1>3. IInv /\ AcceptedIsSent /\ [Next]_vars => AcceptedIsSent'
  <2> SUFFICES ASSUME IInv, AcceptedIsSent, [Next]_vars PROVE AcceptedIsSent'
    OBVIOUS
  <2>1. CASE UNCHANGED arrival
    BY <2>1 DEF AcceptedIsSent
  <2>2. ASSUME NEW type \in {PTYPE_ACK, PTYPE_NACK}, NEW nth \in 0..position,
               NEW datagram \in Arriving(pkt_encode(Segment(type, nth))),
               ReceiveControl(Segment(type, nth), datagram)
        PROVE  AcceptedIsSent'
    <3>1. Take(datagram, Segment(type, nth), pkt_decode(Read(datagram), Len(datagram)))
      BY <2>2 DEF ReceiveControl
    <3>2. nth \in Nat
      BY IInvFacts
    <3> QED BY <1>2, <3>1, <3>2
  <2>3. ASSUME NEW nth \in 0..Len(Stream),
               NEW datagram \in Arriving(pkt_encode(Segment(PTYPE_DATA, nth))),
               Receive(nth, datagram)
        PROVE  AcceptedIsSent'
    <3>1. Take(datagram, Segment(PTYPE_DATA, nth),
               pkt_decode(Read(datagram), Len(datagram)))
      BY <2>3 DEF Receive
    <3>2. nth \in Nat
      BY StreamFacts
    <3> QED BY <1>2, <3>1, <3>2
  <2> QED BY <2>1, <2>2, <2>3
          DEF Next, GiveUp, SendData, SendDeco, Timeout, vars
<1>4. Spec => []AcceptedIsSent
  BY <1>1, <1>3, IInvHolds, PTL DEF Spec
<1> QED BY <1>4
=============================================================================
