-------------------- MODULE ForwardErrorCorrectionProofs --------------------
(***************************************************************************)
(* What PacketByFEC preserves, for every sequence of calls: the types of   *)
(* the encoder's fields; and what EncodeFec makes of a group.              *)
(***************************************************************************)
EXTENDS ForwardErrorCorrection, SequenceTheorems, TLAPS

\* The remainder that a store into a uint8_t field leaves.
LEMMA StoreUInt8 == \A n \in Nat : n % 256 \in UInt8
BY DEF UInt8

\* Exclusive or of masked payloads invents no pieces.
LEMMA XorOfMaskedType ==
  ASSUME NEW C, NEW media \in Seq(PacketType(C)),
         NEW mask \in SUBSET (0 .. Len(media) - 1)
  PROVE  XorOfMasked(media, mask) \in SUBSET [chunk : C, len : Nat]
<1>1. \A j \in mask : media[j + 1].data \in SUBSET [chunk : C, len : Nat]
  <2>1. \A j \in mask : j + 1 \in 1 .. Len(media)
    OBVIOUS
  <2>2. \A j \in 1 .. Len(media) : media[j] \in PacketType(C)
    OBVIOUS
  <2> QED
    BY <2>1, <2>2 DEF PacketType
<1> QED
  BY <1>1 DEF XorOfMasked

\* A mask row names media packets of the group only.
LEMMA MaskRowType ==
  ASSUME NEW masks, NEW i, NEW n \in Nat, NEW size
  PROVE  MaskRow(masks, i, n, size) \in SUBSET (0 .. n - 1)
BY DEF MaskRow

\* EncodeFec fills in packets of the right type.
LEMMA FecPacketType ==
  ASSUME NEW C, NEW f \in FecType(C), NEW i \in Nat, NEW r \in Nat, NEW masks,
         NEW p \in PacketType(C)
  PROVE  FecPacket(f, i, r, masks, p) \in PacketType(C)
<1> DEFINE n == Len(f.media_packets)
           size == PacketMaskSize(n)
           row == MaskRow(masks, i, n, size)
<1>1. f.media_packets \in Seq(PacketType(C)) /\ n \in Nat
  BY DEF FecType
<1>2. row \in SUBSET (0 .. n - 1)
  BY <1>1, MaskRowType
<1>3. MaskRow(masks, f.sequence_number + i - n, n, size) \in SUBSET Nat
  <2>1. MaskRow(masks, f.sequence_number + i - n, n, size) \in SUBSET (0 .. n - 1)
    BY <1>1, MaskRowType
  <2> QED
    BY <2>1, <1>1
<1>4. XorOfMasked(f.media_packets, row) \in SUBSET [chunk : C, len : Nat]
  BY <1>1, <1>2, XorOfMaskedType
<1>5. XorPayloads(XorOfMasked(f.media_packets, row), p.data) \in SUBSET [chunk : C, len : Nat]
  BY <1>4 DEF XorPayloads, PacketType
<1>6. /\ f.group_number % 256 \in UInt8
      /\ (f.sequence_number + i) % 256 \in UInt8
      /\ n % 256 \in UInt8
      /\ r % 256 \in UInt8
  <2>1. f.group_number \in Nat /\ f.sequence_number + i \in Nat
    BY DEF FecType
  <2> HIDE DEF n
  <2> QED
    BY <1>1, <2>1, StoreUInt8
<1> DEFINE header == MaskRow(masks, f.sequence_number + i - n, n, size)
           payload == XorPayloads(XorOfMasked(f.media_packets, row), p.data)
<1>7. FecPacket(f, i, r, masks, p) =
        [packet_mask |-> header, group_number |-> f.group_number % 256,
         sequence_number |-> (f.sequence_number + i) % 256, k |-> n % 256, r |-> r % 256,
         data |-> payload]
  BY DEF FecPacket, HeaderRow
<1> HIDE DEF header, payload, n
<1> QED
  <2>1. header \in SUBSET Nat /\ payload \in SUBSET [chunk : C, len : Nat]
    BY <1>3, <1>5 DEF header, payload
  <2> QED
    BY <2>1, <1>6, <1>7 DEF PacketType

\* EncodeFec keeps the encoder's types.
LEMMA EncodeFecType ==
  ASSUME NEW C, NEW f \in FecType(C), NEW r \in Nat
  PROVE  EncodeFec(f, r) \in FecType(C)
<1> DEFINE n == Len(f.media_packets)
           masks == GeneratePacketMasks(n, r, 0, FALSE, PickTable(f.fec_mask_type, n))
           fresh == [i \in 1 .. r |-> NewPacket]
           list == f.fec_packets \o fresh
           filled == [i \in 1 .. r |-> FecPacket(f, i - 1, r, masks, list[i])]
<1>1. NewPacket \in PacketType(C)
  BY DEF NewPacket, PacketType, UInt8
<1>2. fresh \in Seq(PacketType(C)) /\ Len(fresh) = r
  BY <1>1
<1>3. f.fec_packets \in Seq(PacketType(C))
  BY DEF FecType
<1>4. list \in Seq(PacketType(C)) /\ Len(list) = Len(f.fec_packets) + r
  BY <1>2, <1>3
<1>5. \A i \in 1 .. r : list[i] \in PacketType(C)
  <2>1. Len(f.fec_packets) \in Nat
    BY <1>3
  <2> HIDE DEF list
  <2> QED
    BY <1>4, <2>1
<1>6. \A i \in 1 .. r : FecPacket(f, i - 1, r, masks, list[i]) \in PacketType(C)
  <2> TAKE i \in 1 .. r
  <2>1. i - 1 \in Nat /\ list[i] \in PacketType(C)
    BY <1>5
  <2> HIDE DEF list, masks
  <2> QED
    BY <2>1, FecPacketType
<1>7. filled \in Seq(PacketType(C))
  <2>1. filled \in [1 .. r -> PacketType(C)]
    BY <1>6
  <2> HIDE DEF filled
  <2> QED
    BY <2>1, SeqDef
<1>8. SubSeq(list, r + 1, Len(list)) \in Seq(PacketType(C))
  <2>1. \A i \in r + 1 .. Len(list) : list[i] \in PacketType(C)
    BY <1>4
  <2>2. r + 1 \in Int /\ Len(list) \in Int
    BY <1>4
  <2> HIDE DEF list
  <2> QED
    BY <2>1, <2>2, SubSeqProperties
<1>9. SubSeq(list, r + 1, Len(list)) \o filled \in Seq(PacketType(C))
  <2> HIDE DEF list, filled
  <2> QED
    BY <1>7, <1>8, ConcatProperties
<1>10. f.sequence_number + r \in Nat
  BY DEF FecType
<1> DEFINE packets == SubSeq(list, r + 1, Len(list)) \o filled
<1>11. EncodeFec(f, r) = IF r = 0 THEN f
                         ELSE [f EXCEPT !.fec_packets = packets, !.sequence_number = @ + r]
  BY DEF EncodeFec
<1> HIDE DEF packets
<1> QED
  BY <1>9, <1>10, <1>11 DEF FecType, packets

\* The packet made from an input buffer.
LEMMA MediaPacketType ==
  ASSUME NEW C, NEW f \in FecType(C), NEW chunk \in C, NEW len \in Nat, NEW size \in Nat,
         NEW k \in Nat, NEW r \in Nat
  PROVE  MediaPacket(f, chunk, len, size, k, r) \in PacketType(C)
<1>1. f.group_number \in Nat /\ f.sequence_number \in Nat
  BY DEF FecType
<1>2. /\ f.group_number % 256 \in UInt8
      /\ f.sequence_number % 256 \in UInt8
      /\ k % 256 \in UInt8
      /\ r % 256 \in UInt8
  BY <1>1, StoreUInt8
<1> DEFINE payload == {Piece(chunk, IF len < size THEN len ELSE size)}
<1>3. payload \in SUBSET [chunk : C, len : Nat]
  BY DEF Piece
<1>4. MediaPacket(f, chunk, len, size, k, r) =
        [packet_mask |-> {}, group_number |-> f.group_number % 256,
         sequence_number |-> f.sequence_number % 256, k |-> k % 256, r |-> r % 256,
         data |-> payload]
  BY DEF MediaPacket
<1> HIDE DEF payload
<1> QED
  BY <1>2, <1>3, <1>4 DEF PacketType

\* The end of a group keeps the encoder's types and only adds to its output.
LEMMA FinishGroupType ==
  ASSUME NEW C, NEW f \in FecType(C), NEW r \in Nat, f.buffer_packets # << >>
  PROVE  /\ FinishGroup(f, r) \in FecType(C)
         /\ FinishGroup(f, r).buffer_packets # << >>
<1> DEFINE e == EncodeFec(f, r)
           out == e.buffer_packets \o e.fec_packets
<1>1. e \in FecType(C)
  BY EncodeFecType
<1>2. e.buffer_packets = f.buffer_packets
  BY DEF EncodeFec, FecType
<1>3. e.buffer_packets \in Seq(PacketType(C)) /\ e.fec_packets \in Seq(PacketType(C))
  BY <1>1 DEF FecType
<1>4. FinishGroup(f, r) = [e EXCEPT !.buffer_packets  = out,
                                    !.group_number    = @ + 1,
                                    !.sequence_number = 0,
                                    !.media_packets   = << >>,
                                    !.fec_packets     = << >>]
  BY DEF FinishGroup
<1> HIDE DEF e
<1>5. out \in Seq(PacketType(C)) /\ out # << >>
  <2>1. Len(out) = Len(e.buffer_packets) + Len(e.fec_packets) /\ out \in Seq(PacketType(C))
    BY <1>3, ConcatProperties
  <2>2. Len(e.buffer_packets) > 0 /\ Len(e.fec_packets) >= 0
    BY <1>2, <1>3
  <2> QED
    BY <2>1, <2>2
<1> HIDE DEF out
<1> DEFINE group == e.group_number + 1
           zero  == 0
           none  == << >>
           g == [e EXCEPT !.buffer_packets  = out,
                          !.group_number    = group,
                          !.sequence_number = zero,
                          !.media_packets   = none,
                          !.fec_packets     = none]
<1>6. FinishGroup(f, r) = g
  BY <1>4
<1>7. group \in Nat /\ zero \in Nat /\ none \in Seq(PacketType(C))
  BY <1>1 DEF FecType
<1> HIDE DEF group, zero, none
<1>8. g \in FecType(C) /\ g.buffer_packets = out
  BY <1>1, <1>5, <1>7 DEF FecType
<1> QED
  BY <1>5, <1>6, <1>8

\* A newly constructed encoder is well typed.
LEMMA NewForwardErrorCorrectionType ==
  ASSUME NEW C, NEW mask_type \in FecMaskType
  PROVE  NewForwardErrorCorrection(mask_type) \in FecType(C)
<1>1. ASSUME NEW n \in Nat, NEW q \in Seq(PacketType(C)),
             NEW first \in BOOLEAN, NEW last \in BOOLEAN
      PROVE  [fec_first_use |-> first, fec_last_use |-> last, fec_mask_type |-> mask_type,
              packet_size |-> n, media_packets |-> q, buffer_packets |-> q, fec_packets |-> q,
              group_number |-> n, sequence_number |-> n] \in FecType(C)
  BY DEF FecType
<1>2. 0 \in Nat /\ << >> \in Seq(PacketType(C))
  OBVIOUS
<1> QED
  BY <1>1, <1>2, Zenon DEF NewForwardErrorCorrection

\* The packets left in the group and the output buffer stay well typed under
\* every call of PacketByFEC, and the reader always gets a packet to send.
THEOREM PacketByFECType ==
  ASSUME NEW C, NEW f \in FecType(C), NEW chunk \in C, NEW len \in Nat,
         NEW k \in Nat, NEW r \in Nat
  PROVE  /\ PacketByFEC(f, chunk, len, k, r) \in FecType(C)
         /\ PacketByFEC(f, chunk, len, k, r).buffer_packets # << >>
<1> DEFINE size == IF f.fec_first_use THEN len ELSE f.packet_size
           packet == MediaPacket(f, chunk, len, size, k, r)
           media == Append(f.media_packets, packet)
           buffer == Append(f.buffer_packets, packet)
           last == f.fec_last_use \/ len < size
           g == [f EXCEPT !.fec_first_use   = FALSE,
                          !.fec_last_use    = last,
                          !.packet_size     = size,
                          !.sequence_number = @ + 1,
                          !.media_packets   = media,
                          !.buffer_packets  = buffer]
<1>1. size \in Nat /\ last \in BOOLEAN
  BY DEF FecType
<1>2. packet \in PacketType(C)
  BY <1>1, MediaPacketType
<1>3. /\ media \in Seq(PacketType(C))
      /\ buffer \in Seq(PacketType(C))
      /\ buffer # << >>
  <2>1. f.media_packets \in Seq(PacketType(C)) /\ f.buffer_packets \in Seq(PacketType(C))
    BY DEF FecType
  <2> HIDE DEF packet
  <2> QED
    BY <1>2, <2>1, AppendProperties
<1>4. PacketByFEC(f, chunk, len, k, r) = IF GroupComplete(g, k) THEN FinishGroup(g, r) ELSE g
  BY DEF PacketByFEC
<1> HIDE DEF media, buffer, size, last
<1>5. g \in FecType(C) /\ g.buffer_packets # << >>
  <2>1. f.sequence_number + 1 \in Nat
    BY DEF FecType
  <2> QED
    BY <1>1, <1>3, <2>1 DEF FecType
<1> HIDE DEF g
<1> QED
  BY <1>4, <1>5, FinishGroupType

\* r FEC packets for the n media packets of encoder f, one for each mask row, whose
\* payloads are made from the media packets their headers name.
Protected(f, n, r, packets) ==
  /\ Len(packets) = r
  /\ \A i \in 1 .. r :
       /\ packets[i].packet_mask \subseteq 0 .. n - 1
       /\ packets[i].packet_mask = MaskRows(f.fec_mask_type, n, r)[i - 1]
       /\ packets[i].group_number = f.group_number % 256
       /\ packets[i].sequence_number = n + i - 1
       /\ packets[i].data = XorOfMasked(f.media_packets, packets[i].packet_mask)

\* When sequence_number counts the media packets and fec_packets is empty, the headers
\* that EncodeFec writes tell what the payloads are made from.  The code takes the two
\* from different mask rows, one by sequence_number and one by its loop index.
THEOREM HeadersTellPayloads ==
  ASSUME NEW C, NEW f \in FecType(C), NEW r \in 1 .. 16, NEW n \in 1 .. 16,
         Len(f.media_packets) = n, f.sequence_number = n, f.fec_packets = << >>
  PROVE  LET e == EncodeFec(f, r)
         IN  /\ e = [f EXCEPT !.fec_packets = e.fec_packets, !.sequence_number = n + r]
             /\ e.fec_packets \in Seq(PacketType(C))
             /\ Protected(f, n, r, e.fec_packets)
<1> DEFINE e == EncodeFec(f, r)
           masks == GeneratePacketMasks(n, r, 0, FALSE, PickTable(f.fec_mask_type, n))
           fresh == [i \in 1 .. r |-> NewPacket]
           list == f.fec_packets \o fresh
           filled == [i \in 1 .. r |-> FecPacket(f, i - 1, r, masks, list[i])]
           packets == SubSeq(list, r + 1, Len(list)) \o filled
           Row(i) == MaskRow(masks, i, n, PacketMaskSize(n))
<1>0. r \in Nat /\ r # 0
  OBVIOUS
<1>1. e \in FecType(C)
  BY <1>0, EncodeFecType
<1>2. NewPacket \in PacketType(C)
  BY DEF NewPacket, PacketType, UInt8
<1>3. fresh \in Seq(PacketType(C)) /\ Len(fresh) = r /\ list = fresh
  BY <1>2
<1>4. e = [f EXCEPT !.fec_packets = packets, !.sequence_number = @ + r]
  BY <1>0 DEF EncodeFec
<1> HIDE DEF masks
<1>5. filled \in Seq(PacketType(C)) /\ Len(filled) = r
  <2>1. \A i \in 1 .. r : FecPacket(f, i - 1, r, masks, list[i]) \in PacketType(C)
    <3> TAKE i \in 1 .. r
    <3>1. i - 1 \in Nat /\ list[i] \in PacketType(C)
      BY <1>2, <1>3
    <3> HIDE DEF list
    <3> QED
      BY <3>1, FecPacketType
  <2>2. filled \in [1 .. r -> PacketType(C)]
    BY <2>1
  <2> HIDE DEF filled
  <2> QED
    BY <2>2, SeqDef
<1>6. packets = filled
  <2>1. SubSeq(list, r + 1, Len(list)) = << >>
    BY <1>3, SubSeqEmpty
  <2> HIDE DEF filled
  <2> QED
    BY <1>5, <2>1
<1>7. ASSUME NEW i \in 1 .. r
      PROVE  /\ filled[i].packet_mask = Row(i - 1)
             /\ filled[i].group_number = f.group_number % 256
             /\ filled[i].sequence_number = (n + i - 1) % 256
             /\ filled[i].data = XorPayloads(XorOfMasked(f.media_packets, Row(i - 1)), {})
  <2>1. filled[i] = FecPacket(f, i - 1, r, masks, NewPacket)
    BY <1>3
  <2>2. f.sequence_number + (i - 1) - n = i - 1 /\ f.sequence_number + (i - 1) = n + i - 1
    OBVIOUS
  <2>3. NewPacket.data = {}
    BY DEF NewPacket
  <2> HIDE DEF filled
  <2> QED
    BY <2>1, <2>2, <2>3 DEF FecPacket, HeaderRow
<1>8. ASSUME NEW i \in 1 .. r
      PROVE  /\ filled[i].packet_mask \subseteq 0 .. n - 1
             /\ filled[i].sequence_number = n + i - 1
             /\ filled[i].data = XorOfMasked(f.media_packets, filled[i].packet_mask)
  <2>1. Row(i - 1) \in SUBSET (0 .. n - 1)
    BY MaskRowType
  <2>2. (n + i - 1) % 256 = n + i - 1
    <3> DEFINE m == n + i - 1
    <3>1. m \in 0 .. 255
      OBVIOUS
    <3> HIDE DEF m
    <3>2. m % 256 = m
      BY <3>1
    <3> QED
      BY <3>2 DEF m
  <2>3. \A S : XorPayloads(S, {}) = S
    BY DEF XorPayloads
  <2> HIDE DEF filled
  <2> QED
    BY <1>7, <2>1, <2>2, <2>3
<1>10. ASSUME NEW i \in 1 .. r
       PROVE  filled[i].packet_mask = MaskRows(f.fec_mask_type, n, r)[i - 1]
  <2>1. MaskRows(f.fec_mask_type, n, r) = [x \in 0 .. r - 1 |-> Row(x)]
    BY DEF MaskRows, masks
  <2>2. i - 1 \in 0 .. r - 1
    OBVIOUS
  <2> QED
    BY <1>7, <2>1, <2>2
<1> HIDE DEF filled, packets
<1>9. e.fec_packets = filled /\ e = [f EXCEPT !.fec_packets = filled, !.sequence_number = n + r]
  BY <1>4, <1>6 DEF FecType
<1> HIDE DEF e
<1> QED
  BY <1>5, <1>7, <1>8, <1>9, <1>10 DEF e, Protected

-----------------------------------------------------------------------------
(* The masks of groups of more than 12 media packets *)

\* The number that eight bits make, highest first, and the bits it is made of.
Bit(d)  == IF d THEN 1 ELSE 0
Bits(d) == 128 * Bit(d[0]) + 64 * Bit(d[1]) + 32 * Bit(d[2]) + 16 * Bit(d[3])
             + 8 * Bit(d[4]) + 4 * Bit(d[5]) + 2 * Bit(d[6]) + Bit(d[7])

\* The test of a bit that EncodeFec makes finds the bit that was set.
LEMMA BitsTested ==
  ASSUME NEW d, NEW b \in 0 .. 7
  PROVE  (Bits(d) \div 2 ^ (7 - b)) % 2 = 1 <=> d[b]
<1> DEFINE x0 == Bit(d[0])
           x1 == Bit(d[1])
           x2 == Bit(d[2])
           x3 == Bit(d[3])
           x4 == Bit(d[4])
           x5 == Bit(d[5])
           x6 == Bit(d[6])
           x7 == Bit(d[7])
           v  == 128 * x0 + 64 * x1 + 32 * x2 + 16 * x3 + 8 * x4 + 4 * x5 + 2 * x6 + x7
<1>1. /\ x0 \in {0, 1} /\ x1 \in {0, 1} /\ x2 \in {0, 1} /\ x3 \in {0, 1}
      /\ x4 \in {0, 1} /\ x5 \in {0, 1} /\ x6 \in {0, 1} /\ x7 \in {0, 1}
  BY DEF Bit
<1>2. /\ x0 = 1 <=> d[0]
      /\ x1 = 1 <=> d[1]
      /\ x2 = 1 <=> d[2]
      /\ x3 = 1 <=> d[3]
      /\ x4 = 1 <=> d[4]
      /\ x5 = 1 <=> d[5]
      /\ x6 = 1 <=> d[6]
      /\ x7 = 1 <=> d[7]
  BY DEF Bit
<1>3. Bits(d) = v
  BY DEF Bits
<1> HIDE DEF x0, x1, x2, x3, x4, x5, x6, x7
<1>4. /\ (v \div 128) % 2 = x0 /\ (v \div 64) % 2 = x1
      /\ (v \div 32) % 2 = x2 /\ (v \div 16) % 2 = x3
      /\ (v \div 8) % 2 = x4 /\ (v \div 4) % 2 = x5
      /\ (v \div 2) % 2 = x6 /\ (v \div 1) % 2 = x7
  BY <1>1
<1>5. /\ 2 ^ 7 = 128 /\ 2 ^ 6 = 64 /\ 2 ^ 5 = 32 /\ 2 ^ 4 = 16
      /\ 2 ^ 3 = 8 /\ 2 ^ 2 = 4 /\ 2 ^ 1 = 2 /\ 2 ^ 0 = 1
  OBVIOUS
<1> HIDE DEF v
<1>6. CASE b = 0
  BY <1>2, <1>3, <1>4, <1>5, <1>6
<1>7. CASE b = 1
  BY <1>2, <1>3, <1>4, <1>5, <1>7
<1>8. CASE b = 2
  BY <1>2, <1>3, <1>4, <1>5, <1>8
<1>9. CASE b = 3
  BY <1>2, <1>3, <1>4, <1>5, <1>9
<1>10. CASE b = 4
  BY <1>2, <1>3, <1>4, <1>5, <1>10
<1>11. CASE b = 5
  BY <1>2, <1>3, <1>4, <1>5, <1>11
<1>12. CASE b = 6
  BY <1>2, <1>3, <1>4, <1>5, <1>12
<1>13. CASE b = 7
  BY <1>2, <1>3, <1>4, <1>5, <1>13
<1> QED
  BY <1>6, <1>7, <1>8, <1>9, <1>10, <1>11, <1>12, <1>13

\* A bit of an interleaved row is set for every m-th media packet of the group.
LEMMA InterleavedBit ==
  \A n, m, row, col \in Nat : \A b \in 0 .. 7 :
    (InterleavedByte(row, col, n, m) \div 2 ^ (7 - b)) % 2 = 1
      <=> (col * 8 + b) % m = row /\ col * 8 + b < n
<1> TAKE n, m, row, col \in Nat
<1> TAKE b \in 0 .. 7
<1> DEFINE d == [x \in 0 .. 7 |-> (col * 8 + x) % m = row /\ col * 8 + x < n]
<1>1. InterleavedByte(row, col, n, m) = Bits(d)
  <2> DEFINE bit(x) == IF (col * 8 + x) % m = row /\ col * 8 + x < n THEN 2 ^ (7 - x) ELSE 0
  <2>1. InterleavedByte(row, col, n, m)
          = bit(0) + bit(1) + bit(2) + bit(3) + bit(4) + bit(5) + bit(6) + bit(7)
    BY DEF InterleavedByte
  <2>2. /\ 2 ^ (7 - 0) = 128 /\ 2 ^ (7 - 1) = 64 /\ 2 ^ (7 - 2) = 32 /\ 2 ^ (7 - 3) = 16
        /\ 2 ^ (7 - 4) = 8 /\ 2 ^ (7 - 5) = 4 /\ 2 ^ (7 - 6) = 2 /\ 2 ^ (7 - 7) = 1
    OBVIOUS
  <2>3. \A x \in 0 .. 7 : d[x] <=> (col * 8 + x) % m = row /\ col * 8 + x < n
    OBVIOUS
  <2>4. ASSUME NEW x \in 0 .. 7 PROVE bit(x) = 2 ^ (7 - x) * Bit(d[x])
    <3>1. CASE d[x]
      BY <2>3, <3>1 DEF Bit
    <3>2. CASE ~d[x]
      BY <2>3, <3>2 DEF Bit
    <3> QED
      BY <3>1, <3>2
  <2> HIDE DEF d, bit
  <2>5. /\ bit(0) = 128 * Bit(d[0]) /\ bit(1) = 64 * Bit(d[1]) /\ bit(2) = 32 * Bit(d[2])
        /\ bit(3) = 16 * Bit(d[3]) /\ bit(4) = 8 * Bit(d[4]) /\ bit(5) = 4 * Bit(d[5])
        /\ bit(6) = 2 * Bit(d[6]) /\ bit(7) = 1 * Bit(d[7])
    BY <2>2, <2>4
  <2>6. Bit(d[7]) \in Nat
    BY DEF Bit
  <2> QED
    BY <2>1, <2>5, <2>6 DEF Bits
<1>2. d[b] <=> (col * 8 + b) % m = row /\ col * 8 + b < n
  OBVIOUS
<1> HIDE DEF d
<1> QED
  BY <1>1, <1>2, BitsTested

\* The media packets i, i + m, i + 2m, ... of n.
EveryMth(i, n, m) == {x \in 0 .. n - 1 : x % m = i}

(***************************************************************************)
(* Row i of the masks for a group of more than 12 media packets protects   *)
(* packets i, i + m, i + 2m, ...: what GeneratePacketMasks writes into its *)
(* bytes, and EncodeFec reads out of them bit by bit.                      *)
(***************************************************************************)
THEOREM RowsInterleave ==
  \A t \in FecMaskType : \A n \in 13 .. 16 : \A m \in 1 .. n : \A i \in 0 .. m - 1 :
    MaskRows(t, n, m)[i] = EveryMth(i, n, m)
<1> TAKE t \in FecMaskType
<1> TAKE n \in 13 .. 16
<1> TAKE m \in 1 .. n
<1> TAKE i \in 0 .. m - 1
<1> DEFINE masks == [p \in 1 .. m * 2 |-> InterleavedByte((p - 1) \div 2, (p - 1) % 2, n, m)]
<1>1. PacketMaskSize(n) = 2
  BY DEF PacketMaskSize
<1>2. GeneratePacketMasks(n, m, 0, FALSE, PickTable(t, n)) = masks
  BY <1>1 DEF GeneratePacketMasks, LookUp
<1>3. MaskRows(t, n, m)[i] = MaskRow(masks, i, n, 2)
  BY <1>1, <1>2 DEF MaskRows
<1>4. ASSUME NEW x \in 0 .. n - 1 PROVE MaskBit(masks, i, x, 2) <=> x % m = i
  <2> DEFINE col == x \div 8
             b   == x % 8
             p   == i * 2 + col + 1
  <2>1. col \in 0 .. 1 /\ b \in 0 .. 7 /\ x = col * 8 + b
    OBVIOUS
  <2> HIDE DEF col, b
  <2>2. p \in 1 .. m * 2 /\ (p - 1) \div 2 = i /\ (p - 1) % 2 = col
    BY <2>1
  <2> HIDE DEF p
  <2>3. masks[p] = InterleavedByte(i, col, n, m)
    BY <2>2
  <2> HIDE DEF masks
  <2>4. MaskBit(masks, i, x, 2) <=> (masks[p] \div 2 ^ (7 - b)) % 2 = 1
    BY DEF MaskBit, p, col, b
  <2>5. (InterleavedByte(i, col, n, m) \div 2 ^ (7 - b)) % 2 = 1 <=> x % m = i /\ x < n
    <3>1. col \in Nat /\ n \in Nat /\ m \in Nat /\ i \in Nat
      BY <2>1
    <3>2. (InterleavedByte(i, col, n, m) \div 2 ^ (7 - b)) % 2 = 1
            <=> (col * 8 + b) % m = i /\ col * 8 + b < n
      BY <2>1, <3>1, InterleavedBit, Zenon
    <3> QED
      BY <2>1, <3>2, Zenon
  <2>6. x < n
    OBVIOUS
  <2> QED
    BY <2>3, <2>4, <2>5, <2>6
<1> HIDE DEF masks
<1> QED
  BY <1>3, <1>4 DEF MaskRow, EveryMth

\* At most m packets in a row have different remainders, so that each is the only one of
\* them in its mask row.
LEMMA InterleavedCovers ==
  ASSUME NEW t \in FecMaskType, NEW n \in 13 .. 16, NEW m \in 1 .. n PROVE RunsCovered(t, n, m)
<1> SUFFICES ASSUME NEW first \in 0 .. n - 1, NEW len \in 1 .. m, first + len <= n,
                    NEW S \in (SUBSET (first .. first + len - 1)) \ {{}}
             PROVE  \E i \in DOMAIN MaskRows(t, n, m) : \E j \in S :
                      MaskRows(t, n, m)[i] \intersect S = {j}
  BY DEF RunsCovered, Peelable
<1>1. PICK j \in S : TRUE
  OBVIOUS
<1>2. /\ \A x \in S : x \in first .. first + len - 1 /\ x \in 0 .. n - 1
      /\ j \in 0 .. n - 1 /\ j \in first .. first + len - 1
  OBVIOUS
<1> DEFINE i == j % m
<1>3. i \in 0 .. m - 1
  BY <1>2
<1>4. DOMAIN MaskRows(t, n, m) = 0 .. m - 1
  BY DEF MaskRows
<1>5. MaskRows(t, n, m)[i] = EveryMth(i, n, m)
  <2> HIDE DEF i
  <2> QED
    BY <1>3, RowsInterleave, Zenon
<1>6. ASSUME NEW x \in S, x % m = j % m PROVE x = j
  <2>1. \A q \in 1 .. 16 : \A x1, x2 \in 0 .. 15 :
          x1 % q = x2 % q /\ x1 - x2 < q /\ x2 - x1 < q => x1 = x2
    OBVIOUS
  <2>2. m \in 1 .. 16 /\ x \in 0 .. 15 /\ j \in 0 .. 15 /\ x - j < m /\ j - x < m
    BY <1>2
  <2> QED
    BY <1>6, <2>1, <2>2
<1>7. MaskRows(t, n, m)[i] \intersect S = {j}
  BY <1>2, <1>5, <1>6 DEF EveryMth
<1> QED
  BY <1>3, <1>4, <1>7
=============================================================================
