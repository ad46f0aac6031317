-------------------------- MODULE PacketMaskTable --------------------------
(***************************************************************************)
(* The FEC packet masks: which media packets of a group each FEC packet    *)
(* protects.  Models src/Channel_sim/fec_private_tables_random.cpp and     *)
(* fec_private_tables_bursty.cpp (the tables) and the lookup in            *)
(* src/Channel_sim/forward_error_correction.cpp.                           *)
(*                                                                         *)
(* A mask is a row of bytes; bit 7 - j%8 of byte j/8 stands for media      *)
(* packet j.  Everything here is an operator: the lookup keeps no state    *)
(* but its two scratch buffers, which it overwrites on every call.         *)
(***************************************************************************)
EXTENDS Naturals, Sequences, SequencesExt

(***************************************************************************)
(* kMaskRandomK_R and kMaskBurstyK_R, two bytes of a row per hex number:   *)
(* kPacketMaskRandom[K][R] is the sequence of the R rows of K_R.           *)
(***************************************************************************)
kPacketMaskRandom == <<
  << <<\h8000>> >>,
  << <<\hC000>>, <<\hC000, \h8000>> >>,
  << <<\hE000>>, <<\hC000, \hA000>>, <<\hC000, \hA000, \h6000>> >>,
  << <<\hF000>>, <<\hC000, \hB000>>, <<\hC000, \hB000, \h6000>>, <<\hC000, \hA000, \h3000,
     \h5000>> >>,
  << <<\hF800>>, <<\hA800, \hD000>>, <<\hB000, \hC800, \h5000>>, <<\hC800, \hB000, \h5000,
     \h2800>>, <<\hC000, \h3000, \h1800, \hA000, \h4800>> >>,
  << <<\hFC00>>, <<\hA800, \hD400>>, <<\hD000, \h6800, \hA400>>, <<\hA800, \h5800, \h6400,
     \h9400>>, <<\hA800, \h8400, \h6400, \h9000, \h5800>>, <<\h9800, \h6400, \h5000, \h1400,
     \hA800, \hE000>> >>,
  << <<\hFE00>>, <<\hD400, \hAA00>>, <<\hD000, \hAA00, \h6400>>, <<\hD000, \hAA00, \h6400,
     \h1C00>>, <<\h0C00, \hB000, \h1A00, \hC400, \h6200>>, <<\h8C00, \h4A00, \h6400, \hD000,
     \hA000, \h3200>>, <<\h4A00, \h9400, \h1A00, \hC400, \h2800, \hC200, \h3400>> >>,
  << <<\hFF00>>, <<\hAA00, \hD500>>, <<\hC500, \h9200, \h6A00>>, <<\h4500, \hB400, \h6A00,
     \h8900>>, <<\h8C00, \h9200, \h2B00, \h5100, \h6400>>, <<\hA100, \h5200, \h9100, \h2A00,
     \hC400, \h4C00>>, <<\h1500, \hC200, \h2500, \h6200, \h5800, \h8C00, \hA300>>, <<\h2500,
     \h8A00, \h9100, \h6800, \h3200, \h4300, \hC400, \h1C00>> >>,
  << <<\hFF80>>, <<\hAA80, \hD500>>, <<\hA500, \hC800, \h5280>>, <<\hA200, \hC900, \h5280,
     \h2480>>, <<\h8C00, \h2500, \h9280, \h4180, \h5800>>, <<\h8480, \h2700, \h5180, \h1A00,
     \h6800, \h8900>>, <<\h8C00, \h4700, \h8180, \h1280, \h5800, \h2880, \hB400>>, <<\h2C00,
     \h9100, \h4080, \h0680, \hC800, \h4500, \h3080, \hA200>>, <<\h4C00, \h6200, \h9100,
     \h4280, \hA400, \h1300, \h3080, \h8880, \h0900>> >>,
  << <<\hFFC0>>, <<\hAA80, \hD540>>, <<\hA440, \hC900, \h5280>>, <<\hCA00, \h3280, \hA140,
     \h5500>>, <<\hCA00, \h3280, \hA140, \h5500, \h08C0>>, <<\h0E00, \h3300, \h10C0, \h4540,
     \h8880, \hE000>>, <<\h4600, \h3300, \h80C0, \h0C40, \h2880, \h9400, \hC100>>, <<\h2C00,
     \h8180, \hA040, \h0540, \h1880, \hC200, \h2280, \h5040>>, <<\h4C00, \h2300, \h88C0,
     \h2140, \h5280, \h9400, \h2600, \h4840, \h9180>>, <<\h4C00, \h5100, \hA040, \h04C0,
     \h0380, \h8600, \h2900, \h4240, \h9800, \h3080>> >>,
  << <<\hFFE0>>, <<\hECC0, \h9BA0>>, <<\hCAC0, \hF140, \hB620>>, <<\hC4C0, \h3160, \h4B20,
     \h2CA0>>, <<\h8680, \h2320, \h1620, \h4C20, \h41C0>>, <<\h6440, \h5140, \h0CA0, \hA120,
     \h12A0, \h8A40>>, <<\h4640, \h3320, \h9180, \hA420, \h50A0, \h84C0, \h0960>>, <<\h0C80,
     \h8060, \hA080, \h0540, \h4300, \h1A00, \h6020, \h1420>>, <<\h4640, \h6260, \h8C00,
     \h0160, \h0780, \hA080, \h18A0, \h9100, \h7800>>, <<\h6440, \h5140, \hA900, \h04C0,
     \hD000, \h8240, \h2120, \h0C20, \h4A00, \h12A0>>, <<\h4640, \h3320, \h9900, \h0580,
     \h80A0, \h8440, \h4060, \h0A80, \h6800, \h1020, \h3040>> >>,
  << <<\hFFF0>>, <<\hECC0, \h93B0>>, <<\h9B80, \h4F10, \h3C60>>, <<\h8B20, \h14B0, \h22D0,
     \h4550>>, <<\h5360, \h6420, \h0CC0, \h82A0, \h0930>>, <<\h5140, \hC510, \h2180, \h1230,
     \h08E0, \h2E00>>, <<\h5360, \h2130, \h9090, \h0250, \h06A0, \h2C00, \h8860>>, <<\h2060,
     \h8030, \h4240, \h0190, \h1410, \h0A80, \h3800, \hC500>>, <<\h5360, \hE420, \h2440,
     \hA110, \h1830, \h0390, \h8A10, \h0490, \h00E0>>, <<\h5140, \h4510, \h80D0, \h2420,
     \h0A20, \h00E0, \hB800, \h0910, \h5600, \hA280>>, <<\h5360, \h2130, \h1090, \h0070,
     \h0C10, \h40C0, \h6A00, \h8600, \h2480, \h8900, \hC020>>, <<\h1060, \h0230, \h4050,
     \h2180, \h8110, \h1480, \h9800, \h0890, \h6200, \h2420, \h8A00, \h8440>> >> >>

kPacketMaskBursty == <<
  << <<\h8000>> >>,
  << <<\hC000>>, <<\h8000, \hC000>> >>,
  << <<\hE000>>, <<\hC000, \hA000>>, <<\h8000, \hC000, \h6000>> >>,
  << <<\hF000>>, <<\hA000, \hD000>>, <<\hC000, \h6000, \h9000>>, <<\h8000, \hC000, \h6000,
     \h3000>> >>,
  << <<\hF800>>, <<\hD000, \hA800>>, <<\h7000, \h9000, \hC800>>, <<\hC000, \h6000, \h3000,
     \h8800>>, <<\h8000, \hC000, \h6000, \h3000, \h1800>> >>,
  << <<\hFC00>>, <<\hA800, \hD400>>, <<\h9400, \hC800, \h6400>>, <<\h6000, \h3800, \h8800,
     \hC400>>, <<\hC000, \h6000, \h3000, \h1800, \h8400>>, <<\h8000, \hC000, \h6000, \h3000,
     \h1800, \h0C00>> >>,
  << <<\hFE00>>, <<\hD400, \hAA00>>, <<\hC800, \h7400, \h9200>>, <<\h3800, \h8A00, \hC400,
     \h6200>>, <<\h6000, \h3000, \h1C00, \h8400, \hC200>>, <<\hC000, \h6000, \h3000, \h1800,
     \h0C00, \h8200>>, <<\h8000, \hC000, \h6000, \h3000, \h1800, \h0C00, \h0600>> >>,
  << <<\hFF00>>, <<\hAA00, \hD500>>, <<\h7400, \h9200, \hC900>>, <<\h8A00, \hC500, \h6200,
     \h3100>>, <<\h3000, \h1C00, \h8500, \hC200, \h6100>>, <<\h6000, \h3000, \h1800, \h0E00,
     \h8200, \hC100>>, <<\hC000, \h6000, \h3000, \h1800, \h0C00, \h0600, \h8100>>, <<\h8000,
     \hC000, \h6000, \h3000, \h1800, \h0C00, \h0600, \h0300>> >>,
  << <<\hFF80>>, <<\hD500, \hAA80>>, <<\h9200, \hC900, \h7480>>, <<\hC500, \h6200, \h3900,
     \h8A80>>, <<\h1C00, \h8500, \hC280, \h6100, \h3080>>, <<\h3000, \h1800, \h0E00, \h8280,
     \hC100, \h6080>>, <<\h6000, \h3000, \h1800, \h0C00, \h0700, \h8100, \hC080>>, <<\hC000,
     \h6000, \h3000, \h1800, \h0C00, \h0600, \h0300, \h8080>>, <<\h8000, \hC000, \h6000,
     \h3000, \h1800, \h0C00, \h0600, \h0300, \h0180>> >>,
  << <<\hFFC0>>, <<\hAA80, \hD540>>, <<\hC900, \h7480, \h9240>>, <<\h6200, \h3900, \h8A80,
     \hC540>>, <<\h8500, \hC280, \h6140, \h3080, \h1840>>, <<\h1800, \h0E00, \h8280, \hC140,
     \h6080, \h3040>>, <<\h3000, \h1800, \h0C00, \h0700, \h8140, \hC080, \h6040>>, <<\h6000,
     \h3000, \h1800, \h0C00, \h0600, \h0300, \h8080, \hC040>>, <<\hC000, \h6000, \h3000,
     \h1800, \h0C00, \h0600, \h0300, \h0180, \h8040>>, <<\h8000, \hC000, \h6000, \h3000,
     \h1800, \h0C00, \h0600, \h0300, \h0180, \h00C0>> >>,
  << <<\hFFE0>>, <<\hD540, \hAAA0>>, <<\h7480, \h9240, \hC920>>, <<\h3900, \h8A80, \hC540,
     \h6220>>, <<\hC2C0, \h6100, \h30A0, \h1C40, \h8520>>, <<\h0E00, \h8280, \hC140, \h60A0,
     \h3040, \h1820>>, <<\h1800, \h0C00, \h0700, \h8140, \hC0A0, \h6040, \h3020>>, <<\h3000,
     \h1800, \h0C00, \h0600, \h0340, \h80A0, \hC040, \h6020>>, <<\h6000, \h3000, \h1800,
     \h0C00, \h0600, \h0300, \h0180, \h8040, \hC020>>, <<\hC000, \h6000, \h3000, \h1800,
     \h0C00, \h0600, \h0300, \h0180, \h00C0, \h8020>>, <<\h8000, \hC000, \h6000, \h3000,
     \h1800, \h0C00, \h0600, \h0300, \h0180, \h00C0, \h0060>> >>,
  << <<\hFFF0>>, <<\hAAA0, \hD550>>, <<\h9240, \hC920, \h7490>>, <<\h8A80, \hC540, \h6220,
     \h3910>>, <<\h6100, \h30A0, \h1C50, \h8520, \hC290>>, <<\h8290, \hC140, \h60A0, \h3050,
     \h1820, \h0C10>>, <<\h0C00, \h0700, \h8140, \hC0A0, \h6050, \h3020, \h1810>>, <<\h1800,
     \h0C00, \h0600, \h0300, \h80A0, \hC050, \h6020, \h3010>>, <<\h3000, \h1800, \h0C00,
     \h0600, \h0300, \h0180, \h8050, \hC020, \h6010>>, <<\h6000, \h3000, \h1800, \h0C00,
     \h0600, \h0300, \h0180, \h00C0, \h8020, \hC010>>, <<\hC000, \h6000, \h3000, \h1800,
     \h0C00, \h0600, \h0300, \h0180, \h00C0, \h0060, \h8010>>, <<\h8000, \hC000, \h6000,
     \h3000, \h1800, \h0C00, \h0600, \h0300, \h0180, \h00C0, \h0060, \h0030>> >> >>

FecMaskType == {"kFecMaskRandom", "kFecMaskBursty"}

(***************************************************************************)
(* The byte arrays the preprocessor builds from those rows: the number of  *)
(* entries, then for every K a count byte and the rows of K_1 ... K_count. *)
(***************************************************************************)
RowBytes(rows) == FlattenSeq([i \in 1 .. Len(rows) |-> <<rows[i] \div 256, rows[i] % 256>>])

TableEntry(entry) ==
  <<Len(entry)>> \o FlattenSeq([r \in 1 .. Len(entry) |-> RowBytes(entry[r])])

ByteTable(rows) ==
  <<Len(rows)>> \o FlattenSeq([k \in 1 .. Len(rows) |-> TableEntry(rows[k])])

kPacketMaskRandomTbl == ByteTable(kPacketMaskRandom)

kPacketMaskBurstyTbl == ByteTable(kPacketMaskBursty)

PickTable(fec_mask_type, num_media_packets) ==
  IF /\ fec_mask_type # "kFecMaskRandom"
     /\ num_media_packets <= kPacketMaskBurstyTbl[1]
  THEN kPacketMaskBurstyTbl
  ELSE kPacketMaskRandomTbl

PacketMaskSize(num_sequence_numbers) == IF num_sequence_numbers > 8 * 2 THEN 6 ELSE 2

(***************************************************************************)
(* LookUpInFecTable: the pointer walk over the byte array.  Offsets count  *)
(* from 0 as in C, so byte p of the array is table[p + 1].                 *)
(***************************************************************************)
EntrySizeIncrement(media_packet_index) == IF media_packet_index >= 16 THEN 6 ELSE 2

\* Bytes of the first n blocks of an entry: the sum of increment * (j + 1), j < n.
BlocksSize(increment, n) == increment * ((n * (n + 1)) \div 2)

LookUpInFecTable(table, media_packet_index, fec_index) ==
  LET entry[i \in 0 .. media_packet_index] ==
        IF i = 0
        THEN 1
        ELSE entry[i - 1] + 1
               + BlocksSize(EntrySizeIncrement(i - 1), table[entry[i - 1] + 1])
      increment == EntrySizeIncrement(media_packet_index)
      first     == entry[media_packet_index] + 1 + BlocksSize(increment, fec_index)
  IN  SubSeq(table, first + 1, first + increment * (fec_index + 1))

\* Byte col of row `row` of the interleaved mask: media packet x is in row x % r.
InterleavedByte(row, col, num_media_packets, num_fec_packets) ==
  LET bit(b) == LET x == col * 8 + b
                IN  IF x % num_fec_packets = row /\ x < num_media_packets
                    THEN 2 ^ (7 - b)
                    ELSE 0
  IN  bit(0) + bit(1) + bit(2) + bit(3) + bit(4) + bit(5) + bit(6) + bit(7)

LookUp(table, num_media_packets, num_fec_packets) ==
  LET mask_length == PacketMaskSize(num_media_packets)
  IN  IF num_media_packets <= 12
      THEN LookUpInFecTable(table, num_media_packets - 1, num_fec_packets - 1)
      ELSE [p \in 1 .. num_fec_packets * mask_length |->
              InterleavedByte((p - 1) \div mask_length, (p - 1) % mask_length,
                              num_media_packets, num_fec_packets)]

\* Unequal protection (`unequal` is use_unequal_protection) has no branch in this
\* code: the zeroed buffer stays as it is.
GeneratePacketMasks(num_media_packets, num_fec_packets, num_imp_packets, unequal, table) ==
  IF ~unequal \/ num_imp_packets = 0
  THEN LookUp(table, num_media_packets, num_fec_packets)
  ELSE [p \in 1 .. num_fec_packets * PacketMaskSize(num_media_packets) |-> 0]

\* The bit EncodeFec tests for FEC packet i and media packet j.
MaskBit(packet_masks, i, j, packet_mask_size) ==
  (packet_masks[i * packet_mask_size + j \div 8 + 1] \div 2 ^ (7 - (j % 8))) % 2 = 1

\* Row i as the set of media packets it protects.
MaskRow(packet_masks, i, num_media_packets, packet_mask_size) ==
  {j \in 0 .. num_media_packets - 1 : MaskBit(packet_masks, i, j, packet_mask_size)}

-----------------------------------------------------------------------------
(* What the masks are for. *)

\* The rows of a group of num_media_packets media and num_fec_packets FEC packets.
MaskRows(fec_mask_type, num_media_packets, num_fec_packets) ==
  LET masks == GeneratePacketMasks(num_media_packets, num_fec_packets, 0, FALSE,
                                   PickTable(fec_mask_type, num_media_packets))
  IN  [i \in 0 .. num_fec_packets - 1 |->
         MaskRow(masks, i, num_media_packets, PacketMaskSize(num_media_packets))]

\* Whatever is still missing of the packets lost, some row has a single one of it.
Peelable(rows, lost) ==
  \A S \in (SUBSET lost) \ {{}} : \E i \in DOMAIN rows : \E j \in S : rows[i] \intersect S = {j}

\* The rows cover the losses they are made for: any single packet, and with bursty or
\* interleaved masks any run of at most num_fec_packets packets.
RunsCovered(fec_mask_type, num_media_packets, num_fec_packets) ==
  LET rows == MaskRows(fec_mask_type, num_media_packets, num_fec_packets)
  IN  \A first \in 0 .. num_media_packets - 1 : \A len \in 1 .. num_fec_packets :
        /\ first + len <= num_media_packets
        /\ len = 1 \/ fec_mask_type = "kFecMaskBursty" \/ num_media_packets > 12
        => Peelable(rows, first .. first + len - 1)
=============================================================================
