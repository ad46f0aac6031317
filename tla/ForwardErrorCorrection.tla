----------------------- MODULE ForwardErrorCorrection -----------------------
(***************************************************************************)
(* The FEC encoder of src/Channel_sim/forward_error_correction.cpp: the    *)
(* object `fec` of Udpserver and the file-level statics it uses, as one    *)
(* record that PacketByFEC maps to the next one.                           *)
(*                                                                         *)
(* The payload of a packet is a set of pieces of input, a media packet     *)
(* holding one piece, and exclusive or is symmetric difference; the zeros  *)
(* a short piece is padded with are the neutral element.  A piece is the   *)
(* chunk it was cut from and the number of bytes of it that were stored.   *)
(***************************************************************************)
EXTENDS PacketMaskTable, Integers, FiniteSets

UInt8 == 0 .. 255

Piece(chunk, len) == [chunk |-> chunk, len |-> len]

\* Packet and ForwardErrorCorrection, for chunks from a set Chunk.
PacketType(Chunk) ==
  [packet_mask : SUBSET Nat, group_number : UInt8, sequence_number : UInt8, k : UInt8,
   r : UInt8, data : SUBSET [chunk : Chunk, len : Nat]]

FecType(Chunk) ==
  [fec_first_use : BOOLEAN, fec_last_use : BOOLEAN, fec_mask_type : FecMaskType,
   packet_size : Nat, media_packets : Seq(PacketType(Chunk)),
   buffer_packets : Seq(PacketType(Chunk)), fec_packets : Seq(PacketType(Chunk)),
   group_number : Nat, sequence_number : Nat]

\* ForwardErrorCorrection as constructed, with the statics of its translation unit.
NewForwardErrorCorrection(mask_type) ==
  [fec_first_use   |-> TRUE,
   fec_last_use    |-> FALSE,
   fec_mask_type   |-> mask_type,
   packet_size     |-> 0,
   media_packets   |-> << >>,
   buffer_packets  |-> << >>,
   fec_packets     |-> << >>,
   group_number    |-> 0,
   sequence_number |-> 0]

\* Packet::Packet()
NewPacket ==
  [packet_mask |-> {}, group_number |-> 0, sequence_number |-> 0, k |-> 0, r |-> 0,
   data |-> {}]

XorPayloads(src, dst) == (src \ dst) \union (dst \ src)

\* mutant: the loop over the media packets starts at the second
XorSkipsFirst(media_packets, mask) ==
  UNION {media_packets[j + 1].data : j \in mask \ {0}}

\* The payloads of the media packets in `mask` xored together: the pieces found
\* in an odd number of them.
XorOfMasked(media_packets, mask) ==
  LET payload(j) == media_packets[j + 1].data
  IN  {x \in UNION {payload(j) : j \in mask} :
         Cardinality({j \in mask : x \in payload(j)}) % 2 = 1}

HeaderRowStale(f, i) == f.sequence_number - Len(f.media_packets)  \* mutant: not counted up

\* The mask row for the header of FEC packet i: sequence_number selects it.
HeaderRow(f, i) == f.sequence_number + i - Len(f.media_packets)

\* FEC packet i of a group.  Its payload is built from mask row i.
FecPacket(f, i, r, packet_masks, fec_packet) ==
  LET num_media_packets == Len(f.media_packets)
      size              == PacketMaskSize(num_media_packets)
  IN  [packet_mask     |-> MaskRow(packet_masks, HeaderRow(f, i), num_media_packets, size),
       group_number    |-> f.group_number % 256,
       sequence_number |-> (f.sequence_number + i) % 256,
       k               |-> num_media_packets % 256,
       r               |-> r % 256,
       data            |-> XorPayloads(XorOfMasked(f.media_packets,
                                         MaskRow(packet_masks, i, num_media_packets, size)),
                                       fec_packet.data)]

\* Appends r fresh packets to fec_packets, then r times takes the front one,
\* fills it in and puts it back at the end.
EncodeFec(f, r) ==
  LET num_media_packets == Len(f.media_packets)
      packet_masks == GeneratePacketMasks(num_media_packets, r, 0, FALSE,
                                          PickTable(f.fec_mask_type, num_media_packets))
      list   == f.fec_packets \o [i \in 1 .. r |-> NewPacket]
      filled == [i \in 1 .. r |-> FecPacket(f, i - 1, r, packet_masks, list[i])]
  IN  IF r = 0
      THEN f
      ELSE [f EXCEPT !.fec_packets     = SubSeq(list, r + 1, Len(list)) \o filled,
                     !.sequence_number = @ + r]

\* The packet made from one input buffer: cut to packet_size, or padded up to it.
MediaPacket(f, chunk, len, packet_size, k, r) ==
  [packet_mask     |-> {},
   group_number    |-> f.group_number % 256,
   sequence_number |-> f.sequence_number % 256,
   k               |-> k % 256,
   r               |-> r % 256,
   data            |-> {Piece(chunk, IF len < packet_size THEN len ELSE packet_size)}]

GroupOverdue(f, k)  == Len(f.media_packets) > k     \* mutant: one packet too late
GroupComplete(f, k) == Len(f.media_packets) = k

\* mutant: fec_packets is not cleared
FinishGroupDirty(f, r) ==
  LET e == EncodeFec(f, r)
  IN  [e EXCEPT !.buffer_packets  = @ \o e.fec_packets,
                !.group_number    = @ + 1,
                !.sequence_number = 0,
                !.media_packets   = << >>]

\* What the k-th packet of a group sets off.
FinishGroup(f, r) ==
  LET e == EncodeFec(f, r)
  IN  [e EXCEPT !.buffer_packets  = @ \o e.fec_packets,
                !.group_number    = @ + 1,
                !.sequence_number = 0,
                !.media_packets   = << >>,
                !.fec_packets     = << >>]

PacketByFEC(f, chunk, len, k, r) ==
  LET packet_size == IF f.fec_first_use THEN len ELSE f.packet_size
      packet      == MediaPacket(f, chunk, len, packet_size, k, r)
      g == [f EXCEPT !.fec_first_use   = FALSE,
                     !.fec_last_use    = @ \/ len < packet_size,
                     !.packet_size     = packet_size,
                     !.sequence_number = @ + 1,
                     !.media_packets   = Append(@, packet),
                     !.buffer_packets  = Append(@, packet)]
  IN  IF GroupComplete(g, k) THEN FinishGroup(g, r) ELSE g

\* The older copy of PacketByFEC, in FEC_Encode, leaves both lists as they are.
OldPacketByFEC(f, chunk, len, k, r) ==
  LET packet_size == IF f.fec_first_use THEN len ELSE f.packet_size
      packet      == MediaPacket(f, chunk, len, packet_size, k, r)
      g == [f EXCEPT !.fec_first_use   = FALSE,
                     !.fec_last_use    = @ \/ len < packet_size,
                     !.packet_size     = packet_size,
                     !.sequence_number = @ + 1,
                     !.media_packets   = Append(@, packet),
                     !.buffer_packets  = Append(@, packet)]
      e == EncodeFec(g, r)
  IN  IF GroupComplete(g, k)
      THEN [e EXCEPT !.buffer_packets  = @ \o e.fec_packets,
                     !.group_number    = @ + 1,
                     !.sequence_number = 0]
      ELSE g

\* mutant: the group is given up half way
UlpfecAbortHalf(e) == [e EXCEPT !.media_packets = << >>, !.sequence_number = 0]

\* What SendByUlpfec leaves when it returns from a failed sendto of a FEC packet.
UlpfecAbort(e) == e

\* SendByUlpfec when `sent` calls of sendto succeed before one fails, if any does: the
\* encoder it leaves and the packets on their way.  The first sendto is of the media packet.
SendByUlpfec(f, chunk, len, k, r, sent) ==
  LET packet_size == IF f.fec_first_use THEN len ELSE f.packet_size
      packet      == MediaPacket(f, chunk, len, packet_size, k, r)
      g == [f EXCEPT !.fec_first_use   = FALSE,
                     !.fec_last_use    = @ \/ len < packet_size,
                     !.packet_size     = packet_size,
                     !.sequence_number = @ + 1,
                     !.media_packets   = Append(@, packet)]
      e == EncodeFec(g, r)
      done == [e EXCEPT !.media_packets   = << >>,
                        !.fec_packets     = << >>,
                        !.group_number    = @ + 1,
                        !.sequence_number = 0]
      atEnd(h) == IF h.fec_last_use THEN [h EXCEPT !.media_packets = << >>] ELSE h
  IN  IF sent = 0
      THEN [fec |-> g, packets |-> << >>]
      ELSE IF ~GroupComplete(g, k)
      THEN [fec |-> atEnd(g), packets |-> <<packet>>]
      ELSE IF sent <= Len(e.fec_packets)
      THEN [fec |-> UlpfecAbort(e), packets |-> <<packet>> \o SubSeq(e.fec_packets, 1, sent - 1)]
      ELSE [fec |-> atEnd(done), packets |-> <<packet>> \o e.fec_packets]

UlpfecBytesCut(g, len) == len                       \* mutant: not padded on the wire

\* The bytes of payload that SendByUlpfec passes to sendto.
UlpfecBytes(g, len) == g.packet_size

\* Packet::Serialize: the bytes written, 0 when the payload does not fit.
kMaxDataSize == 2000

Serialize(buffer_size, payload_size_to_write) ==
  IF \/ buffer_size < 6 + payload_size_to_write
     \/ payload_size_to_write > kMaxDataSize
  THEN 0
  ELSE 6 + payload_size_to_write
=============================================================================
