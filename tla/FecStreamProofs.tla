--------------------------- MODULE FecStreamProofs ---------------------------
(***************************************************************************)
(* The stream through the encoder and its repair, for every shape of a     *)
(* group and any number of groups, chunks and failing calls of sendto.     *)
(*                                                                         *)
(* The argument turns on the groups that can still be encoded.  In such a  *)
(* group sequence_number counts the media packets, so that FEC headers and *)
(* payloads are made from the same mask rows, and packet j holds the piece *)
(* of input given for it.  As no piece is given twice, exclusive or then   *)
(* is set difference, and a receiver that follows the headers gets what    *)
(* was given.                                                              *)
(***************************************************************************)
EXTENDS FecStream, ForwardErrorCorrectionProofs, FiniteSetTheorems, WellFoundedInduction

WirePacket == [packet : PacketType(Nat), bytes : Nat]

\* TypeOK and the types of the history.
TypeInv ==
  /\ TypeOK
  /\ wire \in Seq(WirePacket)
  /\ stored \in [DOMAIN stored -> [chunk : Nat, len : Nat]]
  /\ DOMAIN stored \subseteq Nat
  /\ calls \in Nat /\ failures \in 0 .. MaxFailures

\* The group under way can still be encoded.
Open == Len(f.media_packets) < k /\ ~(api = "SendByUlpfec" /\ f.fec_last_use)

FecOut == \E p \in Arrived : IsFec(p)

\* An open group is counted right, and has no FEC packets yet.
GroupInv ==
  /\ Open => /\ f.sequence_number = Len(f.media_packets)
             /\ f.sequence_number <= calls
             /\ f.fec_packets = << >>
             /\ IF phase = "send" THEN ~FecOut ELSE f.media_packets = << >>
  /\ api # "OldPacketByFEC" /\ ~Spoilt => Open

\* What is on the wire of a group that nothing has spoilt.
WireInv ==
  api # "OldPacketByFEC" /\ ~Spoilt =>
    /\ phase = "send" =>
         /\ [i \in DOMAIN wire |-> wire[i].packet] = f.media_packets
         /\ \A i \in DOMAIN wire : wire[i].packet.group_number = f.group_number % 256
    /\ \A i \in DOMAIN wire :
         /\ wire[i].packet.sequence_number = i - 1
         /\ i > 1 => wire[i].packet.group_number = wire[1].packet.group_number

\* No piece is given twice, and an open group holds the pieces given.
GivenInv ==
  /\ \A j \in DOMAIN stored : stored[j].chunk < calls
  /\ \A i, j \in DOMAIN stored : stored[i].chunk = stored[j].chunk => i = j
  /\ phase = "send" => \A j \in DOMAIN stored : j < f.sequence_number
  /\ phase = "send" /\ Open =>
       /\ DOMAIN stored = 0 .. f.sequence_number - 1
       /\ \A j \in DOMAIN stored : f.media_packets[j + 1].data = {stored[j]}

\* FEC packets on the wire hold what their headers say of the pieces given.
FecInv ==
  \A p \in Arrived :
    IsFec(p) => /\ p.packet.packet_mask \subseteq (0 .. k - 1) \intersect DOMAIN stored
                /\ p.packet.data = {stored[j] : j \in p.packet.packet_mask}

\* So do the media packets of a group that has FEC packets or may get them: after those
\* of an unfinished group only packets with higher numbers follow.
MediaInv ==
  Open \/ FecOut =>
    \A p \in Arrived : \A j \in 0 .. k - 1 :
      IsMedia(p, j) => j \in DOMAIN stored /\ p.packet.data = {stored[j]}

\* The receiver has, misses or has rebuilt every packet of the group.
SeenInv ==
  IF phase = "repair"
  THEN Unsent \subseteq missing \union DOMAIN rebuilt
  ELSE missing = {} /\ DOMAIN rebuilt = {}

\* At most r consecutive media packets of the group.
IsRun(S) ==
  \E first \in 0 .. k - 1 : \E n \in 1 .. r : first + n <= k /\ S = first .. first + n - 1

\* A FEC packet for every mask row is on the wire.
RowsOut ==
  \A i \in 0 .. r - 1 : \E p \in Arrived :
    p.packet.packet_mask = MaskRows(f.fec_mask_type, k, r)[i]

\* As long as no sendto fails, all packets of a group are on the wire before it is
\* repaired, and the receiver misses a run of them.
CoverInv ==
  failures = 0 =>
    /\ phase = "send" => ~FecOut
    /\ phase = "send" /\ Open =>
         \A j \in 0 .. f.sequence_number - 1 : \E p \in Arrived : IsMedia(p, j)
    /\ phase # "send" => Unsent = {} /\ RowsOut
    /\ phase = "repair" => IsRun(missing \union DOMAIN rebuilt)

\* A number of bytes that packets of the group under way have on the wire.
OnTheWire(n) == IF api = "SendByUlpfec" THEN n = f.packet_size
                                        ELSE \E j \in DOMAIN given : n = given[j]

\* A packet holds what fits of its chunk, and the wire and every repair have as many
\* bytes as SendByUlpfec fills up to, or as some chunk of the group has.
ByteInv ==
  /\ DOMAIN given = DOMAIN stored /\ DOMAIN rebuilt \subseteq DOMAIN stored
  /\ f.fec_first_use => wire = << >> /\ DOMAIN stored = {}
  /\ \A j \in DOMAIN given :
       /\ given[j] \in Nat
       /\ stored[j].len = IF given[j] < f.packet_size THEN given[j] ELSE f.packet_size
  /\ \A i \in DOMAIN wire : OnTheWire(wire[i].bytes)
  /\ \A j \in DOMAIN rebuilt : OnTheWire(rebuilt[j].bytes)

-----------------------------------------------------------------------------
(* Numbers and sets *)

\* A set of numbers has a least one.
LEMMA MinOf ==
  ASSUME NEW S, S \subseteq Nat, S # {}
  PROVE  Min(S) \in S /\ \A y \in S : Min(S) <= y
<1>1. PICK x \in S : \A y \in S : ~(<<y, x>> \in OpToRel(<, Nat))
  BY NatLessThanWellFounded, WFMin
<1>2. \A y \in S : x <= y
  <2> TAKE y \in S
  <2>1. x \in Nat /\ y \in Nat
    OBVIOUS
  <2>2. ~(y < x)
    BY <1>1, <2>1 DEF OpToRel
  <2> QED
    BY <2>1, <2>2
<1> QED
  BY <1>2 DEF Min

\* The exclusive or of the payloads d of the packets in S.
Odd(S, d) == {x \in UNION {d[i] : i \in S} : Cardinality({i \in S : x \in d[i]}) % 2 = 1}

\* Pieces that differ cancel nowhere: exclusive or of them is their set.
LEMMA OddPieces ==
  ASSUME NEW S, NEW d, NEW piece,
         \A i \in S : d[i] = {piece[i]},
         \A i, j \in S : piece[i] = piece[j] => i = j
  PROVE  Odd(S, d) = {piece[i] : i \in S}
<1>1. ASSUME NEW i \in S PROVE Cardinality({j \in S : piece[i] \in d[j]}) % 2 = 1
  <2>1. {j \in S : piece[i] \in d[j]} = {i}
    OBVIOUS
  <2>2. Cardinality({i}) = 1
    BY FS_Singleton
  <2> QED
    BY <2>1, <2>2
<1> QED
  BY <1>1 DEF Odd

\* The first n elements of a sequence.
LEMMA Prefix ==
  \A S : \A q \in Seq(S) : \A n \in 0 .. Len(q) :
    /\ SubSeq(q, 1, n) \in Seq(S) /\ Len(SubSeq(q, 1, n)) = n
    /\ \A i \in 1 .. n : SubSeq(q, 1, n)[i] = q[i]
OBVIOUS

\* The shape of the stream.
LEMMA ShapeOk ==
  ASSUME TypeInv PROVE k \in 1 .. 16 /\ r \in 1 .. 16 /\ r <= k /\ k \in Nat /\ r \in Nat
<1>1. k \in 1 .. 16 /\ r \in 1 .. 16 /\ r <= k
  BY ShapesAssumption DEF TypeInv, TypeOK, k, r
<1> QED
  BY <1>1

\* The lengths of chunks.
LEMMA LenOk == ASSUME NEW len \in {FullLen, ShortLen} PROVE len \in Nat
BY LenAssumption

-----------------------------------------------------------------------------
(* A call of the entry point *)

\* The packet size of a call with a chunk of length len, the piece and the packet made
\* of it, and the media packets with this one.
Size(len)   == IF f.fec_first_use THEN len ELSE f.packet_size
New(len)    == Piece(calls, IF len < Size(len) THEN len ELSE Size(len))
Made(len)   == MediaPacket(f, calls, len, Size(len), k, r)
Filled(len) == Append(f.media_packets, Made(len))

\* The encoder before it looks whether the group is complete.
Grown(len, buffer) ==
  [f EXCEPT !.fec_first_use   = FALSE,
            !.fec_last_use    = @ \/ len < Size(len),
            !.packet_size     = Size(len),
            !.sequence_number = @ + 1,
            !.media_packets   = Filled(len),
            !.buffer_packets  = buffer]

\* The packet made of a chunk, and the piece in it.
LEMMA MadeType ==
  ASSUME TypeInv, NEW len \in Nat
  PROVE  /\ Size(len) \in Nat
         /\ New(len) \in [chunk : Nat, len : Nat] /\ New(len).chunk = calls
         /\ New(len).len <= len /\ New(len).len <= Size(len)
         /\ Made(len) \in PacketType(Nat)
         /\ Made(len).packet_mask = {} /\ Made(len).data = {New(len)}
         /\ Made(len).group_number = f.group_number % 256
         /\ Made(len).sequence_number = f.sequence_number % 256
<1>1. f \in FecType(Nat) /\ calls \in Nat /\ k \in Nat /\ r \in Nat
  <2>1. f \in FecType(Nat) /\ calls \in Nat
    BY DEF TypeInv, TypeOK
  <2> QED
    BY <2>1, ShapeOk
<1>2. Size(len) \in Nat
  BY <1>1 DEF Size, FecType
<1>3. Made(len) \in PacketType(Nat)
  BY <1>1, <1>2, MediaPacketType DEF Made
<1>4. /\ New(len) \in [chunk : Nat, len : Nat] /\ New(len).chunk = calls
      /\ New(len).len <= len /\ New(len).len <= Size(len)
  BY <1>1, <1>2 DEF New, Piece
<1> QED
  BY <1>2, <1>3, <1>4 DEF Made, MediaPacket, New

\* The fields of the encoder with that packet.
LEMMA GrownFields ==
  ASSUME TypeInv, NEW len \in Nat, NEW buffer \in Seq(PacketType(Nat))
  PROVE  LET g == Grown(len, buffer)
         IN  /\ g \in FecType(Nat)
             /\ g.fec_first_use = FALSE /\ g.packet_size = Size(len)
             /\ g.fec_last_use = (f.fec_last_use \/ len < Size(len))
             /\ g.sequence_number = f.sequence_number + 1
             /\ g.group_number = f.group_number
             /\ g.media_packets = Filled(len) /\ Len(Filled(len)) = Len(f.media_packets) + 1
             /\ g.buffer_packets = buffer /\ g.fec_packets = f.fec_packets
             /\ g.fec_mask_type = f.fec_mask_type
<1> DEFINE last == f.fec_last_use \/ len < Size(len)
           seq  == f.sequence_number + 1
           media == Filled(len)
           size == Size(len)
<1>1. f \in FecType(Nat)
  BY DEF TypeInv, TypeOK
<1>2. f.media_packets \in Seq(PacketType(Nat))
  BY <1>1 DEF FecType
<1>3. media \in Seq(PacketType(Nat)) /\ Len(media) = Len(f.media_packets) + 1
  BY <1>2, MadeType, AppendProperties DEF Filled
<1>4. last \in BOOLEAN /\ seq \in Nat /\ size \in Nat
  <2>1. f.sequence_number \in Nat
    BY <1>1 DEF FecType
  <2>2. size \in Nat
    BY MadeType
  <2>3. last \in BOOLEAN
    BY Zenon
  <2> QED
    BY <2>1, <2>2, <2>3
<1>5. Grown(len, buffer) =
        [f EXCEPT !.fec_first_use = FALSE, !.fec_last_use = last, !.packet_size = size,
                  !.sequence_number = seq, !.media_packets = media, !.buffer_packets = buffer]
  BY DEF Grown
<1> HIDE DEF last, seq, media, size
<1>6. LET g == Grown(len, buffer)
      IN  /\ g \in FecType(Nat)
          /\ g.fec_first_use = FALSE /\ g.packet_size = size /\ g.fec_last_use = last
          /\ g.sequence_number = seq /\ g.group_number = f.group_number
          /\ g.media_packets = media
          /\ g.buffer_packets = buffer /\ g.fec_packets = f.fec_packets
          /\ g.fec_mask_type = f.fec_mask_type
  BY <1>1, <1>3, <1>4, <1>5 DEF FecType
<1> QED
  BY <1>3, <1>6 DEF last, seq, media, size

\* EncodeFec on the group that this call completes.
LEMMA EncodedFields ==
  ASSUME TypeInv, GroupInv, Open, NEW len \in Nat, NEW buffer \in Seq(PacketType(Nat)),
         Len(f.media_packets) + 1 = k
  PROVE  LET g == Grown(len, buffer)
             e == EncodeFec(g, r)
         IN  /\ e \in FecType(Nat)
             /\ e = [g EXCEPT !.fec_packets = e.fec_packets, !.sequence_number = k + r]
             /\ e.fec_packets \in Seq(PacketType(Nat))
             /\ Protected(g, k, r, e.fec_packets)
<1> DEFINE g == Grown(len, buffer)
<1>1. /\ g \in FecType(Nat) /\ g.media_packets = Filled(len) /\ Len(Filled(len)) = k
      /\ g.sequence_number = f.sequence_number + 1 /\ g.fec_packets = f.fec_packets
  BY GrownFields
<1>2. f.sequence_number = Len(f.media_packets) /\ f.fec_packets = << >>
  BY DEF GroupInv
<1>3. k \in 1 .. 16 /\ r \in 1 .. 16
  BY ShapeOk
<1>4. EncodeFec(g, r) \in FecType(Nat)
  BY <1>1, ShapeOk, EncodeFecType
<1>5. Len(g.media_packets) = k /\ g.sequence_number = k /\ g.fec_packets = << >>
  BY <1>1, <1>2
<1> HIDE DEF g
<1>6. LET e == EncodeFec(g, r)
      IN  /\ e = [g EXCEPT !.fec_packets = e.fec_packets, !.sequence_number = k + r]
          /\ e.fec_packets \in Seq(PacketType(Nat))
          /\ Protected(g, k, r, e.fec_packets)
  BY <1>1, <1>3, <1>5, HeadersTellPayloads
<1> QED
  BY <1>4, <1>6 DEF g

Ulpfec == api = "SendByUlpfec"

Bytes(len) == IF Ulpfec THEN Size(len) ELSE len

OnWire(packets, bytes) ==
  [i \in 1 .. Len(packets) |-> [packet |-> packets[i], bytes |-> bytes]]

\* What a call does in any case.
Calls(len, packets) ==
  /\ phase = "send" /\ calls < MaxCalls
  /\ f' \in FecType(Nat) /\ f'.buffer_packets = << >>
  /\ f'.fec_mask_type = f.fec_mask_type
  /\ f'.fec_first_use = FALSE /\ f'.packet_size = Size(len)
  /\ f'.fec_last_use = (f.fec_last_use \/ len < Size(len))
  /\ packets \in Seq(PacketType(Nat))
  /\ wire' = wire \o OnWire(packets, Bytes(len))
  /\ stored' = [j \in DOMAIN stored \union {f.sequence_number} |->
                  IF j = f.sequence_number THEN New(len) ELSE stored[j]]
  /\ given' = [j \in DOMAIN given \union {f.sequence_number} |->
                 IF j = f.sequence_number THEN len ELSE given[j]]
  /\ calls' = calls + 1
  /\ failures' \in failures .. MaxFailures
  /\ Ulpfec => ~f.fec_last_use
  /\ UNCHANGED <<stream, missing, rebuilt>>

\* It adds a packet to the group; SendByUlpfec may fail to send it, or drop the group
\* at the end of the file.
Adds(len, packets) ==
  /\ Len(f.media_packets) + 1 = k => Ulpfec /\ failures' > 0
  /\ packets = <<Made(len)>> \/ (packets = << >> /\ Ulpfec /\ failures' > 0)
  /\ f'.media_packets = Filled(len) \/ (f'.media_packets = << >> /\ Ulpfec /\ f'.fec_last_use)
  /\ f'.sequence_number = f.sequence_number + 1
  /\ f'.group_number = f.group_number
  /\ f'.fec_packets = f.fec_packets
  /\ phase' = "send"

\* It completes the group, and sends FEC packets.
Completes(len, packets) ==
  /\ Len(f.media_packets) + 1 = k
  /\ Len(packets) \in 1 .. r + 1
  /\ packets[1] = Made(len)
  /\ \A i \in 2 .. Len(packets) :
       /\ packets[i].packet_mask \subseteq 0 .. k - 1
       /\ packets[i].packet_mask = MaskRows(f.fec_mask_type, k, r)[i - 2]
       /\ packets[i].group_number = f.group_number % 256
       /\ packets[i].sequence_number = k + i - 2
       /\ packets[i].data = XorOfMasked(Filled(len), packets[i].packet_mask)

\* The group is finished, or left as it is when a sendto fails.
Finishes(len, packets) ==
  /\ Len(packets) = r + 1
  /\ f'.sequence_number = 0
  /\ f'.group_number = f.group_number + 1
  /\ IF api = "OldPacketByFEC"
     THEN f'.media_packets = Filled(len)
     ELSE f'.media_packets = << >> /\ f'.fec_packets = << >>
  /\ phase' = "lose"

Aborts(len) ==
  /\ Ulpfec /\ failures' > 0
  /\ f'.sequence_number = k + r
  /\ f'.group_number = f.group_number
  /\ f'.media_packets = Filled(len)
  /\ phase' = "send"

\* The packets of a completed group.
LEMMA GroupPackets ==
  ASSUME TypeInv, GroupInv, Open, NEW len \in Nat, NEW buffer \in Seq(PacketType(Nat)),
         Len(f.media_packets) + 1 = k, NEW n \in 0 .. r
  PROVE  LET fecs    == EncodeFec(Grown(len, buffer), r).fec_packets
             packets == <<Made(len)>> \o SubSeq(fecs, 1, n)
         IN  packets \in Seq(PacketType(Nat)) /\ Completes(len, packets)
<1> DEFINE g == Grown(len, buffer)
           fecs == EncodeFec(g, r).fec_packets
           some == SubSeq(fecs, 1, n)
           packets == <<Made(len)>> \o some
<1>1. fecs \in Seq(PacketType(Nat)) /\ Protected(g, k, r, fecs)
  BY EncodedFields
<1>2. /\ g.group_number = f.group_number /\ g.media_packets = Filled(len)
      /\ g.fec_mask_type = f.fec_mask_type
  BY GrownFields
<1>3. k \in 1 .. 16 /\ r \in 1 .. 16 /\ Len(fecs) = r /\ n \in Nat
  BY <1>1, ShapeOk DEF Protected
<1> HIDE DEF g, fecs
<1>4. /\ some \in Seq(PacketType(Nat)) /\ Len(some) = n
      /\ \A i \in 1 .. n : some[i] = fecs[i]
  <2>1. n \in 0 .. Len(fecs)
    BY <1>3
  <2> QED
    BY <1>1, <2>1, Prefix, Zenon
<1>5. Made(len) \in PacketType(Nat)
  BY MadeType
<1> HIDE DEF some
<1>6. /\ packets \in Seq(PacketType(Nat)) /\ Len(packets) = 1 + n
      /\ packets[1] = Made(len)
      /\ \A i \in 2 .. Len(packets) : packets[i] = some[i - 1] /\ i - 1 \in 1 .. n
  BY <1>3, <1>4, <1>5
<1> HIDE DEF packets
<1>7. ASSUME NEW i \in 2 .. Len(packets)
      PROVE  /\ packets[i].packet_mask \subseteq 0 .. k - 1
             /\ packets[i].packet_mask = MaskRows(f.fec_mask_type, k, r)[i - 2]
             /\ packets[i].group_number = f.group_number % 256
             /\ packets[i].sequence_number = k + i - 2
             /\ packets[i].data = XorOfMasked(Filled(len), packets[i].packet_mask)
  <2> DEFINE m == i - 1
  <2>1. packets[i] = fecs[m] /\ m \in 1 .. r
    BY <1>3, <1>4, <1>6
  <2>2. k + m - 1 = k + i - 2 /\ m - 1 = i - 2
    BY <1>3
  <2> HIDE DEF m
  <2> QED
    BY <1>1, <1>2, <2>1, <2>2 DEF Protected
<1>8. Len(packets) \in 1 .. r + 1
  BY <1>3, <1>6
<1> QED
  BY <1>6, <1>7, <1>8 DEF Completes, packets, some, fecs, g

\* What Emit adds to the wire and to the pieces given.
LEMMA EmitStep ==
  ASSUME TypeInv, NEW len \in Nat, NEW g \in FecType(Nat), NEW packets \in Seq(PacketType(Nat)),
         g.buffer_packets = << >>, g.fec_first_use = FALSE, g.packet_size = Size(len),
         g.fec_mask_type = f.fec_mask_type,
         g.fec_last_use = (f.fec_last_use \/ len < Size(len)),
         Ulpfec => ~f.fec_last_use,
         failures' \in failures .. MaxFailures, Emit(len, g, packets, Bytes(len))
  PROVE  /\ Calls(len, packets) /\ f' = g
         /\ phase' = IF g.group_number = f.group_number THEN "send" ELSE "lose"
<1>1. Min({len, g.packet_size}) = IF len < Size(len) THEN len ELSE Size(len)
  <2>1. Size(len) \in Nat /\ {len, Size(len)} \subseteq Nat /\ {len, Size(len)} # {}
    BY MadeType
  <2>2. Min({len, Size(len)}) \in {len, Size(len)}
        /\ \A y \in {len, Size(len)} : Min({len, Size(len)}) <= y
    BY <2>1, MinOf
  <2> QED
    BY <2>1, <2>2
<1>2. f' = g /\ phase' = IF g.group_number = f.group_number THEN "send" ELSE "lose"
  BY DEF Emit
<1>3. stored' = [j \in DOMAIN stored \union {f.sequence_number} |->
                  IF j = f.sequence_number THEN New(len) ELSE stored[j]]
  BY <1>1 DEF Emit, New, Noting
<1>4. given' = [j \in DOMAIN given \union {f.sequence_number} |->
                 IF j = f.sequence_number THEN len ELSE given[j]]
  BY DEF Emit, Noting
<1> QED
  BY <1>2, <1>3, <1>4 DEF Emit, Calls, OnWire

\* A group that a call completes was open.
LEMMA CompletesOpen ==
  ASSUME Len(f.media_packets) + 1 = k, TypeInv, Ulpfec => ~f.fec_last_use PROVE Open
<1>1. Len(f.media_packets) \in Nat
  BY DEF TypeInv, TypeOK, FecType
<1> QED
  BY <1>1 DEF Open, Ulpfec

\* The fields of the encoder after EncodeFec.
LEMMA AfterEncode ==
  ASSUME TypeInv, GroupInv, Open, NEW len \in Nat, NEW buffer \in Seq(PacketType(Nat)),
         Len(f.media_packets) + 1 = k
  PROVE  LET e == EncodeFec(Grown(len, buffer), r)
         IN  /\ e \in FecType(Nat)
             /\ e.fec_first_use = FALSE /\ e.packet_size = Size(len)
             /\ e.fec_last_use = (f.fec_last_use \/ len < Size(len))
             /\ e.sequence_number = k + r
             /\ e.group_number = f.group_number
             /\ e.media_packets = Filled(len)
             /\ e.buffer_packets = buffer /\ e.fec_mask_type = f.fec_mask_type
             /\ e.fec_packets \in Seq(PacketType(Nat)) /\ Len(e.fec_packets) = r
             /\ SubSeq(e.fec_packets, 1, r) = e.fec_packets
<1> DEFINE g == Grown(len, buffer)
           e == EncodeFec(g, r)
           fecs == e.fec_packets
<1>1. /\ e \in FecType(Nat) /\ e = [g EXCEPT !.fec_packets = fecs, !.sequence_number = k + r]
      /\ fecs \in Seq(PacketType(Nat)) /\ Len(fecs) = r
  BY EncodedFields DEF Protected
<1>2. /\ g \in FecType(Nat) /\ g.fec_first_use = FALSE /\ g.packet_size = Size(len)
      /\ g.fec_last_use = (f.fec_last_use \/ len < Size(len))
      /\ g.group_number = f.group_number /\ g.media_packets = Filled(len)
      /\ g.buffer_packets = buffer /\ g.fec_mask_type = f.fec_mask_type
  BY GrownFields
<1> HIDE DEF g, e
<1>3. /\ e.fec_first_use = g.fec_first_use /\ e.packet_size = g.packet_size
      /\ e.fec_last_use = g.fec_last_use /\ e.sequence_number = k + r
      /\ e.group_number = g.group_number /\ e.media_packets = g.media_packets
      /\ e.buffer_packets = g.buffer_packets /\ e.fec_mask_type = g.fec_mask_type
  BY <1>1, <1>2 DEF FecType
<1>4. SubSeq(fecs, 1, r) = fecs
  BY <1>1, SubSeqFull
<1> QED
  BY <1>1, <1>2, <1>3, <1>4 DEF e, g

\* A call of PacketByFEC or of its older copy.
LEMMA PacketizeStep ==
  ASSUME TypeInv, GroupInv, NEW len \in Nat, Packetize(len)
  PROVE  \E packets : /\ Calls(len, packets)
                      /\ \/ Adds(len, packets)
                         \/ Completes(len, packets) /\ Finishes(len, packets)
<1> DEFINE one == <<Made(len)>>
           G == Grown(len, one)
           e == EncodeFec(G, r)
           g == CASE api = "PacketByFEC"    -> PacketByFEC(f, calls, len, k, r)
                  [] api = "OldPacketByFEC" -> OldPacketByFEC(f, calls, len, k, r)
           h == [g EXCEPT !.buffer_packets = << >>]
<1>0. /\ f \in FecType(Nat) /\ f.buffer_packets = << >>
      /\ api \in {"PacketByFEC", "OldPacketByFEC"} /\ ~Ulpfec
      /\ failures' = failures /\ failures \in 0 .. MaxFailures
  BY ApisAssumption DEF TypeInv, TypeOK, Packetize, Ulpfec
<1>1. Emit(len, h, g.buffer_packets, Bytes(len)) /\ failures' \in failures .. MaxFailures
  <2>1. Emit(len, h, g.buffer_packets, Bytes(len))
    BY <1>0 DEF Packetize, Bytes, Ulpfec
  <2> QED
    BY <1>0, <2>1, BoundAssumption
<1>2. one \in Seq(PacketType(Nat)) /\ Append(f.buffer_packets, Made(len)) = one
  BY <1>0, MadeType
<1>3. /\ G \in FecType(Nat)
      /\ G.fec_first_use = FALSE /\ G.packet_size = Size(len)
      /\ G.fec_last_use = (f.fec_last_use \/ len < Size(len))
      /\ G.sequence_number = f.sequence_number + 1
      /\ G.group_number = f.group_number
      /\ G.media_packets = Filled(len) /\ Len(Filled(len)) = Len(f.media_packets) + 1
      /\ G.buffer_packets = one /\ G.fec_packets = f.fec_packets
      /\ G.fec_mask_type = f.fec_mask_type
  BY <1>2, GrownFields
<1>4. /\ PacketByFEC(f, calls, len, k, r) =
           IF Len(f.media_packets) + 1 = k THEN FinishGroup(G, r) ELSE G
      /\ OldPacketByFEC(f, calls, len, k, r) =
           IF Len(f.media_packets) + 1 = k
           THEN [e EXCEPT !.buffer_packets  = @ \o e.fec_packets,
                          !.group_number    = @ + 1,
                          !.sequence_number = 0]
           ELSE G
  <2> DEFINE X == [f EXCEPT !.fec_first_use   = FALSE,
                            !.fec_last_use    = @ \/ len < Size(len),
                            !.packet_size     = Size(len),
                            !.sequence_number = @ + 1,
                            !.media_packets   = Append(@, Made(len)),
                            !.buffer_packets  = Append(@, Made(len))]
  <2>1. X = G
    BY <1>2 DEF Grown, Filled
  <2>2. GroupComplete(G, k) <=> Len(f.media_packets) + 1 = k
    BY <1>3 DEF GroupComplete
  <2>3. PacketByFEC(f, calls, len, k, r) = IF GroupComplete(X, k) THEN FinishGroup(X, r) ELSE X
    BY DEF PacketByFEC, Size, Made
  <2>4. OldPacketByFEC(f, calls, len, k, r) =
          IF GroupComplete(X, k)
          THEN [EncodeFec(X, r) EXCEPT !.buffer_packets  = @ \o EncodeFec(X, r).fec_packets,
                                       !.group_number    = @ + 1,
                                       !.sequence_number = 0]
          ELSE X
    BY DEF OldPacketByFEC, Size, Made
  <2> HIDE DEF X, G
  <2> QED
    BY <2>1, <2>2, <2>3, <2>4
<1> HIDE DEF one, G
<1>5. CASE Len(f.media_packets) + 1 # k
  <2>1. g = G
    BY <1>0, <1>4, <1>5
  <2> HIDE DEF g
  <2>2. /\ h \in FecType(Nat) /\ h.buffer_packets = << >>
        /\ h.fec_first_use = G.fec_first_use /\ h.packet_size = G.packet_size
        /\ h.fec_last_use = G.fec_last_use /\ h.sequence_number = G.sequence_number
        /\ h.group_number = G.group_number /\ h.media_packets = G.media_packets
        /\ h.fec_packets = G.fec_packets /\ h.fec_mask_type = G.fec_mask_type
    <3> DEFINE none == << >>
    <3>1. none \in Seq(PacketType(Nat)) /\ h = [G EXCEPT !.buffer_packets = none]
      BY <2>1
    <3>2. G \in FecType(Nat)
      BY <1>3
    <3> HIDE DEF none, h
    <3>3. h.buffer_packets = << >>
      BY <3>1, <3>2 DEF FecType, none
    <3> QED
      BY <3>1, <3>2, <3>3 DEF FecType
  <2>3. g.buffer_packets = one
    BY <1>3, <2>1
  <2> HIDE DEF h
  <2>4. Calls(len, one) /\ f' = h /\ phase' = "send"
    BY <1>0, <1>1, <1>2, <1>3, <2>2, <2>3, EmitStep
  <2>5. Adds(len, one)
    BY <1>3, <1>5, <2>2, <2>4 DEF Adds, one
  <2> QED
    BY <2>4, <2>5
<1>6. CASE Len(f.media_packets) + 1 = k
  <2>1. Open
    BY <1>0, <1>6, CompletesOpen
  <2> DEFINE fecs == e.fec_packets
             packets == one \o fecs
  <2>2. /\ e \in FecType(Nat)
        /\ e.fec_first_use = FALSE /\ e.packet_size = Size(len)
        /\ e.fec_last_use = (f.fec_last_use \/ len < Size(len))
        /\ e.group_number = f.group_number /\ e.media_packets = Filled(len)
        /\ e.buffer_packets = one /\ e.fec_mask_type = f.fec_mask_type
        /\ fecs \in Seq(PacketType(Nat)) /\ SubSeq(fecs, 1, r) = fecs /\ Len(fecs) = r
    BY <1>2, <1>6, <2>1, AfterEncode DEF G
  <2>3. packets \in Seq(PacketType(Nat)) /\ Completes(len, packets)
    <3>1. r \in 0 .. r
      BY ShapeOk
    <3> QED
      BY <1>2, <1>6, <2>1, <2>2, <3>1, GroupPackets DEF one, G
  <2>4. /\ e.group_number + 1 \in Nat /\ 0 \in Nat /\ << >> \in Seq(PacketType(Nat))
        /\ e.group_number \in Nat
    BY <2>2 DEF FecType
  <2> DEFINE media == IF api = "OldPacketByFEC" THEN e.media_packets ELSE << >>
             left  == IF api = "OldPacketByFEC" THEN fecs ELSE << >>
             group == e.group_number + 1
  <2>5. media \in Seq(PacketType(Nat)) /\ left \in Seq(PacketType(Nat))
    BY <2>2, <2>4 DEF FecType
  <2>6. g = [e EXCEPT !.buffer_packets = packets, !.group_number = group, !.sequence_number = 0,
                      !.media_packets = media, !.fec_packets = left]
    <3>1. CASE api = "PacketByFEC"
      <4>1. g = FinishGroup(G, r)
        BY <1>4, <1>6, <3>1
      <4> QED
        BY <2>2, <3>1, <4>1 DEF FinishGroup
    <3>2. CASE api = "OldPacketByFEC"
      <4>1. g = [e EXCEPT !.buffer_packets  = @ \o e.fec_packets, !.group_number = @ + 1,
                          !.sequence_number = 0]
        BY <1>4, <1>6, <3>2
      <4> QED
        BY <2>2, <3>2, <4>1 DEF FecType
    <3> QED
      BY <1>0, <3>1, <3>2
  <2>10. Len(packets) = r + 1
    <3>1. one \in Seq(PacketType(Nat)) /\ Len(one) = 1
      BY <1>2 DEF one
    <3>2. fecs \in Seq(PacketType(Nat)) /\ Len(fecs) = r
      BY <2>2
    <3> HIDE DEF fecs
    <3>3. Len(packets) = Len(one) + Len(fecs)
      BY <3>1, <3>2, ConcatProperties, Zenon
    <3> QED
      BY <3>1, <3>2, <3>3, ShapeOk
  <2> HIDE DEF g, e, packets, media, left, group
  <2>7. /\ h \in FecType(Nat) /\ h.buffer_packets = << >> /\ g.buffer_packets = packets
        /\ h.fec_first_use = e.fec_first_use /\ h.packet_size = e.packet_size
        /\ h.fec_last_use = e.fec_last_use /\ h.sequence_number = 0
        /\ h.group_number = group /\ h.media_packets = media /\ h.fec_packets = left
        /\ h.fec_mask_type = e.fec_mask_type
    <3>1. group \in Nat
      BY <2>4 DEF group
    <3>2. g \in FecType(Nat) /\ g.buffer_packets = packets
      BY <2>2, <2>3, <2>4, <2>5, <2>6, <3>1 DEF FecType
    <3> QED
      BY <2>2, <2>4, <2>6, <3>1, <3>2 DEF FecType
  <2> HIDE DEF h
  <2>8. Calls(len, packets) /\ f' = h /\ phase' = IF group = f.group_number THEN "send" ELSE "lose"
    BY <1>0, <1>1, <2>2, <2>3, <2>7, EmitStep
  <2>9. Finishes(len, packets)
    <3>1. group = f.group_number + 1 /\ group # f.group_number
      BY <2>2, <2>4 DEF group
    <3> QED
      BY <2>2, <2>7, <2>8, <2>10, <3>1 DEF Finishes, media, left
  <2> QED
    BY <2>3, <2>8, <2>9
<1> QED
  BY <1>5, <1>6

\* A call of SendByUlpfec.
LEMMA UlpfecStep ==
  ASSUME TypeInv, GroupInv, NEW len \in Nat, NEW sent \in 0 .. Sendtos, SendUlpfec(len, sent)
  PROVE  \E packets : /\ Calls(len, packets)
                      /\ \/ Adds(len, packets)
                         \/ Completes(len, packets) /\ (Finishes(len, packets) \/ Aborts(len))
<1> DEFINE none == << >>
           one == <<Made(len)>>
           G == Grown(len, none)
           e == EncodeFec(G, r)
           done == [e EXCEPT !.media_packets   = << >>,
                             !.fec_packets     = << >>,
                             !.group_number    = @ + 1,
                             !.sequence_number = 0]
           AtEnd(h) == IF h.fec_last_use THEN [h EXCEPT !.media_packets = << >>] ELSE h
           c == SendByUlpfec(f, calls, len, k, r, sent)
<1>0. /\ f \in FecType(Nat) /\ f.buffer_packets = none
      /\ Ulpfec /\ ~f.fec_last_use
      /\ failures \in 0 .. MaxFailures /\ MaxFailures \in Nat
      /\ Len(f.media_packets) \in Nat
  BY BoundAssumption DEF TypeInv, TypeOK, SendUlpfec, Ulpfec, FecType
<1>1. /\ Emit(len, c.fec, c.packets, UlpfecBytes(c.fec, len))
      /\ failures' \in failures .. MaxFailures
      /\ sent < Sendtos => failures' > 0
  BY <1>0 DEF SendUlpfec
<1>2. none \in Seq(PacketType(Nat)) /\ one \in Seq(PacketType(Nat))
  BY MadeType
<1>3. /\ G \in FecType(Nat)
      /\ G.fec_first_use = FALSE /\ G.packet_size = Size(len)
      /\ G.fec_last_use = (f.fec_last_use \/ len < Size(len))
      /\ G.sequence_number = f.sequence_number + 1
      /\ G.group_number = f.group_number
      /\ G.media_packets = Filled(len) /\ Len(Filled(len)) = Len(f.media_packets) + 1
      /\ G.buffer_packets = none /\ G.fec_packets = f.fec_packets
      /\ G.fec_mask_type = f.fec_mask_type
  BY <1>2, GrownFields
<1>4. c = IF sent = 0
          THEN [fec |-> G, packets |-> << >>]
          ELSE IF Len(f.media_packets) + 1 # k
          THEN [fec |-> AtEnd(G), packets |-> one]
          ELSE IF sent <= Len(e.fec_packets)
          THEN [fec |-> e, packets |-> one \o SubSeq(e.fec_packets, 1, sent - 1)]
          ELSE [fec |-> AtEnd(done), packets |-> one \o e.fec_packets]
  <2> DEFINE X == [f EXCEPT !.fec_first_use   = FALSE,
                            !.fec_last_use    = @ \/ len < Size(len),
                            !.packet_size     = Size(len),
                            !.sequence_number = @ + 1,
                            !.media_packets   = Append(@, Made(len))]
  <2>1. X = G
    BY <1>0 DEF Grown, Filled, FecType
  <2>2. GroupComplete(G, k) <=> Len(f.media_packets) + 1 = k
    BY <1>3 DEF GroupComplete
  <2>3. c = LET E == EncodeFec(X, r)
                D == [E EXCEPT !.media_packets   = << >>,
                               !.fec_packets     = << >>,
                               !.group_number    = @ + 1,
                               !.sequence_number = 0]
            IN  IF sent = 0
                THEN [fec |-> X, packets |-> << >>]
                ELSE IF ~GroupComplete(X, k)
                THEN [fec |-> AtEnd(X), packets |-> one]
                ELSE IF sent <= Len(E.fec_packets)
                THEN [fec |-> E, packets |-> one \o SubSeq(E.fec_packets, 1, sent - 1)]
                ELSE [fec |-> AtEnd(D), packets |-> one \o E.fec_packets]
    BY DEF SendByUlpfec, UlpfecAbort, Size, Made
  <2> HIDE DEF X, G, c
  <2> QED
    BY <2>1, <2>2, <2>3
<1> HIDE DEF one, none, G, c
<1>5. ASSUME NEW h \in FecType(Nat), NEW packets \in Seq(PacketType(Nat)),
             h.buffer_packets = none, h.fec_first_use = FALSE, h.packet_size = Size(len),
             h.fec_mask_type = f.fec_mask_type,
             h.fec_last_use = (f.fec_last_use \/ len < Size(len)),
             c.fec = h, c.packets = packets
      PROVE  /\ Calls(len, packets) /\ f' = h
             /\ phase' = IF h.group_number = f.group_number THEN "send" ELSE "lose"
  <2>1. Emit(len, h, packets, Bytes(len))
    BY <1>0, <1>1, <1>5 DEF UlpfecBytes, Bytes
  <2> QED
    BY <1>0, <1>1, <1>5, <2>1, EmitStep DEF none
<1>6. k \in 1 .. 16 /\ r \in 1 .. 16
  BY ShapeOk
<1>7. CASE sent = 0
  <2>1. c.fec = G /\ c.packets = none
    BY <1>4, <1>7 DEF none
  <2>2. failures' > 0
    BY <1>1, <1>6, <1>7 DEF Sendtos
  <2>3. Calls(len, none) /\ f' = G /\ phase' = "send"
    BY <1>2, <1>3, <1>5, <2>1
  <2>4. Adds(len, none)
    BY <1>0, <1>3, <2>2, <2>3 DEF Adds, none
  <2> QED
    BY <2>3, <2>4
<1>8. CASE sent # 0 /\ Len(f.media_packets) + 1 # k
  <2> DEFINE media == IF G.fec_last_use THEN none ELSE G.media_packets
             h == [G EXCEPT !.media_packets = media]
  <2>1. c.fec = h /\ c.packets = one
    <3>1. AtEnd(G) = h
      BY <1>3 DEF none, FecType
    <3> QED
      BY <1>4, <1>8, <3>1
  <2>2. media \in Seq(PacketType(Nat))
    BY <1>2, <1>3 DEF FecType
  <2> HIDE DEF media
  <2>3. /\ h \in FecType(Nat) /\ h.buffer_packets = none
        /\ h.fec_first_use = G.fec_first_use /\ h.packet_size = G.packet_size
        /\ h.fec_last_use = G.fec_last_use /\ h.sequence_number = G.sequence_number
        /\ h.group_number = G.group_number /\ h.media_packets = media
        /\ h.fec_packets = G.fec_packets /\ h.fec_mask_type = G.fec_mask_type
    BY <1>3, <2>2 DEF FecType
  <2> HIDE DEF h
  <2>4. Calls(len, one) /\ f' = h /\ phase' = "send"
    BY <1>2, <1>3, <1>5, <2>1, <2>3
  <2>5. Adds(len, one)
    BY <1>0, <1>3, <1>8, <2>3, <2>4 DEF Adds, one, none, media
  <2> QED
    BY <2>4, <2>5
<1>9. CASE sent # 0 /\ Len(f.media_packets) + 1 = k
  <2>1. Open /\ Sendtos = 1 + r
    BY <1>0, <1>6, <1>9, CompletesOpen DEF Sendtos
  <2> DEFINE fecs == e.fec_packets
  <2>2. /\ e \in FecType(Nat)
        /\ e.fec_first_use = FALSE /\ e.packet_size = Size(len)
        /\ e.fec_last_use = (f.fec_last_use \/ len < Size(len))
        /\ e.sequence_number = k + r
        /\ e.group_number = f.group_number /\ e.media_packets = Filled(len)
        /\ e.buffer_packets = none /\ e.fec_mask_type = f.fec_mask_type
        /\ fecs \in Seq(PacketType(Nat)) /\ SubSeq(fecs, 1, r) = fecs /\ Len(fecs) = r
    BY <1>2, <1>9, <2>1, AfterEncode DEF G
  <2>3. ASSUME NEW n \in 0 .. r
        PROVE  LET packets == one \o SubSeq(fecs, 1, n)
               IN  packets \in Seq(PacketType(Nat)) /\ Completes(len, packets)
    BY <1>2, <1>9, <2>1, <2>3, GroupPackets DEF one, G
  <2>4. CASE sent <= r
    <3> DEFINE n == sent - 1
               packets == one \o SubSeq(fecs, 1, n)
    <3>1. n \in 0 .. r
      BY <1>6, <1>9, <2>4
    <3>2. c.fec = e /\ c.packets = packets
      BY <1>4, <1>9, <2>2, <2>4
    <3> HIDE DEF n, e
    <3>3. packets \in Seq(PacketType(Nat)) /\ Completes(len, packets)
      BY <2>3, <3>1
    <3> HIDE DEF packets
    <3>4. Calls(len, packets) /\ f' = e /\ phase' = "send"
      BY <1>5, <2>2, <3>2, <3>3
    <3>5. failures' > 0
      BY <1>1, <1>6, <2>1, <2>4
    <3>6. Aborts(len)
      BY <1>0, <2>2, <3>4, <3>5 DEF Aborts
    <3> QED
      BY <3>3, <3>4, <3>6
  <2>5. CASE sent > r
    <3> DEFINE packets == one \o fecs
               group == e.group_number + 1
               zero == 0
               h == [e EXCEPT !.media_packets = none, !.fec_packets = none,
                              !.group_number = group, !.sequence_number = zero]
    <3>1. r \in 0 .. r
      BY <1>6
    <3>2. packets \in Seq(PacketType(Nat)) /\ Completes(len, packets)
      BY <2>2, <2>3, <3>1
    <3>3. c.fec = AtEnd(done) /\ c.packets = packets
      BY <1>4, <1>9, <2>2, <2>5
    <3>4. done = h
      BY DEF none
    <3>5. group \in Nat /\ zero \in Nat /\ group = f.group_number + 1 /\ group # f.group_number
      BY <2>2 DEF FecType
    <3>10. Len(packets) = r + 1
      <4>1. one \in Seq(PacketType(Nat)) /\ Len(one) = 1
        BY <1>2 DEF one
      <4>2. fecs \in Seq(PacketType(Nat)) /\ Len(fecs) = r
        BY <2>2
      <4> HIDE DEF fecs
      <4>3. Len(packets) = Len(one) + Len(fecs)
        BY <4>1, <4>2, ConcatProperties, Zenon
      <4> QED
        BY <1>6, <4>1, <4>2, <4>3
    <3> HIDE DEF e, group, zero, packets, done
    <3>6. /\ h \in FecType(Nat) /\ h.buffer_packets = none
          /\ h.fec_first_use = e.fec_first_use /\ h.packet_size = e.packet_size
          /\ h.fec_last_use = e.fec_last_use /\ h.sequence_number = zero
          /\ h.group_number = group /\ h.media_packets = none /\ h.fec_packets = none
          /\ h.fec_mask_type = e.fec_mask_type
      BY <1>2, <2>2, <3>5 DEF FecType
    <3> HIDE DEF h
    <3>7. AtEnd(done) = h
      <4>1. [h EXCEPT !.media_packets = none] = h
        BY <3>6 DEF FecType
      <4> QED
        BY <3>4, <4>1 DEF none
    <3>8. /\ Calls(len, packets) /\ f' = h
          /\ phase' = IF group = f.group_number THEN "send" ELSE "lose"
      <4>1. /\ h.fec_first_use = FALSE /\ h.packet_size = Size(len)
            /\ h.fec_last_use = (f.fec_last_use \/ len < Size(len))
            /\ c.fec = h /\ h.fec_mask_type = f.fec_mask_type
        BY <2>2, <3>3, <3>6, <3>7
      <4> QED
        BY <1>5, <3>2, <3>3, <3>6, <4>1
    <3>9. Finishes(len, packets)
      BY <1>0, <3>5, <3>6, <3>8, <3>10 DEF Finishes, zero, none, Ulpfec
    <3> QED
      BY <3>2, <3>8, <3>9
  <2>6. sent \in Int /\ r \in Int
    BY <1>6, <2>1
  <2> QED
    BY <2>4, <2>5, <2>6
<1> QED
  BY <1>7, <1>8, <1>9

\* A call of any entry point.
LEMMA CallStep ==
  ASSUME TypeInv, GroupInv, NEW len \in {FullLen, ShortLen},
         Packetize(len) \/ \E sent \in 0 .. Sendtos : SendUlpfec(len, sent)
  PROVE  \E packets : /\ Calls(len, packets)
                      /\ \/ Adds(len, packets)
                         \/ Completes(len, packets) /\ (Finishes(len, packets) \/ Aborts(len))
BY LenOk, PacketizeStep, UlpfecStep

-----------------------------------------------------------------------------
(* The steps *)

\* What a call adds to the wire.
LEMMA WireGrows ==
  ASSUME TypeInv, NEW len \in Nat, NEW packets, Calls(len, packets)
  PROVE  /\ wire' \in Seq(WirePacket) /\ Len(wire') = Len(wire) + Len(packets)
         /\ Len(packets) \in Nat /\ Len(wire) \in Nat
         /\ \A i \in 1 .. Len(wire) : wire'[i] = wire[i]
         /\ \A i \in 1 .. Len(packets) :
              wire'[Len(wire) + i] = [packet |-> packets[i], bytes |-> Bytes(len)]
         /\ \A p \in Arrived' : \/ p \in Arrived
                                 \/ \E i \in 1 .. Len(packets) :
                                      p = [packet |-> packets[i], bytes |-> Bytes(len)]
<1> DEFINE new == OnWire(packets, Bytes(len))
<1>1. wire \in Seq(WirePacket) /\ packets \in Seq(PacketType(Nat)) /\ wire' = wire \o new
  BY DEF TypeInv, Calls
<1>2. Bytes(len) \in Nat
  BY MadeType DEF Bytes
<1>3. /\ new \in Seq(WirePacket) /\ Len(new) = Len(packets) /\ Len(packets) \in Nat
      /\ \A i \in 1 .. Len(packets) : new[i] = [packet |-> packets[i], bytes |-> Bytes(len)]
  <2>1. \A i \in 1 .. Len(packets) :
          [packet |-> packets[i], bytes |-> Bytes(len)] \in WirePacket
    BY <1>1, <1>2 DEF WirePacket
  <2>2. new \in [1 .. Len(packets) -> WirePacket] /\ Len(packets) \in Nat
    BY <1>1, <2>1 DEF OnWire
  <2>3. new \in Seq(WirePacket) /\ Len(new) = Len(packets)
    BY <2>2, SeqDef
  <2> QED
    BY <2>2, <2>3 DEF OnWire
<1> HIDE DEF new
<1>4. /\ wire' \in Seq(WirePacket) /\ Len(wire') = Len(wire) + Len(packets)
      /\ Len(packets) \in Nat /\ Len(wire) \in Nat
      /\ \A i \in 1 .. Len(wire) : wire'[i] = wire[i]
      /\ \A i \in 1 .. Len(packets) : wire'[Len(wire) + i] = new[i]
  <2>1. /\ wire \o new \in Seq(WirePacket)
        /\ Len(wire \o new) = Len(wire) + Len(new)
        /\ \A i \in 1 .. Len(wire) + Len(new) :
             (wire \o new)[i] = IF i <= Len(wire) THEN wire[i] ELSE new[i - Len(wire)]
    <3>1. wire \in Seq(WirePacket) /\ new \in Seq(WirePacket)
      BY <1>1, <1>3
    <3> QED
      BY <3>1, ConcatProperties, Zenon
  <2>2. Len(wire) \in Nat /\ Len(packets) \in Nat
    BY <1>1
  <2>3. ASSUME NEW i \in 1 .. Len(wire) PROVE wire'[i] = wire[i]
    BY <1>1, <1>3, <2>1, <2>2
  <2>4. ASSUME NEW i \in 1 .. Len(packets) PROVE wire'[Len(wire) + i] = new[i]
    <3> DEFINE n == Len(wire) + i
    <3>1. n \in 1 .. Len(wire) + Len(new) /\ ~(n <= Len(wire)) /\ n - Len(wire) = i
      BY <1>3, <2>2
    <3> HIDE DEF n
    <3>2. wire'[n] = new[i]
      BY <1>1, <2>1, <3>1
    <3> QED
      BY <3>2 DEF n
  <2> QED
    BY <1>1, <1>3, <2>1, <2>2, <2>3, <2>4
<1>5. ASSUME NEW p \in Arrived'
      PROVE  \/ p \in Arrived
             \/ \E i \in 1 .. Len(packets) : p = [packet |-> packets[i], bytes |-> Bytes(len)]
  <2>1. PICK i \in 1 .. Len(wire') : p = wire'[i]
    BY <1>4 DEF Arrived
  <2>2. CASE i \in 1 .. Len(wire)
    BY <1>1, <1>4, <2>1, <2>2 DEF Arrived
  <2>3. CASE i \notin 1 .. Len(wire)
    <3> DEFINE n == i - Len(wire)
    <3>1. n \in 1 .. Len(packets) /\ i = Len(wire) + n
      BY <1>4, <2>3
    <3> HIDE DEF n
    <3> QED
      BY <1>3, <1>4, <2>1, <3>1
  <2> QED
    BY <2>2, <2>3
<1> QED
  BY <1>3, <1>4, <1>5

\* What a call adds holds only packets of that call.
LEMMA WireNews ==
  ASSUME TypeInv, NEW len \in Nat, NEW packets, Calls(len, packets)
  PROVE  \A p \in Arrived' : \/ p \in Arrived
                             \/ \E i \in 1 .. Len(packets) : p.packet = packets[i]
<1>1. \A p \in Arrived' : \/ p \in Arrived
                          \/ \E i \in 1 .. Len(packets) :
                               p = [packet |-> packets[i], bytes |-> Bytes(len)]
  BY WireGrows
<1>2. ASSUME NEW p \in Arrived', p \notin Arrived
      PROVE  \E i \in 1 .. Len(packets) : p.packet = packets[i]
  <2>1. PICK i \in 1 .. Len(packets) : p = [packet |-> packets[i], bytes |-> Bytes(len)]
    BY <1>1, <1>2, Zenon
  <2>2. p.packet = packets[i]
    BY <2>1
  <2> QED
    BY <2>2
<1> QED
  BY <1>2, Zenon

\* What the receiver computes from the packets in a set, and the bytes it has of them.
Known(S) ==
  {x \in UNION {Available(i).data : i \in S} :
     Cardinality({i \in S : x \in Available(i).data}) % 2 = 1}

KnownBytes(p, S) == Min({p.bytes} \union {Available(i).bytes : i \in S})

\* Packet j is rebuilt from FEC packet p.
Rebuilds(j, p) ==
  /\ phase = "repair" /\ j \in missing /\ p \in Arrived /\ Repairs(p, j)
  /\ LET others == p.packet.packet_mask \ {j}
         new    == [data  |-> XorPayloads(Known(others), p.packet.data),
                    bytes |-> KnownBytes(p, others)]
     IN  rebuilt' = [i \in DOMAIN rebuilt \union {j} |-> IF i = j THEN new ELSE rebuilt[i]]
  /\ missing' = missing \ {j}
  /\ UNCHANGED <<stream, f, phase, wire, given, stored, counts>>

\* The receiver rebuilds a missing packet from a FEC packet that misses no other.
LEMMA RecoverStep ==
  ASSUME TypeInv, Recover PROVE \E j, p : Rebuilds(j, p)
<1> DEFINE j == Min(Repairable)
           p == CHOOSE q \in Arrived : Repairs(q, j)
<1>1. Repairable \subseteq Nat /\ Repairable # {}
  <2>1. missing \subseteq Nat
    BY ShapeOk DEF TypeInv, TypeOK
  <2> QED
    BY <2>1 DEF Repairable, Recover
<1>2. j \in Repairable
  BY <1>1, MinOf
<1>3. j \in missing /\ p \in Arrived /\ Repairs(p, j)
  <2> HIDE DEF j
  <2> QED
    BY <1>2 DEF Repairable
<1>4. Rebuilds(j, p)
  BY <1>3 DEF Recover, Rebuilds, Known, KnownBytes
<1> QED
  BY <1>4

\* The run that is lost is within the group.
LEMMA LoseStep ==
  ASSUME TypeInv, NEW first \in 0 .. k - 1, NEW n \in 1 .. Min({r, k - first}), Lose(first, n)
  PROVE  /\ phase = "lose" /\ phase' = "repair"
         /\ missing' \subseteq 0 .. k - 1 /\ Unsent \subseteq missing'
         /\ \E S : IsRun(S) /\ missing' = Unsent \union S
         /\ UNCHANGED <<stream, f, wire, given, stored, rebuilt, counts>>
<1> DEFINE S == {r, k - first}
<1>1. k \in 1 .. 16 /\ r \in 1 .. 16
  BY ShapeOk
<1>2. S \subseteq Nat /\ S # {}
  BY <1>1
<1>3. Min(S) \in S /\ \A y \in S : Min(S) <= y
  BY <1>2, MinOf
<1>4. Min(S) \in Nat /\ Min(S) <= k - first /\ Min(S) <= r
  BY <1>2, <1>3
<1> HIDE DEF S
<1>5. n \in 1 .. Min(S)
  BY DEF S
<1>6. first .. first + n - 1 \subseteq 0 .. k - 1
  BY <1>1, <1>4, <1>5
<1>7. n \in 1 .. r /\ first + n <= k
  BY <1>1, <1>4, <1>5
<1>8. IsRun(first .. first + n - 1)
  BY <1>7 DEF IsRun
<1>9. missing' = Unsent \union (first .. first + n - 1)
  BY DEF Lose
<1> QED
  BY <1>6, <1>8, <1>9 DEF Lose, Unsent

\* The steps of the stream, as the lemmas above describe them.
LEMMA Steps ==
  ASSUME TypeInv, GroupInv, [Next]_vars
  PROVE  \/ \E len \in Nat : \E packets : /\ Calls(len, packets)
                                          /\ \/ Adds(len, packets)
                                             \/ /\ Completes(len, packets)
                                                /\ Finishes(len, packets) \/ Aborts(len)
         \/ GiveUp
         \/ /\ phase = "lose" /\ phase' = "repair"
            /\ missing' \subseteq 0 .. k - 1 /\ Unsent \subseteq missing'
            /\ \E S : IsRun(S) /\ missing' = Unsent \union S
            /\ UNCHANGED <<stream, f, wire, given, stored, rebuilt, counts>>
         \/ \E j, p : Rebuilds(j, p)
         \/ NextGroup
         \/ UNCHANGED vars
<1>1. ASSUME NEW len \in {FullLen, ShortLen},
             Packetize(len) \/ \E sent \in 0 .. Sendtos : SendUlpfec(len, sent)
      PROVE  \E n \in Nat : \E packets : /\ Calls(n, packets)
                                         /\ \/ Adds(n, packets)
                                            \/ /\ Completes(n, packets)
                                               /\ Finishes(n, packets) \/ Aborts(n)
  BY <1>1, CallStep, LenOk
<1>2. ASSUME NEW first \in 0 .. k - 1, NEW n \in 1 .. Min({r, k - first}), Lose(first, n)
      PROVE  /\ phase = "lose" /\ phase' = "repair"
             /\ missing' \subseteq 0 .. k - 1 /\ Unsent \subseteq missing'
             /\ \E S : IsRun(S) /\ missing' = Unsent \union S
             /\ UNCHANGED <<stream, f, wire, given, stored, rebuilt, counts>>
  BY <1>2, LoseStep
<1> QED
  BY <1>1, <1>2, RecoverStep DEF Next

\* What a call adds to the history.
LEMMA GivenGrows ==
  ASSUME TypeInv, NEW len \in Nat, NEW packets, Calls(len, packets)
  PROVE  /\ stored' \in [DOMAIN stored' -> [chunk : Nat, len : Nat]]
         /\ DOMAIN stored' = DOMAIN stored \union {f.sequence_number}
         /\ stored'[f.sequence_number] = New(len)
         /\ \A j \in DOMAIN stored : j # f.sequence_number => stored'[j] = stored[j]
         /\ DOMAIN stored' \subseteq Nat
<1>1. /\ stored \in [DOMAIN stored -> [chunk : Nat, len : Nat]] /\ DOMAIN stored \subseteq Nat
      /\ f.sequence_number \in Nat
  BY DEF TypeInv, TypeOK, FecType
<1>2. New(len) \in [chunk : Nat, len : Nat]
  BY MadeType
<1>3. stored' = [j \in DOMAIN stored \union {f.sequence_number} |->
                  IF j = f.sequence_number THEN New(len) ELSE stored[j]]
  BY DEF Calls
<1> QED
  BY <1>1, <1>2, <1>3

\* Steps that leave the encoder alone.
LEMMA EncoderIdle ==
  ASSUME UNCHANGED <<stream, f, counts>>
  PROVE  /\ k' = k /\ r' = r /\ api' = api /\ shape' = shape /\ f' = f
         /\ calls' = calls /\ failures' = failures
         /\ Open' = Open /\ Spoilt' = Spoilt
BY DEF stream, counts, Open, Spoilt, k, r

\* The types.
LEMMA TypeStep ==
  ASSUME TypeInv, GroupInv, [Next]_vars PROVE TypeInv'
<1>1. ASSUME NEW len \in Nat, NEW packets, Calls(len, packets),
             Adds(len, packets) \/ Finishes(len, packets) \/ Aborts(len)
      PROVE  TypeInv'
  <2>1. api' = api /\ shape' = shape /\ k' = k /\ missing' = missing /\ rebuilt' = rebuilt
    BY <1>1 DEF Calls, stream, k
  <2>2. phase' \in {"send", "lose"}
    BY <1>1 DEF Adds, Finishes, Aborts
  <2>3. api = "PacketByFEC" => f'.fec_packets = << >>
    <3>1. api = "PacketByFEC" => f.fec_packets = << >>
      BY DEF TypeInv, TypeOK
    <3> QED
      BY <1>1, <3>1 DEF Adds, Finishes, Aborts, Ulpfec
  <2>4. TypeOK'
    BY <1>1, <2>1, <2>2, <2>3 DEF TypeInv, TypeOK, Calls
  <2>5. wire' \in Seq(WirePacket)
    BY <1>1, WireGrows
  <2>6. calls' \in Nat /\ failures' \in 0 .. MaxFailures
    BY <1>1, BoundAssumption DEF TypeInv, Calls
  <2> QED
    BY <1>1, <2>4, <2>5, <2>6, GivenGrows DEF TypeInv
<1>2. ASSUME NEW j, NEW p, Rebuilds(j, p) PROVE TypeInv'
  <2>1. UNCHANGED <<stream, f, phase, wire, given, stored, counts>> /\ missing' \subseteq missing
    BY <1>2 DEF Rebuilds
  <2>2. DOMAIN rebuilt' = DOMAIN rebuilt \union {j} /\ j \in missing
    BY <1>2 DEF Rebuilds
  <2> QED
    BY <2>1, <2>2 DEF TypeInv, TypeOK, stream, counts, k
<1>3. ASSUME NextGroup PROVE TypeInv'
  <2>1. /\ UNCHANGED <<stream, f, counts>> /\ phase' = "send"
        /\ wire' = << >> /\ stored' = << >> /\ missing' = {} /\ rebuilt' = << >>
    BY <1>3 DEF NextGroup
  <2> QED
    BY <2>1 DEF TypeInv, TypeOK, stream, counts, k
<1>4. ASSUME GiveUp PROVE TypeInv'
  BY <1>4 DEF GiveUp, TypeInv, TypeOK, stream, counts, k
<1>5. ASSUME phase' = "repair", missing' \subseteq 0 .. k - 1,
             UNCHANGED <<stream, f, wire, given, stored, rebuilt, counts>>
      PROVE  TypeInv'
  BY <1>5 DEF TypeInv, TypeOK, stream, counts, k
<1>6. ASSUME UNCHANGED vars PROVE TypeInv'
  BY <1>6 DEF vars, TypeInv, TypeOK, stream, counts, k
<1> QED
  BY <1>1, <1>2, <1>3, <1>4, <1>5, <1>6, Steps

\* An open group stays counted right.
LEMMA GroupStep ==
  ASSUME TypeInv, GroupInv, [Next]_vars PROVE GroupInv'
<1>0. k \in 1 .. 16 /\ f \in FecType(Nat) /\ calls \in Nat /\ Len(f.media_packets) \in Nat
  BY ShapeOk DEF TypeInv, TypeOK, FecType
<1>1. ASSUME NEW len \in Nat, NEW packets, Calls(len, packets)
      PROVE  /\ api' = api /\ k' = k /\ calls' = calls + 1 /\ phase = "send"
             /\ Ulpfec => ~f.fec_last_use
             /\ ~Spoilt' => ~Spoilt
             /\ Len(Filled(len)) = Len(f.media_packets) + 1
             /\ Open' <=> Len(f'.media_packets) < k /\ ~(Ulpfec /\ f'.fec_last_use)
  <2>1. failures \in Nat /\ failures' \in failures .. MaxFailures /\ MaxFailures \in Nat
    BY <1>1, BoundAssumption DEF TypeInv, Calls
  <2>2. failures > 0 => failures' > 0
    BY <2>1
  <2>3. << >> \in Seq(PacketType(Nat))
    OBVIOUS
  <2>4. Len(Filled(len)) = Len(f.media_packets) + 1
    BY <2>3, GrownFields
  <2> QED
    BY <1>1, <2>2, <2>4 DEF Calls, stream, k, Spoilt, Open, Ulpfec
<1>2. ASSUME NEW len \in Nat, NEW packets, Calls(len, packets), Adds(len, packets)
      PROVE  GroupInv'
  <2>1. ASSUME Open'
        PROVE  /\ f'.sequence_number = Len(f'.media_packets)
               /\ f'.sequence_number <= calls'
               /\ f'.fec_packets = << >>
               /\ ~FecOut'
    <3>1. f'.media_packets = Filled(len) /\ Len(f.media_packets) + 1 < k
      BY <1>0, <1>1, <1>2, <2>1 DEF Adds
    <3>2. Open
      BY <1>0, <1>1, <1>2, <3>1 DEF Open, Ulpfec
    <3>3. /\ f.sequence_number = Len(f.media_packets) /\ f.sequence_number <= calls
          /\ f.fec_packets = << >> /\ ~FecOut
      BY <1>1, <1>2, <3>2 DEF GroupInv
    <3>4. ~FecOut'
      <4>1. \A i \in 1 .. Len(packets) : packets[i].packet_mask = {}
        <5>1. packets = <<Made(len)>> \/ packets = << >>
          BY <1>2 DEF Adds
        <5>2. Made(len).packet_mask = {}
          BY MadeType
        <5> QED
          BY <5>1, <5>2
      <4>2. \A p \in Arrived' : \/ p \in Arrived
                                \/ \E i \in 1 .. Len(packets) : p.packet = packets[i]
        BY <1>2, WireNews
      <4> QED
        BY <3>3, <4>1, <4>2 DEF FecOut, IsFec
    <3> QED
      BY <1>0, <1>1, <1>2, <3>1, <3>3, <3>4 DEF Adds
  <2>2. ASSUME api' # "OldPacketByFEC", ~Spoilt' PROVE Open'
    <3>1. Open /\ ~(Ulpfec /\ failures' > 0) /\ ~(Ulpfec /\ f'.fec_last_use)
      BY <1>1, <1>2, <2>2 DEF GroupInv, Spoilt, Ulpfec
    <3>2. Len(f.media_packets) + 1 # k /\ f'.media_packets = Filled(len)
      BY <1>2, <3>1 DEF Adds
    <3> QED
      BY <1>0, <1>1, <1>2, <3>1, <3>2 DEF Open
  <2>3. phase' = "send"
    BY <1>2 DEF Adds
  <2> QED
    BY <2>1, <2>2, <2>3 DEF GroupInv
<1>3. ASSUME NEW len \in Nat, NEW packets, Calls(len, packets), Completes(len, packets),
             Finishes(len, packets)
      PROVE  GroupInv'
  <2>1. CASE api = "OldPacketByFEC"
    <3>1. ~Open' /\ api' = "OldPacketByFEC"
      BY <1>0, <1>1, <1>3, <2>1 DEF Finishes, Completes
    <3> QED
      BY <3>1 DEF GroupInv
  <2>2. CASE api # "OldPacketByFEC"
    <3>1. /\ f'.media_packets = << >> /\ f'.fec_packets = << >> /\ f'.sequence_number = 0
          /\ phase' = "lose" /\ calls' \in Nat
      BY <1>0, <1>1, <1>3, <2>2 DEF Finishes
    <3>2. ~Spoilt' => Open'
      BY <1>0, <1>1, <1>3, <3>1 DEF Spoilt, Ulpfec
    <3> QED
      BY <3>1, <3>2 DEF GroupInv
  <2> QED
    BY <2>1, <2>2
<1>4. ASSUME NEW len \in Nat, NEW packets, Calls(len, packets), Completes(len, packets),
             Aborts(len)
      PROVE  GroupInv'
  <2>1. ~Open' /\ Spoilt'
    BY <1>0, <1>1, <1>4 DEF Aborts, Completes, Spoilt, Ulpfec
  <2> QED
    BY <2>1 DEF GroupInv
<1>5. ASSUME UNCHANGED <<stream, f, counts>>,
             Open => IF phase' = "send" THEN ~FecOut' ELSE f.media_packets = << >>
      PROVE  GroupInv'
  BY <1>5, EncoderIdle DEF GroupInv
<1>6. ASSUME GiveUp PROVE GroupInv'
  <2>1. phase = "send" /\ FecOut
    BY <1>6 DEF GiveUp, FecOut
  <2>2. ~Open
    BY <2>1 DEF GroupInv
  <2> QED
    BY <1>5, <1>6, <2>2 DEF GiveUp
<1>7. ASSUME phase \in {"lose", "repair"}, phase' = "repair", UNCHANGED <<stream, f, counts>>
      PROVE  GroupInv'
  BY <1>5, <1>7 DEF GroupInv
<1>8. ASSUME NextGroup PROVE GroupInv'
  <2>1. ~FecOut'
    BY <1>8 DEF NextGroup, FecOut, Arrived
  <2> QED
    BY <1>5, <1>8, <2>1 DEF NextGroup
<1>9. ASSUME UNCHANGED vars PROVE GroupInv'
  BY <1>9 DEF vars, GroupInv, Open, Spoilt, FecOut, Arrived, IsFec, stream, counts, k
<1>10. ASSUME NEW j, NEW p, Rebuilds(j, p)
       PROVE  phase \in {"lose", "repair"} /\ phase' = "repair" /\ UNCHANGED <<stream, f, counts>>
  BY <1>10 DEF Rebuilds
<1> QED
  BY <1>2, <1>3, <1>4, <1>6, <1>7, <1>8, <1>9, <1>10, Steps

\* What is sent of a group that nothing spoils.
LEMMA WireStep ==
  ASSUME TypeInv, GroupInv, WireInv, [Next]_vars PROVE WireInv'
<1>0. /\ k \in 1 .. 16 /\ f \in FecType(Nat) /\ Len(f.media_packets) \in Nat
      /\ wire \in Seq(WirePacket) /\ f.media_packets \in Seq(PacketType(Nat))
  BY ShapeOk DEF TypeInv, TypeOK, FecType
<1>1. ASSUME NEW len \in Nat, NEW packets, Calls(len, packets),
             api' # "OldPacketByFEC", ~Spoilt'
      PROVE  /\ phase = "send" /\ Open /\ api # "OldPacketByFEC"
             /\ ~(Ulpfec /\ failures' > 0) /\ ~(Ulpfec /\ f'.fec_last_use)
             /\ Len(wire) = Len(f.media_packets) /\ Len(wire) < k
             /\ f.sequence_number = Len(wire) /\ Made(len).sequence_number = Len(wire)
             /\ \A i \in 1 .. Len(wire) :
                  /\ wire[i].packet = f.media_packets[i]
                  /\ wire[i].packet.sequence_number = i - 1
                  /\ wire[i].packet.group_number = f.group_number % 256
  <2>1. phase = "send" /\ api # "OldPacketByFEC" /\ ~(Ulpfec /\ failures' > 0)
        /\ ~(Ulpfec /\ f'.fec_last_use)
    BY <1>1 DEF Calls, stream, Spoilt, Ulpfec
  <2>2. ~Spoilt
    <3>1. failures \in Nat /\ failures' \in failures .. MaxFailures /\ MaxFailures \in Nat
      BY <1>1, BoundAssumption DEF TypeInv, Calls
    <3>2. failures > 0 => failures' > 0
      BY <3>1
    <3> QED
      BY <1>1, <2>1, <3>2 DEF Calls, Spoilt, Ulpfec
  <2>3. Open /\ f.sequence_number = Len(f.media_packets) /\ Len(f.media_packets) < k
    BY <2>1, <2>2 DEF GroupInv, Open
  <2>4. /\ [i \in DOMAIN wire |-> wire[i].packet] = f.media_packets
        /\ \A i \in DOMAIN wire : /\ wire[i].packet.group_number = f.group_number % 256
                                  /\ wire[i].packet.sequence_number = i - 1
    BY <2>1, <2>2 DEF WireInv
  <2>5. DOMAIN wire = 1 .. Len(wire) /\ DOMAIN f.media_packets = 1 .. Len(f.media_packets)
        /\ Len(wire) \in Nat
    BY <1>0
  <2>6. /\ DOMAIN wire = DOMAIN f.media_packets
        /\ \A i \in DOMAIN wire : wire[i].packet = f.media_packets[i]
    BY <2>4
  <2>7. Len(wire) = Len(f.media_packets)
    BY <1>0, <2>5, <2>6
  <2>8. Made(len).sequence_number = Len(wire)
    <3>1. Made(len).sequence_number = f.sequence_number % 256
      BY MadeType
    <3>2. k \in 1 .. 16 /\ Len(wire) \in Nat /\ Len(wire) < k
      BY <1>0, <2>3, <2>5, <2>7
    <3>3. \A n \in Nat, m \in 1 .. 16 : n < m => n % 256 = n
      OBVIOUS
    <3>4. Len(wire) % 256 = Len(wire)
      BY <3>2, <3>3, Zenon
    <3> QED
      BY <2>3, <2>7, <3>1, <3>4
  <2> QED
    BY <2>1, <2>3, <2>4, <2>5, <2>6, <2>7, <2>8
<1>2. ASSUME NEW len \in Nat, NEW packets, Calls(len, packets), Adds(len, packets),
             api' # "OldPacketByFEC", ~Spoilt'
      PROVE  /\ [i \in DOMAIN wire' |-> wire'[i].packet] = f'.media_packets
             /\ \A i \in DOMAIN wire' : /\ wire'[i].packet.group_number = f'.group_number % 256
                                        /\ wire'[i].packet.sequence_number = i - 1
  <2> DEFINE n == Len(wire)
  <2>1. packets = <<Made(len)>> /\ f'.media_packets = Filled(len) /\ f'.group_number = f.group_number
    BY <1>1, <1>2 DEF Adds
  <2>2. /\ wire' \in Seq(WirePacket) /\ Len(wire') = n + 1 /\ n \in Nat
        /\ \A i \in 1 .. n : wire'[i] = wire[i]
        /\ wire'[n + 1].packet = Made(len)
    <3>1. Len(packets) = 1 /\ packets[1] = Made(len)
      BY <2>1
    <3>2. 1 \in 1 .. Len(packets)
      BY <3>1
    <3>3. /\ wire' \in Seq(WirePacket) /\ Len(wire') = Len(wire) + Len(packets)
          /\ Len(wire) \in Nat
          /\ \A i \in 1 .. Len(wire) : wire'[i] = wire[i]
          /\ \A i \in 1 .. Len(packets) :
               wire'[Len(wire) + i] = [packet |-> packets[i], bytes |-> Bytes(len)]
      BY <1>2, WireGrows
    <3> QED
      BY <3>1, <3>2, <3>3
  <2>3. /\ n = Len(f.media_packets) /\ Made(len).sequence_number = n
        /\ \A i \in 1 .. n : /\ wire[i].packet = f.media_packets[i]
                             /\ wire[i].packet.sequence_number = i - 1
                             /\ wire[i].packet.group_number = f.group_number % 256
    BY <1>1, <1>2
  <2>4. Made(len) \in PacketType(Nat) /\ Made(len).group_number = f.group_number % 256
    BY MadeType
  <2>5. DOMAIN wire' = 1 .. n + 1
    BY <2>2
  <2>6. /\ Filled(len) \in Seq(PacketType(Nat)) /\ Len(Filled(len)) = n + 1
        /\ \A i \in 1 .. n : Filled(len)[i] = f.media_packets[i]
        /\ Filled(len)[n + 1] = Made(len)
    BY <1>0, <2>3, <2>4, AppendProperties DEF Filled
  <2> HIDE DEF n
  <2>7. ASSUME NEW i \in 1 .. n + 1
        PROVE  /\ wire'[i].packet = Filled(len)[i]
               /\ wire'[i].packet.group_number = f.group_number % 256
               /\ wire'[i].packet.sequence_number = i - 1
    <3>1. CASE i \in 1 .. n
      BY <2>2, <2>3, <2>6, <3>1
    <3>2. CASE i = n + 1
      BY <2>2, <2>3, <2>4, <2>6, <3>2
    <3> QED
      BY <2>2, <3>1, <3>2
  <2>8. DOMAIN Filled(len) = 1 .. n + 1 /\ Filled(len) = [i \in 1 .. n + 1 |-> Filled(len)[i]]
    BY <2>2, <2>6
  <2>9. [i \in DOMAIN wire' |-> wire'[i].packet] = Filled(len)
    BY <2>5, <2>7, <2>8
  <2> QED
    BY <2>1, <2>5, <2>7, <2>9
<1>3. ASSUME NEW len \in Nat, NEW packets, Calls(len, packets), Completes(len, packets),
             api' # "OldPacketByFEC", ~Spoilt'
      PROVE  \A i \in DOMAIN wire' : /\ wire'[i].packet.group_number = f.group_number % 256
                                     /\ wire'[i].packet.sequence_number = i - 1
  <2> DEFINE n == Len(wire)
             m == Len(packets)
  <2>1. /\ n + 1 = k /\ Made(len).sequence_number = n
        /\ \A i \in 1 .. n : /\ wire[i].packet.sequence_number = i - 1
                             /\ wire[i].packet.group_number = f.group_number % 256
    BY <1>1, <1>3 DEF Completes
  <2>2. Made(len).group_number = f.group_number % 256
    BY MadeType
  <2>3. /\ wire' \in Seq(WirePacket) /\ Len(wire') = n + m /\ n \in Nat /\ m \in Nat
        /\ \A i \in 1 .. n : wire'[i] = wire[i]
        /\ \A i \in 1 .. m : wire'[n + i].packet = packets[i]
    <3>1. /\ wire' \in Seq(WirePacket) /\ Len(wire') = Len(wire) + Len(packets)
          /\ Len(wire) \in Nat /\ Len(packets) \in Nat
          /\ \A i \in 1 .. Len(wire) : wire'[i] = wire[i]
          /\ \A i \in 1 .. Len(packets) :
               wire'[Len(wire) + i] = [packet |-> packets[i], bytes |-> Bytes(len)]
      BY <1>3, WireGrows
    <3>2. ASSUME NEW i \in 1 .. m PROVE wire'[n + i].packet = packets[i]
      <4>1. wire'[n + i] = [packet |-> packets[i], bytes |-> Bytes(len)]
        BY <3>1
      <4>2. [packet |-> packets[i], bytes |-> Bytes(len)].packet = packets[i]
        OBVIOUS
      <4> HIDE DEF n
      <4> QED
        BY <4>1, <4>2
    <3> QED
      BY <3>1, <3>2
  <2>4. \A i \in 1 .. m : /\ packets[i].group_number = f.group_number % 256
                          /\ packets[i].sequence_number = n + i - 1
    <3> TAKE i \in 1 .. m
    <3>1. CASE i = 1
      BY <1>3, <2>1, <2>2, <2>3, <3>1 DEF Completes
    <3>2. CASE i # 1
      <4>1. i \in 2 .. m
        BY <2>3, <3>2
      <4>2. packets[i].group_number = f.group_number % 256 /\ packets[i].sequence_number = k + i - 2
        BY <1>3, <4>1 DEF Completes
      <4>3. k + i - 2 = n + i - 1
        BY <1>0, <2>1, <2>3
      <4> QED
        BY <4>2, <4>3
    <3> QED
      BY <3>1, <3>2
  <2> HIDE DEF n, m
  <2>5. ASSUME NEW i \in 1 .. n + m
        PROVE  /\ wire'[i].packet.group_number = f.group_number % 256
               /\ wire'[i].packet.sequence_number = i - 1
    <3>1. CASE i \in 1 .. n
      BY <2>1, <2>3, <3>1
    <3>2. CASE i \notin 1 .. n
      <4> DEFINE d == i - n
      <4>1. d \in 1 .. m /\ i = n + d
        BY <2>3, <3>2
      <4> HIDE DEF d
      <4>2. wire'[i].packet = packets[d]
        BY <2>3, <4>1
      <4> QED
        BY <2>3, <2>4, <4>1, <4>2
    <3> QED
      BY <3>1, <3>2
  <2> QED
    BY <2>3, <2>5
<1>4. ASSUME NEW len \in Nat, NEW packets, Calls(len, packets), Adds(len, packets)
      PROVE  WireInv'
  <2> SUFFICES ASSUME api' # "OldPacketByFEC", ~Spoilt'
      PROVE /\ [i \in DOMAIN wire' |-> wire'[i].packet] = f'.media_packets
            /\ \A i \in DOMAIN wire' : wire'[i].packet.group_number = f'.group_number % 256
            /\ \A i \in DOMAIN wire' :
                 /\ wire'[i].packet.sequence_number = i - 1
                 /\ i > 1 => wire'[i].packet.group_number = wire'[1].packet.group_number
    BY DEF WireInv
  <2>1. DOMAIN wire' = 1 .. Len(wire') /\ Len(wire') \in Nat
    <3>1. wire' \in Seq(WirePacket)
      BY <1>4, WireGrows
    <3> QED
      BY <3>1
  <2>2. \A i \in DOMAIN wire' : i > 1 => 1 \in DOMAIN wire'
    BY <2>1
  <2> QED
    BY <1>2, <1>4, <2>2
<1>5. ASSUME NEW len \in Nat, NEW packets, Calls(len, packets), Completes(len, packets),
             Finishes(len, packets) \/ Aborts(len)
      PROVE  WireInv'
  <2> SUFFICES ASSUME api' # "OldPacketByFEC", ~Spoilt'
      PROVE /\ phase' # "send"
            /\ \A i \in DOMAIN wire' :
                 /\ wire'[i].packet.sequence_number = i - 1
                 /\ i > 1 => wire'[i].packet.group_number = wire'[1].packet.group_number
    BY DEF WireInv
  <2>1. DOMAIN wire' = 1 .. Len(wire') /\ Len(wire') \in Nat
    <3>1. wire' \in Seq(WirePacket)
      BY <1>5, WireGrows
    <3> QED
      BY <3>1
  <2>2. \A i \in DOMAIN wire' : i > 1 => 1 \in DOMAIN wire'
    BY <2>1
  <2>3. phase' # "send"
    BY <1>1, <1>5 DEF Finishes, Aborts
  <2> QED
    BY <1>3, <1>5, <2>2, <2>3
<1>6. ASSUME UNCHANGED <<stream, f, counts>>, wire' = wire, phase' # "send" PROVE WireInv'
  BY <1>6, EncoderIdle DEF WireInv
<1>7. ASSUME NextGroup PROVE WireInv'
  <2>1. UNCHANGED <<stream, f, counts>> /\ wire' = << >> /\ phase = "repair"
    BY <1>7 DEF NextGroup
  <2>2. api # "OldPacketByFEC" /\ ~Spoilt => f.media_packets = << >>
    BY <2>1 DEF GroupInv
  <2>3. DOMAIN wire' = {} /\ [i \in DOMAIN wire' |-> wire'[i].packet] = << >>
    BY <2>1
  <2> QED
    BY <2>1, <2>2, <2>3, EncoderIdle DEF WireInv
<1>8. ASSUME UNCHANGED vars PROVE WireInv'
  BY <1>8, EncoderIdle DEF vars, WireInv
<1>9. ASSUME GiveUp \/ \E j, p : Rebuilds(j, p)
      PROVE  UNCHANGED <<stream, f, counts>> /\ wire' = wire /\ phase' # "send"
  BY <1>9 DEF GiveUp, Rebuilds
<1>10. ASSUME phase' = "repair", UNCHANGED <<stream, f, wire, given, stored, rebuilt, counts>>
       PROVE  WireInv'
  BY <1>6, <1>10
<1> QED
  BY <1>4, <1>5, <1>6, <1>7, <1>8, <1>9, <1>10, Steps

\* A call in a group gives a new piece for a number that has none yet.
LEMMA GivesOnce ==
  ASSUME TypeInv, GivenInv, NEW len \in Nat, NEW packets, Calls(len, packets)
  PROVE  /\ f.sequence_number \notin DOMAIN stored
         /\ \A j \in DOMAIN stored : j \in DOMAIN stored' /\ stored'[j] = stored[j]
         /\ \A j \in DOMAIN stored' : stored'[j].chunk < calls'
         /\ \A i, j \in DOMAIN stored' : stored'[i].chunk = stored'[j].chunk => i = j
<1>1. f.sequence_number \in Nat /\ calls \in Nat /\ DOMAIN stored \subseteq Nat
      /\ \A j \in DOMAIN stored : stored[j].chunk \in Nat
  BY DEF TypeInv, TypeOK, FecType
<1>2. phase = "send" /\ calls' = calls + 1
  BY DEF Calls
<1>3. f.sequence_number \notin DOMAIN stored
  BY <1>1, <1>2 DEF GivenInv
<1>4. /\ DOMAIN stored' = DOMAIN stored \union {f.sequence_number}
      /\ stored'[f.sequence_number] = New(len)
      /\ \A j \in DOMAIN stored : stored'[j] = stored[j]
  BY <1>3, GivenGrows
<1>5. New(len).chunk = calls
  BY MadeType
<1>6. /\ \A j \in DOMAIN stored : stored[j].chunk < calls
      /\ \A i, j \in DOMAIN stored : stored[i].chunk = stored[j].chunk => i = j
  BY DEF GivenInv
<1>7. ASSUME NEW j \in DOMAIN stored' PROVE stored'[j].chunk < calls'
  BY <1>1, <1>2, <1>4, <1>5, <1>6
<1>8. ASSUME NEW i \in DOMAIN stored', NEW j \in DOMAIN stored', stored'[i].chunk = stored'[j].chunk
      PROVE  i = j
  <2>1. \A n \in DOMAIN stored : stored[n].chunk # calls
    BY <1>1, <1>6
  <2> QED
    BY <1>4, <1>5, <1>6, <1>8, <2>1
<1> QED
  BY <1>3, <1>4, <1>7, <1>8

\* After it, the media packets of an open group hold the pieces given.
LEMMA HoldsGiven ==
  ASSUME TypeInv, GroupInv, GivenInv, Open,
         NEW len \in Nat, NEW packets, Calls(len, packets)
  PROVE  /\ f.sequence_number = Len(f.media_packets)
         /\ DOMAIN stored' = 0 .. f.sequence_number
         /\ \A j \in DOMAIN stored' : Filled(len)[j + 1].data = {stored'[j]}
<1> DEFINE n == Len(f.media_packets)
<1>1. f.media_packets \in Seq(PacketType(Nat)) /\ n \in Nat
  BY DEF TypeInv, TypeOK, FecType
<1>2. f.sequence_number = n
  BY DEF GroupInv
<1>3. phase = "send"
  BY DEF Calls
<1>4. DOMAIN stored = 0 .. n - 1 /\ \A j \in DOMAIN stored : f.media_packets[j + 1].data = {stored[j]}
  BY <1>2, <1>3 DEF GivenInv
<1>5. /\ DOMAIN stored' = DOMAIN stored \union {n}
      /\ stored'[n] = New(len)
      /\ \A j \in DOMAIN stored : stored'[j] = stored[j]
  BY <1>2, GivesOnce, GivenGrows
<1>6. Made(len) \in PacketType(Nat) /\ Made(len).data = {New(len)}
  BY MadeType
<1>7. /\ \A i \in 1 .. n : Filled(len)[i] = f.media_packets[i]
      /\ Filled(len)[n + 1] = Made(len)
  BY <1>1, <1>6, AppendProperties DEF Filled
<1> HIDE DEF n
<1>8. DOMAIN stored' = 0 .. n
  BY <1>1, <1>4, <1>5
<1>9. ASSUME NEW j \in 0 .. n PROVE Filled(len)[j + 1].data = {stored'[j]}
  <2>1. CASE j = n
    BY <1>5, <1>6, <1>7, <2>1
  <2>2. CASE j # n
    <3>1. j \in DOMAIN stored /\ j + 1 \in 1 .. n
      BY <1>1, <1>4, <2>2
    <3> QED
      BY <1>4, <1>5, <1>7, <3>1
  <2> QED
    BY <2>1, <2>2
<1> QED
  BY <1>2, <1>8, <1>9 DEF n

\* No piece is given twice, and an open group holds them.
LEMMA GivenStep ==
  ASSUME TypeInv, GroupInv, GivenInv, [Next]_vars PROVE GivenInv'
<1>0. /\ k \in 1 .. 16 /\ r \in 1 .. 16 /\ Len(f.media_packets) \in Nat
      /\ f.sequence_number \in Nat /\ DOMAIN stored \subseteq Nat
  BY ShapeOk DEF TypeInv, TypeOK, FecType
<1>1. ASSUME NEW len \in Nat, NEW packets, Calls(len, packets), Adds(len, packets)
      PROVE  GivenInv'
  <2>1. /\ \A j \in DOMAIN stored' : stored'[j].chunk < calls'
        /\ \A i, j \in DOMAIN stored' : stored'[i].chunk = stored'[j].chunk => i = j
    BY <1>1, GivesOnce
  <2>2. f'.sequence_number = f.sequence_number + 1
    BY <1>1 DEF Adds
  <2>3. ASSUME NEW j \in DOMAIN stored' PROVE j < f'.sequence_number
    <3>1. j \in DOMAIN stored \/ j = f.sequence_number
      BY <1>1, GivenGrows
    <3>2. j \in DOMAIN stored => j < f.sequence_number
      BY <1>1 DEF GivenInv, Calls
    <3> QED
      BY <1>0, <2>2, <3>1, <3>2
  <2>4. ASSUME Open'
        PROVE  /\ DOMAIN stored' = 0 .. f'.sequence_number - 1
               /\ \A j \in DOMAIN stored' : f'.media_packets[j + 1].data = {stored'[j]}
    <3>1. k' = k /\ api' = api /\ (Ulpfec => ~f.fec_last_use)
      BY <1>1 DEF Calls, stream, k
    <3>2. f'.media_packets = Filled(len)
      BY <1>1, <2>4, <3>1 DEF Adds, Open, Ulpfec
    <3>3. Len(Filled(len)) = Len(f.media_packets) + 1
      <4>1. << >> \in Seq(PacketType(Nat))
        OBVIOUS
      <4> QED
        BY <4>1, GrownFields
    <3>4. Open
      BY <1>0, <2>4, <3>1, <3>2, <3>3 DEF Open, Ulpfec
    <3>5. /\ DOMAIN stored' = 0 .. f.sequence_number
          /\ \A j \in DOMAIN stored' : Filled(len)[j + 1].data = {stored'[j]}
      BY <1>1, <3>4, HoldsGiven
    <3>6. f'.sequence_number - 1 = f.sequence_number
      BY <1>0, <2>2
    <3> QED
      BY <3>2, <3>5, <3>6
  <2> QED
    BY <2>1, <2>3, <2>4 DEF GivenInv
<1>2. ASSUME NEW len \in Nat, NEW packets, Calls(len, packets), Completes(len, packets),
             Finishes(len, packets) \/ Aborts(len)
      PROVE  GivenInv'
  <2>1. /\ \A j \in DOMAIN stored' : stored'[j].chunk < calls'
        /\ \A i, j \in DOMAIN stored' : stored'[i].chunk = stored'[j].chunk => i = j
    BY <1>2, GivesOnce
  <2>2. k' = k /\ Len(f.media_packets) + 1 = k /\ (Ulpfec => ~f.fec_last_use)
    BY <1>2 DEF Calls, Completes, stream, k
  <2>3. Open
    BY <1>0, <2>2 DEF Open, Ulpfec
  <2>4. DOMAIN stored' = 0 .. k - 1
    <3>1. /\ f.sequence_number = Len(f.media_packets)
          /\ DOMAIN stored' = 0 .. f.sequence_number
      BY <1>2, <2>3, HoldsGiven
    <3>2. f.sequence_number = k - 1
      BY <1>0, <2>2, <3>1
    <3> QED
      BY <3>1, <3>2
  <2>5. phase' = "send" => ~Open' /\ f'.sequence_number = k + r
    <3>1. phase' = "send" => f'.media_packets = Filled(len) /\ f'.sequence_number = k + r
      BY <1>2 DEF Finishes, Aborts
    <3>2. Len(Filled(len)) = k
      <4>1. << >> \in Seq(PacketType(Nat))
        OBVIOUS
      <4> QED
        BY <2>2, <4>1, GrownFields
    <3> QED
      BY <1>0, <2>2, <3>1, <3>2 DEF Open
  <2>6. \A j \in 0 .. k - 1 : j < k + r
    BY <1>0
  <2> QED
    BY <2>1, <2>4, <2>5, <2>6 DEF GivenInv
<1>3. ASSUME UNCHANGED <<stream, f, counts>>, stored' = stored, phase' # "send" \/ phase = "send"
      PROVE  GivenInv'
  BY <1>3, EncoderIdle DEF GivenInv
<1>4. ASSUME NextGroup PROVE GivenInv'
  <2>1. UNCHANGED <<stream, f, counts>> /\ stored' = << >> /\ phase = "repair"
    BY <1>4 DEF NextGroup
  <2>2. DOMAIN stored' = {}
    BY <2>1
  <2>3. Open => f.sequence_number = 0
    <3>1. Open => f.sequence_number = Len(f.media_packets) /\ f.media_packets = << >>
      BY <2>1 DEF GroupInv
    <3> QED
      BY <3>1
  <2>4. Open' => DOMAIN stored' = 0 .. f'.sequence_number - 1
    <3>1. Open' = Open /\ f' = f
      BY <2>1, EncoderIdle
    <3>2. 0 .. 0 - 1 = {}
      OBVIOUS
    <3> QED
      BY <2>2, <2>3, <3>1, <3>2
  <2> QED
    BY <2>2, <2>4 DEF GivenInv
<1>5. ASSUME GiveUp \/ \E j, p : Rebuilds(j, p)
      PROVE  UNCHANGED <<stream, f, counts>> /\ stored' = stored /\ phase' # "send"
  BY <1>5 DEF GiveUp, Rebuilds
<1>6. ASSUME phase' = "repair", UNCHANGED <<stream, f, wire, given, stored, rebuilt, counts>>
      PROVE  GivenInv'
  BY <1>3, <1>6
<1>7. ASSUME UNCHANGED vars PROVE GivenInv'
  <2>1. UNCHANGED <<stream, f, counts>> /\ stored' = stored /\ phase' = phase
    BY <1>7 DEF vars
  <2> QED
    BY <1>3, <2>1
<1> QED
  BY <1>1, <1>2, <1>3, <1>4, <1>5, <1>6, <1>7, Steps

\* FEC packets hold what their headers say.
LEMMA FecStep ==
  ASSUME TypeInv, GroupInv, GivenInv, FecInv, [Next]_vars PROVE FecInv'
<1>0. k \in 1 .. 16 /\ Len(f.media_packets) \in Nat
  BY ShapeOk DEF TypeInv, TypeOK, FecType
<1>1. ASSUME NEW len \in Nat, NEW packets, Calls(len, packets),
             Adds(len, packets) \/ Completes(len, packets)
      PROVE  FecInv'
  <2>1. /\ k' = k /\ (Ulpfec => ~f.fec_last_use)
        /\ Made(len).packet_mask = {}
    BY <1>1, MadeType DEF Calls, stream, k
  <2>2. ASSUME NEW p \in Arrived, IsFec(p)
        PROVE  /\ p.packet.packet_mask \subseteq (0 .. k - 1) \intersect DOMAIN stored'
               /\ p.packet.data = {stored'[j] : j \in p.packet.packet_mask}
    <3>1. /\ p.packet.packet_mask \subseteq (0 .. k - 1) \intersect DOMAIN stored
          /\ p.packet.data = {stored[j] : j \in p.packet.packet_mask}
      BY <2>2 DEF FecInv
    <3>2. \A j \in DOMAIN stored : j \in DOMAIN stored' /\ stored'[j] = stored[j]
      BY <1>1, GivesOnce
    <3> QED
      BY <3>1, <3>2
  <2>3. ASSUME NEW i \in 1 .. Len(packets), packets[i].packet_mask # {}
        PROVE  /\ packets[i].packet_mask \subseteq (0 .. k - 1) \intersect DOMAIN stored'
               /\ packets[i].data = {stored'[j] : j \in packets[i].packet_mask}
    <3> DEFINE mask == packets[i].packet_mask
               d == [j \in mask |-> Filled(len)[j + 1].data]
    <3>1. Completes(len, packets) /\ i # 1
      <4>1. CASE Adds(len, packets)
        <5>1. packets = <<Made(len)>> \/ packets = << >>
          BY <4>1 DEF Adds
        <5> QED
          BY <2>1, <2>3, <5>1
      <4>2. CASE Completes(len, packets)
        BY <2>1, <2>3, <4>2 DEF Completes
      <4> QED
        BY <1>1, <4>1, <4>2
    <3>2. i \in 2 .. Len(packets)
      <4>1. Len(packets) \in Nat
        BY <1>1, WireGrows
      <4> QED
        BY <3>1, <4>1
    <3>3. Len(f.media_packets) + 1 = k /\ mask \subseteq 0 .. k - 1
          /\ packets[i].data = XorOfMasked(Filled(len), mask)
      BY <3>1, <3>2 DEF Completes
    <3>4. Open
      BY <1>0, <2>1, <3>3 DEF Open, Ulpfec
    <3>5. /\ f.sequence_number = Len(f.media_packets)
          /\ DOMAIN stored' = 0 .. f.sequence_number
          /\ \A j \in DOMAIN stored' : Filled(len)[j + 1].data = {stored'[j]}
      BY <1>1, <3>4, HoldsGiven
    <3>6. DOMAIN stored' = 0 .. k - 1
      <4>1. f.sequence_number = k - 1
        BY <1>0, <3>3, <3>5
      <4> QED
        BY <3>5, <4>1
    <3>7. \A m, n \in DOMAIN stored' : stored'[m].chunk = stored'[n].chunk => m = n
      BY <1>1, GivesOnce
    <3> HIDE DEF mask
    <3>8. /\ \A j \in mask : d[j] = {stored'[j]}
          /\ \A m, n \in mask : stored'[m] = stored'[n] => m = n
      BY <3>3, <3>5, <3>6, <3>7
    <3>9. Odd(mask, d) = {stored'[j] : j \in mask}
      <4> DEFINE g == stored'
      <4>1. (\A j \in mask : d[j] = {g[j]}) /\ \A m, n \in mask : g[m] = g[n] => m = n
        BY <3>8
      <4> HIDE DEF d, g
      <4>2. Odd(mask, d) = {g[j] : j \in mask}
        BY <4>1, OddPieces
      <4> QED
        BY <4>2 DEF g
    <3>10. XorOfMasked(Filled(len), mask) = Odd(mask, d)
      <4>1. \A x : {j \in mask : x \in d[j]} = {j \in mask : x \in Filled(len)[j + 1].data}
        BY Zenon
      <4>2. UNION {d[j] : j \in mask} = UNION {Filled(len)[j + 1].data : j \in mask}
        OBVIOUS
      <4> HIDE DEF d
      <4> QED
        BY <4>1, <4>2 DEF XorOfMasked, Odd
    <3> QED
      BY <3>3, <3>6, <3>9, <3>10 DEF mask
  <2>4. ASSUME NEW p \in Arrived', IsFec(p)
        PROVE  /\ p.packet.packet_mask \subseteq (0 .. k - 1) \intersect DOMAIN stored'
               /\ p.packet.data = {stored'[j] : j \in p.packet.packet_mask}
    <3>1. p \in Arrived \/ \E i \in 1 .. Len(packets) : p.packet = packets[i]
      BY <1>1, WireNews
    <3> QED
      BY <2>2, <2>3, <2>4, <3>1 DEF IsFec
  <2> QED
    BY <2>1, <2>4 DEF FecInv, IsFec
<1>2. ASSUME UNCHANGED <<stream, wire, given, stored>> PROVE FecInv'
  BY <1>2 DEF FecInv, IsFec, Arrived, stream, k
<1>3. ASSUME NextGroup PROVE FecInv'
  <2>1. Arrived' = {}
    BY <1>3 DEF NextGroup, Arrived
  <2> QED
    BY <2>1 DEF FecInv
<1>4. ASSUME GiveUp \/ \E j, p : Rebuilds(j, p) PROVE UNCHANGED <<stream, wire, given, stored>>
  BY <1>4 DEF GiveUp, Rebuilds
<1>5. ASSUME UNCHANGED vars PROVE UNCHANGED <<stream, wire, given, stored>>
  BY <1>5 DEF vars
<1> QED
  BY <1>1, <1>2, <1>3, <1>4, <1>5, Steps

\* The receiver has, misses or has rebuilt every packet.
LEMMA SeenStep ==
  ASSUME TypeInv, GroupInv, SeenInv, [Next]_vars PROVE SeenInv'
<1>1. ASSUME NEW len \in Nat, NEW packets, Calls(len, packets),
             Adds(len, packets) \/ Finishes(len, packets) \/ Aborts(len)
      PROVE  SeenInv'
  <2>1. phase = "send" /\ phase' # "repair" /\ missing' = missing /\ rebuilt' = rebuilt
    BY <1>1 DEF Calls, Adds, Finishes, Aborts
  <2> QED
    BY <2>1 DEF SeenInv
<1>2. ASSUME GiveUp PROVE SeenInv'
  BY <1>2 DEF GiveUp, SeenInv
<1>3. ASSUME phase = "lose", phase' = "repair", Unsent \subseteq missing',
             UNCHANGED <<stream, f, wire, given, stored, rebuilt, counts>>
      PROVE  SeenInv'
  BY <1>3 DEF SeenInv, Unsent, Arrived, IsMedia, IsFec, stream, k
<1>4. ASSUME NEW j, NEW p, Rebuilds(j, p) PROVE SeenInv'
  <2>1. /\ phase = "repair" /\ phase' = phase /\ UNCHANGED <<stream, wire>>
        /\ missing' = missing \ {j} /\ DOMAIN rebuilt' = DOMAIN rebuilt \union {j}
    BY <1>4 DEF Rebuilds
  <2>2. Unsent' = Unsent
    BY <2>1 DEF Unsent, Arrived, IsMedia, IsFec, stream, k
  <2> QED
    BY <2>1, <2>2 DEF SeenInv
<1>5. ASSUME NextGroup PROVE SeenInv'
  BY <1>5 DEF NextGroup, SeenInv
<1>6. ASSUME UNCHANGED vars PROVE SeenInv'
  <2>1. Unsent' = Unsent
    BY <1>6 DEF vars, Unsent, Arrived, IsMedia, IsFec, stream, k
  <2>2. phase' = phase /\ missing' = missing /\ rebuilt' = rebuilt
    BY <1>6 DEF vars
  <2> QED
    BY <2>1, <2>2 DEF SeenInv
<1> QED
  BY <1>1, <1>2, <1>3, <1>4, <1>5, <1>6, Steps

\* The other packets a repair uses were rebuilt before or have arrived.
LEMMA OthersAvailable ==
  ASSUME FecInv, SeenInv, NEW j, NEW p, Rebuilds(j, p), NEW i \in p.packet.packet_mask \ {j}
  PROVE  \/ i \in DOMAIN rebuilt /\ Available(i) = rebuilt[i]
         \/ \E q \in Arrived : /\ IsMedia(q, i) /\ i \in 0 .. k - 1
                               /\ Available(i) = [data |-> q.packet.data, bytes |-> q.bytes]
<1>1. /\ phase = "repair" /\ p \in Arrived /\ IsFec(p)
      /\ p.packet.packet_mask \intersect missing = {j}
  BY DEF Rebuilds, Repairs
<1>2. i \in 0 .. k - 1 /\ i \notin missing
  BY <1>1 DEF FecInv
<1>3. CASE i \in DOMAIN rebuilt
  BY <1>3 DEF Available
<1>4. CASE i \notin DOMAIN rebuilt
  <2>1. i \notin Unsent
    BY <1>1, <1>2, <1>4 DEF SeenInv
  <2>2. \E q \in Arrived : IsMedia(q, i)
    BY <1>2, <2>1 DEF Unsent
  <2> DEFINE q == CHOOSE q \in Arrived : IsMedia(q, i)
  <2>3. q \in Arrived /\ IsMedia(q, i)
    BY <2>2
  <2>4. Available(i) = [data |-> q.packet.data, bytes |-> q.bytes]
    BY <1>4 DEF Available
  <2> QED
    BY <1>2, <2>3, <2>4
<1> QED
  BY <1>3, <1>4

\* The bytes of wire and rebuilt packets.
LEMMA ByteStep ==
  ASSUME TypeInv, GroupInv, GivenInv, FecInv, SeenInv, ByteInv, [Next]_vars PROVE ByteInv'
<1>0. f.packet_size \in Nat /\ f.sequence_number \in Nat
  BY DEF TypeInv, TypeOK, FecType
<1>1. ASSUME NEW len \in Nat, NEW packets, Calls(len, packets) PROVE ByteInv'
  <2>1. /\ api' = api /\ f'.fec_first_use = FALSE /\ f'.packet_size = Size(len)
        /\ missing' = missing /\ rebuilt' = rebuilt /\ phase = "send"
    BY <1>1 DEF Calls, stream
  <2>2. DOMAIN rebuilt' = {}
    BY <2>1 DEF SeenInv
  <2>3. /\ Size(len) \in Nat
        /\ New(len).len = IF len < Size(len) THEN len ELSE Size(len)
    BY MadeType DEF New, Piece
  <2>4. DOMAIN stored # {} \/ wire # << >> => Size(len) = f.packet_size
    BY DEF ByteInv, Size
  <2>5. /\ DOMAIN stored' = DOMAIN stored \union {f.sequence_number}
        /\ stored'[f.sequence_number] = New(len)
        /\ \A j \in DOMAIN stored : stored'[j] = stored[j]
        /\ f.sequence_number \notin DOMAIN stored
    BY <1>1, GivenGrows, GivesOnce
  <2>6. DOMAIN given = DOMAIN stored
    BY DEF ByteInv
  <2>7. /\ DOMAIN given' = DOMAIN given \union {f.sequence_number}
        /\ given'[f.sequence_number] = len
        /\ \A j \in DOMAIN given : given'[j] = given[j]
    BY <1>1, <2>5, <2>6 DEF Calls
  <2>8. ASSUME NEW j \in DOMAIN given'
        PROVE  /\ given'[j] \in Nat
               /\ stored'[j].len = IF given'[j] < f'.packet_size THEN given'[j] ELSE f'.packet_size
    <3>1. CASE j \in DOMAIN given
      <4>1. /\ given[j] \in Nat
            /\ stored[j].len = IF given[j] < f.packet_size THEN given[j] ELSE f.packet_size
        BY <3>1 DEF ByteInv
      <4>2. Size(len) = f.packet_size
        BY <2>4, <2>6, <3>1
      <4>3. stored'[j] = stored[j] /\ given'[j] = given[j] /\ f'.packet_size = f.packet_size
        BY <2>1, <2>5, <2>6, <2>7, <3>1, <4>2
      <4> QED
        BY <4>1, <4>3
    <3>2. CASE j = f.sequence_number
      <4>1. stored'[j] = New(len) /\ given'[j] = len
        BY <2>5, <2>7, <3>2
      <4> QED
        BY <2>1, <2>3, <4>1
    <3> QED
      BY <2>7, <3>1, <3>2
  <2>9. ASSUME NEW p \in Arrived' PROVE OnTheWire(p.bytes)'
    <3>1. CASE p \in Arrived
      <4>1. PICK i \in DOMAIN wire : p = wire[i]
        BY <3>1 DEF Arrived
      <4>2. Size(len) = f.packet_size
        <5>1. wire # << >>
          BY <4>1
        <5> QED
          BY <2>4, <5>1
      <4>3. OnTheWire(p.bytes)
        BY <4>1 DEF ByteInv
      <4> QED
        BY <2>1, <2>7, <4>2, <4>3 DEF OnTheWire
    <3>2. CASE p.bytes = Bytes(len)
      <4>1. CASE api = "SendByUlpfec"
        BY <2>1, <3>2, <4>1 DEF Bytes, Ulpfec, OnTheWire
      <4>2. CASE api # "SendByUlpfec"
        <5>1. p.bytes = given'[f.sequence_number]
          BY <2>7, <3>2, <4>2 DEF Bytes, Ulpfec
        <5> QED
          BY <2>1, <2>7, <4>2, <5>1 DEF OnTheWire
      <4> QED
        BY <4>1, <4>2
    <3>3. p \in Arrived \/ p.bytes = Bytes(len)
      BY <1>1, WireGrows
    <3> QED
      BY <3>1, <3>2, <3>3
  <2>10. \A i \in DOMAIN wire' : OnTheWire(wire[i].bytes)'
    BY <2>9 DEF Arrived
  <2> QED
    BY <2>1, <2>2, <2>5, <2>6, <2>7, <2>8, <2>10 DEF ByteInv
<1>2. ASSUME NEW j, NEW p, Rebuilds(j, p) PROVE ByteInv'
  <2> DEFINE others == p.packet.packet_mask \ {j}
             bytes  == KnownBytes(p, others)
             S      == {p.bytes} \union {Available(i).bytes : i \in others}
  <2>1. /\ UNCHANGED <<stream, f, wire, given, stored>>
        /\ p \in Arrived /\ IsFec(p) /\ p.packet.packet_mask \intersect missing = {j}
        /\ DOMAIN rebuilt' = DOMAIN rebuilt \union {j}
        /\ rebuilt'[j].bytes = bytes
        /\ \A i \in DOMAIN rebuilt : i # j => rebuilt'[i] = rebuilt[i]
    BY <1>2 DEF Rebuilds, Repairs
  <2>2. j \in DOMAIN stored
    BY <2>1 DEF FecInv
  <2>3. \A n : OnTheWire(n) => n \in Nat
    BY <1>0 DEF ByteInv, OnTheWire
  <2>4. \A q \in Arrived : OnTheWire(q.bytes)
    BY DEF ByteInv, Arrived
  <2>5. ASSUME NEW i \in others PROVE OnTheWire(Available(i).bytes)
    <3>1. CASE i \in DOMAIN rebuilt /\ Available(i) = rebuilt[i]
      BY <3>1 DEF ByteInv
    <3>2. CASE \E q \in Arrived : Available(i) = [data |-> q.packet.data, bytes |-> q.bytes]
      <4>1. PICK q \in Arrived : Available(i) = [data |-> q.packet.data, bytes |-> q.bytes]
        BY <3>2
      <4>2. Available(i).bytes = q.bytes
        BY <4>1
      <4> QED
        BY <2>4, <4>2
    <3> QED
      BY <1>2, <3>1, <3>2, OthersAvailable
  <2>6. \A b \in S : OnTheWire(b)
    BY <2>1, <2>4, <2>5
  <2>7. Min(S) \in S
    <3>1. S \subseteq Nat /\ S # {}
      BY <2>3, <2>6
    <3> HIDE DEF S
    <3> QED
      BY <3>1, MinOf
  <2>8. bytes = Min(S)
    BY DEF KnownBytes
  <2> HIDE DEF S, bytes
  <2>9. ASSUME NEW i \in DOMAIN rebuilt' PROVE OnTheWire(rebuilt'[i].bytes)
    <3>1. CASE i = j
      BY <2>1, <2>6, <2>7, <2>8, <3>1
    <3>2. CASE i # j
      <4>1. i \in DOMAIN rebuilt /\ rebuilt'[i] = rebuilt[i]
        BY <2>1, <3>2
      <4> QED
        BY <4>1 DEF ByteInv
    <3> QED
      BY <3>1, <3>2
  <2>10. api' = api /\ f' = f /\ wire' = wire /\ given' = given /\ stored' = stored
    BY <2>1 DEF stream
  <2>11. \A n : OnTheWire(n)' <=> OnTheWire(n)
    BY <2>10 DEF OnTheWire
  <2> QED
    BY <2>1, <2>2, <2>9, <2>10, <2>11 DEF ByteInv
<1>3. ASSUME UNCHANGED <<stream, f, wire, given, stored, rebuilt>> PROVE ByteInv'
  BY <1>3 DEF ByteInv, OnTheWire, stream
<1>4. ASSUME NextGroup PROVE ByteInv'
  <2>1. wire' = << >> /\ given' = << >> /\ stored' = << >> /\ rebuilt' = << >>
    BY <1>4 DEF NextGroup
  <2>2. DOMAIN wire' = {} /\ DOMAIN given' = {} /\ DOMAIN stored' = {} /\ DOMAIN rebuilt' = {}
    BY <2>1
  <2> QED
    BY <2>1, <2>2 DEF ByteInv
<1>5. ASSUME GiveUp PROVE UNCHANGED <<stream, f, wire, given, stored, rebuilt>>
  BY <1>5 DEF GiveUp
<1>6. ASSUME UNCHANGED vars PROVE UNCHANGED <<stream, f, wire, given, stored, rebuilt>>
  BY <1>6 DEF vars
<1> QED
  BY <1>1, <1>2, <1>3, <1>4, <1>5, <1>6, Steps

\* The numbers given to packets of the group under way fit their 8 bits.  Only a group
\* that a failed sendto left unfinished, and no FEC packet is made for, grows beyond.
NumbersSuffice == f.sequence_number <= 256

\* Once they do not, they never do again.
LEMMA NumbersRunOut ==
  ASSUME TypeInv, GroupInv, [Next]_vars, NumbersSuffice' PROVE NumbersSuffice
<1>0. k \in 1 .. 16 /\ f.sequence_number \in Nat /\ Len(f.media_packets) \in Nat
  BY ShapeOk DEF TypeInv, TypeOK, FecType
<1>1. ASSUME NEW len \in Nat, NEW packets, Calls(len, packets), Adds(len, packets)
      PROVE  NumbersSuffice
  BY <1>0, <1>1 DEF Adds, NumbersSuffice
<1>2. ASSUME NEW len \in Nat, NEW packets, Calls(len, packets), Completes(len, packets)
      PROVE  NumbersSuffice
  <2>1. Open
    BY <1>2, CompletesOpen DEF Completes, Calls
  <2>2. f.sequence_number = Len(f.media_packets) /\ Len(f.media_packets) < k
    BY <2>1 DEF GroupInv, Open
  <2> QED
    BY <1>0, <2>2 DEF NumbersSuffice
<1>3. ASSUME f' = f PROVE NumbersSuffice
  BY <1>3 DEF NumbersSuffice
<1>4. ASSUME GiveUp \/ NextGroup \/ (\E j, p : Rebuilds(j, p)) \/ UNCHANGED vars PROVE f' = f
  BY <1>4 DEF GiveUp, NextGroup, Rebuilds, vars
<1> QED
  BY <1>1, <1>2, <1>3, <1>4, Steps

\* Media packets hold the piece given for the number in their header.
LEMMA MediaStep ==
  ASSUME TypeInv, GroupInv, GivenInv, MediaInv, [Next]_vars, NumbersSuffice' PROVE MediaInv'
<1>0. /\ k \in 1 .. 16 /\ r \in 1 .. 16 /\ f.sequence_number \in Nat
      /\ Len(f.media_packets) \in Nat
  BY ShapeOk DEF TypeInv, TypeOK, FecType
<1>1. ASSUME NEW len \in Nat, NEW packets, Calls(len, packets), Open \/ FecOut,
             \A i \in 1 .. Len(packets) : packets[i] = Made(len) \/ packets[i].packet_mask # {},
             f.sequence_number <= 255
      PROVE  \A p \in Arrived' : \A j \in 0 .. k - 1 :
               IsMedia(p, j) => j \in DOMAIN stored' /\ p.packet.data = {stored'[j]}
  <2>1. /\ Made(len).packet_mask = {} /\ Made(len).data = {New(len)}
        /\ Made(len).sequence_number = f.sequence_number % 256
    BY MadeType
  <2>2. /\ f.sequence_number \in DOMAIN stored'
        /\ stored'[f.sequence_number] = New(len)
        /\ \A j \in DOMAIN stored : j \in DOMAIN stored' /\ stored'[j] = stored[j]
    BY <1>1, GivenGrows, GivesOnce
  <2>4. Made(len).sequence_number = f.sequence_number
    <3>1. \A n \in Nat : n <= 255 => n % 256 = n
      OBVIOUS
    <3> QED
      BY <1>0, <1>1, <2>1, <3>1
  <2>5. ASSUME NEW p \in Arrived', NEW j \in 0 .. k - 1, IsMedia(p, j)
        PROVE  j \in DOMAIN stored' /\ p.packet.data = {stored'[j]}
    <3>1. CASE p \in Arrived
      <4>1. j \in DOMAIN stored /\ p.packet.data = {stored[j]}
        BY <1>1, <2>5, <3>1 DEF MediaInv
      <4> QED
        BY <2>2, <4>1
    <3>2. CASE \E i \in 1 .. Len(packets) : p.packet = packets[i]
      <4>1. p.packet = Made(len)
        BY <1>1, <2>5, <3>2 DEF IsMedia, IsFec
      <4>2. j = f.sequence_number
        BY <2>4, <2>5, <4>1 DEF IsMedia
      <4> QED
        BY <2>1, <2>2, <4>1, <4>2
    <3>3. p \in Arrived \/ \E i \in 1 .. Len(packets) : p.packet = packets[i]
      BY <1>1, WireNews
    <3> QED
      BY <3>1, <3>2, <3>3
  <2> QED
    BY <2>5
<1>2. ASSUME NEW len \in Nat, NEW packets, Calls(len, packets)
      PROVE  /\ k' = k /\ r' = r /\ api' = api /\ phase = "send"
             /\ Ulpfec => ~f.fec_last_use
             /\ Len(Filled(len)) = Len(f.media_packets) + 1
  <2>1. << >> \in Seq(PacketType(Nat))
    OBVIOUS
  <2>2. Len(Filled(len)) = Len(f.media_packets) + 1
    BY <2>1, GrownFields
  <2> QED
    BY <1>2, <2>2 DEF Calls, stream, k, r
<1>3. ASSUME NEW len \in Nat, NEW packets, Calls(len, packets), Adds(len, packets)
      PROVE  MediaInv'
  <2>1. \A i \in 1 .. Len(packets) : packets[i] = Made(len)
    <3>1. packets = <<Made(len)>> \/ packets = << >>
      BY <1>3 DEF Adds
    <3> QED
      BY <3>1
  <2>2. FecOut' => FecOut
    <3>1. ASSUME NEW p \in Arrived', IsFec(p) PROVE p \in Arrived
      <4>1. p \in Arrived \/ \E i \in 1 .. Len(packets) : p.packet = packets[i]
        BY <1>3, WireNews
      <4>2. Made(len).packet_mask = {}
        BY MadeType
      <4> QED
        BY <2>1, <3>1, <4>1, <4>2 DEF IsFec
    <3> QED
      BY <3>1 DEF FecOut, IsFec
  <2>3. Open' => Open
    <3>1. ASSUME Open' PROVE Len(f.media_packets) < k
      <4>1. f'.media_packets = Filled(len) /\ Len(f'.media_packets) < k
        BY <1>2, <1>3, <3>1 DEF Adds, Open, Ulpfec
      <4> QED
        BY <1>0, <1>2, <1>3, <4>1
    <3> QED
      BY <1>2, <1>3, <3>1 DEF Open, Ulpfec
  <2>4. ASSUME Open' \/ FecOut'
        PROVE  \A p \in Arrived' : \A j \in 0 .. k - 1 :
                 IsMedia(p, j) => j \in DOMAIN stored' /\ p.packet.data = {stored'[j]}
    <3>1. f.sequence_number <= 255
      BY <1>0, <1>3 DEF Adds, NumbersSuffice
    <3> QED
      BY <1>1, <1>3, <2>1, <2>2, <2>3, <2>4, <3>1
  <2> QED
    BY <1>2, <1>3, <2>4 DEF MediaInv, IsMedia, IsFec
<1>4. ASSUME NEW len \in Nat, NEW packets, Calls(len, packets), Completes(len, packets),
             Finishes(len, packets) \/ Aborts(len)
      PROVE  MediaInv'
  <2>1. Open /\ f.sequence_number = k - 1
    <3>1. Len(f.media_packets) = k - 1
      BY <1>0, <1>4 DEF Completes
    <3>2. Open
      BY <1>0, <1>2, <1>4, <3>1 DEF Open, Ulpfec
    <3> QED
      BY <3>1, <3>2 DEF GroupInv
  <2>2. PICK m \in Nat : m = Len(packets)
    BY <1>4, WireGrows
  <2>3. ASSUME NEW p \in Arrived', NEW j \in 0 .. k - 1, IsMedia(p, j)
        PROVE  j \in DOMAIN stored' /\ p.packet.data = {stored'[j]}
    <3>1. CASE p \in Arrived
      <4>1. j \in DOMAIN stored /\ p.packet.data = {stored[j]}
        BY <2>1, <2>3, <3>1 DEF MediaInv
      <4> QED
        BY <1>4, <4>1, GivesOnce
    <3>2. CASE p.packet = Made(len)
      <4>1. /\ Made(len).data = {New(len)}
            /\ Made(len).sequence_number = f.sequence_number % 256
        BY MadeType
      <4>2. j = f.sequence_number
        <5>1. \A n \in 1 .. 16 : (n - 1) % 256 = n - 1
          OBVIOUS
        <5> QED
          BY <1>0, <2>1, <2>3, <3>2, <4>1, <5>1 DEF IsMedia
      <4>3. f.sequence_number \in DOMAIN stored' /\ stored'[f.sequence_number] = New(len)
        BY <1>4, GivenGrows
      <4> QED
        BY <3>2, <4>1, <4>2, <4>3
    <3>3. CASE \E i \in 2 .. m : p.packet = packets[i]
      <4>1. PICK i \in 2 .. m : p.packet = packets[i]
        BY <3>3
      <4>2. packets[i].sequence_number = k + i - 2
        BY <1>4, <2>2, <4>1 DEF Completes
      <4>3. j = k + i - 2
        BY <2>3, <4>1, <4>2 DEF IsMedia
      <4> QED
        BY <1>0, <2>2, <4>3
    <3>4. p \in Arrived \/ \E i \in 1 .. m : p.packet = packets[i]
      BY <1>4, <2>2, WireNews
    <3>5. packets[1] = Made(len) /\ \A i \in 1 .. m : i = 1 \/ i \in 2 .. m
      BY <1>4, <2>2 DEF Completes
    <3> QED
      BY <3>1, <3>2, <3>3, <3>4, <3>5
  <2> QED
    BY <1>2, <1>4, <2>3 DEF MediaInv, IsMedia, IsFec
<1>5. ASSUME UNCHANGED <<stream, f, counts>>, UNCHANGED <<wire, given, stored>>,
             phase' # "send" \/ phase = "send"
      PROVE  MediaInv'
  <2>1. FecOut' = FecOut /\ Arrived' = Arrived
    BY <1>5 DEF FecOut, Arrived, IsFec
  <2> QED
    BY <1>5, <2>1, EncoderIdle DEF MediaInv, IsMedia, IsFec
<1>6. ASSUME NextGroup PROVE MediaInv'
  <2>1. Arrived' = {}
    BY <1>6 DEF NextGroup, Arrived
  <2> QED
    BY <2>1 DEF MediaInv, FecOut
<1>7. ASSUME GiveUp \/ \E j, p : Rebuilds(j, p)
      PROVE  UNCHANGED <<stream, f, counts>> /\ UNCHANGED <<wire, given, stored>> /\ phase' # "send"
  BY <1>7 DEF GiveUp, Rebuilds
<1>8. ASSUME phase' = "repair", UNCHANGED <<stream, f, wire, given, stored, rebuilt, counts>>
      PROVE  MediaInv'
  BY <1>5, <1>8
<1>9. ASSUME UNCHANGED vars PROVE MediaInv'
  <2>1. UNCHANGED <<stream, f, counts>> /\ UNCHANGED <<wire, given, stored>> /\ phase' = phase
    BY <1>9 DEF vars
  <2> QED
    BY <1>5, <2>1
<1> QED
  BY <1>3, <1>4, <1>5, <1>6, <1>7, <1>8, <1>9, Steps

\* What is rebuilt is what was given.
LEMMA ExactStep ==
  ASSUME TypeInv, GroupInv, GivenInv, FecInv, SeenInv, MediaInv, RepairIsExact, [Next]_vars
  PROVE  RepairIsExact'
<1>1. ASSUME NEW len \in Nat, NEW packets, Calls(len, packets) PROVE RepairIsExact'
  <2>1. DOMAIN rebuilt' = {}
    BY <1>1 DEF Calls, SeenInv
  <2> QED
    BY <2>1 DEF RepairIsExact
<1>2. ASSUME NEW j, NEW p, Rebuilds(j, p) PROVE RepairIsExact'
  <2> DEFINE mask == p.packet.packet_mask
             others == mask \ {j}
             d == [i \in others |-> Available(i).data]
  <2>1. /\ stored' = stored
        /\ p \in Arrived /\ IsFec(p) /\ mask \intersect missing = {j}
        /\ DOMAIN rebuilt' = DOMAIN rebuilt \union {j}
        /\ rebuilt'[j].data = XorPayloads(Known(others), p.packet.data)
        /\ \A i \in DOMAIN rebuilt : i # j => rebuilt'[i] = rebuilt[i]
    BY <1>2 DEF Rebuilds, Repairs
  <2>2. mask \subseteq DOMAIN stored /\ p.packet.data = {stored[i] : i \in mask} /\ j \in mask
    BY <2>1 DEF FecInv
  <2>3. ASSUME NEW i \in others PROVE Available(i).data = {stored[i]}
    <3>1. CASE i \in DOMAIN rebuilt /\ Available(i) = rebuilt[i]
      BY <3>1 DEF RepairIsExact
    <3>2. CASE \E q \in Arrived : /\ IsMedia(q, i) /\ i \in 0 .. k - 1
                                  /\ Available(i) = [data |-> q.packet.data, bytes |-> q.bytes]
      <4>1. PICK q \in Arrived : /\ IsMedia(q, i) /\ i \in 0 .. k - 1
                                 /\ Available(i) = [data |-> q.packet.data, bytes |-> q.bytes]
        BY <3>2
      <4>2. FecOut
        BY <2>1 DEF FecOut
      <4>3. q.packet.data = {stored[i]}
        BY <4>1, <4>2 DEF MediaInv
      <4> QED
        BY <4>1, <4>3
    <3> QED
      BY <1>2, <3>1, <3>2, OthersAvailable
  <2>4. \A m, n \in mask : stored[m] = stored[n] => m = n
    BY <2>2 DEF GivenInv
  <2>5. Known(others) = Odd(others, d)
    <3>1. \A x : {i \in others : x \in d[i]} = {i \in others : x \in Available(i).data}
      BY Zenon
    <3>2. UNION {d[i] : i \in others} = UNION {Available(i).data : i \in others}
      OBVIOUS
    <3> HIDE DEF d, others
    <3> QED
      BY <3>1, <3>2 DEF Known, Odd
  <2>6. Odd(others, d) = {stored[i] : i \in others}
    <3>1. (\A i \in others : d[i] = {stored[i]}) /\ \A m, n \in others : stored[m] = stored[n] => m = n
      BY <2>3, <2>4
    <3> HIDE DEF d, others
    <3> QED
      BY <3>1, OddPieces
  <2>7. XorPayloads({stored[i] : i \in others}, {stored[i] : i \in mask}) = {stored[j]}
    <3> HIDE DEF mask
    <3> QED
      BY <2>2, <2>4 DEF XorPayloads
  <2>8. rebuilt'[j].data = {stored'[j]}
    BY <2>1, <2>2, <2>5, <2>6, <2>7
  <2> QED
    BY <2>1, <2>8 DEF RepairIsExact
<1>3. ASSUME UNCHANGED <<stored, rebuilt>> PROVE RepairIsExact'
  BY <1>3 DEF RepairIsExact
<1>4. ASSUME NextGroup PROVE RepairIsExact'
  BY <1>4 DEF NextGroup, RepairIsExact
<1>5. ASSUME GiveUp \/ UNCHANGED vars PROVE UNCHANGED <<stored, rebuilt>>
  BY <1>5 DEF GiveUp, vars
<1> QED
  BY <1>1, <1>2, <1>3, <1>4, <1>5, Steps

-----------------------------------------------------------------------------
(* All losses that the masks are made for are repaired *)

\* Packets stay on the wire, and the packets of a call get there.
LEMMA WireKeeps ==
  ASSUME TypeInv, NEW len \in Nat, NEW packets, Calls(len, packets)
  PROVE  /\ Arrived \subseteq Arrived'
         /\ \A i \in 1 .. Len(packets) : \E p \in Arrived' : p.packet = packets[i]
<1>1. /\ wire' \in Seq(WirePacket) /\ Len(wire') = Len(wire) + Len(packets)
      /\ Len(packets) \in Nat /\ Len(wire) \in Nat
      /\ \A i \in 1 .. Len(wire) : wire'[i] = wire[i]
      /\ \A i \in 1 .. Len(packets) :
           wire'[Len(wire) + i] = [packet |-> packets[i], bytes |-> Bytes(len)]
  BY WireGrows
<1>2. wire \in Seq(WirePacket)
  BY DEF TypeInv
<1>3. \A i \in 1 .. Len(wire') : wire'[i] \in Arrived'
  BY <1>1 DEF Arrived
<1>4. ASSUME NEW p \in Arrived PROVE p \in Arrived'
  <2>1. PICK i \in 1 .. Len(wire) : p = wire[i]
    BY <1>2 DEF Arrived
  <2>2. i \in 1 .. Len(wire')
    BY <1>1
  <2> QED
    BY <1>1, <1>3, <2>1, <2>2
<1>5. ASSUME NEW i \in 1 .. Len(packets) PROVE \E p \in Arrived' : p.packet = packets[i]
  <2> DEFINE n == Len(wire) + i
  <2>1. n \in 1 .. Len(wire') /\ wire'[n] = [packet |-> packets[i], bytes |-> Bytes(len)]
    BY <1>1
  <2>2. wire'[n].packet = packets[i]
    BY <2>1
  <2> HIDE DEF n
  <2> QED
    BY <1>3, <2>1, <2>2
<1> QED
  BY <1>4, <1>5

\* Every step keeps the packets of a group complete.
LEMMA CoverStep ==
  ASSUME TypeInv, GroupInv, SeenInv, CoverInv, [Next]_vars PROVE CoverInv'
<1>0. /\ k \in 1 .. 16 /\ r \in 1 .. 16 /\ f \in FecType(Nat) /\ Len(f.media_packets) \in Nat
      /\ f.sequence_number \in Nat
  BY ShapeOk DEF TypeInv, TypeOK, FecType
<1>1. ASSUME NEW len \in Nat, NEW packets, Calls(len, packets)
      PROVE  /\ api' = api /\ k' = k /\ r' = r /\ f'.fec_mask_type = f.fec_mask_type
             /\ phase = "send" /\ (Ulpfec => ~f.fec_last_use)
             /\ failures' = 0 => failures = 0
             /\ Len(Filled(len)) = Len(f.media_packets) + 1
  <2>1. failures' \in failures .. MaxFailures /\ failures \in Nat /\ MaxFailures \in Nat
    BY <1>1, BoundAssumption DEF TypeInv, Calls
  <2>2. failures' = 0 => failures = 0
    BY <2>1
  <2>3. Len(Filled(len)) = Len(f.media_packets) + 1
    <3>1. << >> \in Seq(PacketType(Nat))
      OBVIOUS
    <3> QED
      BY <3>1, GrownFields
  <2> QED
    BY <1>1, <2>2, <2>3 DEF Calls, stream, k, r
<1>2. ASSUME NEW len \in Nat, NEW packets, Calls(len, packets), Open, failures = 0,
             NEW j \in 0 .. f.sequence_number, 1 \in 1 .. Len(packets), packets[1] = Made(len)
      PROVE  \E p \in Arrived' : IsMedia(p, j)
  <2>1. CASE j \in 0 .. f.sequence_number - 1
    <3>1. PICK p \in Arrived : IsMedia(p, j)
      BY <1>1, <1>2, <2>1 DEF CoverInv
    <3> QED
      BY <1>2, <3>1, WireKeeps
  <2>2. CASE j = f.sequence_number
    <3>1. PICK p \in Arrived' : p.packet = Made(len)
      BY <1>2, WireKeeps
    <3>2. f.sequence_number \in 0 .. 15
      <4>1. f.sequence_number = Len(f.media_packets) /\ Len(f.media_packets) < k
        BY <1>2 DEF GroupInv, Open
      <4>2. \A m \in Nat : \A n \in 1 .. 16 : m < n => m \in 0 .. 15
        OBVIOUS
      <4> QED
        BY <1>0, <4>1, <4>2, Zenon
    <3>3. \A n \in 0 .. 15 : n % 256 = n
      OBVIOUS
    <3>4. Made(len).sequence_number = f.sequence_number /\ Made(len).packet_mask = {}
      BY <3>2, <3>3, MadeType
    <3> QED
      BY <2>2, <3>1, <3>4 DEF IsMedia, IsFec
  <2> QED
    BY <1>0, <2>1, <2>2
<1>3. ASSUME NEW len \in Nat, NEW packets, Calls(len, packets), Adds(len, packets)
      PROVE  CoverInv'
  <2> SUFFICES ASSUME failures' = 0 PROVE /\ ~FecOut' /\ phase' = "send"
                                          /\ Open' => \A j \in 0 .. f'.sequence_number - 1 :
                                                        \E p \in Arrived' : IsMedia(p, j)
    BY DEF CoverInv, IsMedia, IsFec
  <2>1. /\ packets = <<Made(len)>> /\ phase' = "send" /\ failures = 0
        /\ f'.sequence_number = f.sequence_number + 1
    BY <1>1, <1>3 DEF Adds
  <2>2. Len(packets) = 1 /\ packets[1] = Made(len) /\ 1 \in 1 .. Len(packets)
    BY <2>1
  <2>3. ~FecOut'
    <3>0. \A p \in Arrived' : \/ p \in Arrived
                               \/ \E i \in 1 .. Len(packets) : p.packet = packets[i]
      BY <1>3, WireNews
    <3>1. ASSUME NEW p \in Arrived', IsFec(p) PROVE FALSE
      <4>1. p \in Arrived \/ \E i \in 1 .. Len(packets) : p.packet = packets[i]
        BY <3>0
      <4>2. \A i \in 1 .. Len(packets) : packets[i] = Made(len)
        BY <2>2
      <4>3. p \notin Arrived
        BY <1>1, <1>3, <2>1, <3>1 DEF CoverInv, FecOut
      <4>4. Made(len).packet_mask = {}
        BY MadeType
      <4> QED
        BY <3>1, <4>1, <4>2, <4>3, <4>4 DEF IsFec
    <3> QED
      BY <3>1 DEF FecOut, IsFec
  <2>4. ASSUME Open', NEW j \in 0 .. f'.sequence_number - 1
        PROVE  \E p \in Arrived' : IsMedia(p, j)
    <3>1. Open
      <4>1. f'.media_packets = Filled(len) /\ Len(f'.media_packets) < k
        BY <1>1, <1>3, <2>4 DEF Adds, Open, Ulpfec
      <4> QED
        BY <1>0, <1>1, <1>3, <4>1 DEF Open, Ulpfec
    <3>2. j \in 0 .. f.sequence_number
      BY <1>0, <2>1, <2>4
    <3> QED
      BY <1>2, <1>3, <2>1, <2>2, <3>1, <3>2
  <2> QED
    BY <2>1, <2>3, <2>4
<1>4. ASSUME NEW len \in Nat, NEW packets, Calls(len, packets), Completes(len, packets),
             Finishes(len, packets)
      PROVE  CoverInv'
  <2> SUFFICES ASSUME failures' = 0 PROVE phase' = "lose" /\ Unsent' = {} /\ RowsOut'
    BY DEF CoverInv
  <2>1. /\ phase' = "lose" /\ failures = 0 /\ Len(packets) = r + 1 /\ packets[1] = Made(len)
        /\ Len(f.media_packets) = k - 1
    BY <1>0, <1>1, <1>4 DEF Finishes, Completes
  <2>2. Open /\ f.sequence_number = k - 1
    <3>1. Open
      BY <1>1, <1>4, CompletesOpen DEF Completes
    <3> QED
      BY <2>1, <3>1 DEF GroupInv
  <2>3. ASSUME NEW j \in 0 .. k - 1 PROVE \E p \in Arrived' : IsMedia(p, j)
    <3>1. j \in 0 .. f.sequence_number /\ 1 \in 1 .. Len(packets)
      BY <1>0, <2>1, <2>2
    <3> QED
      BY <1>2, <1>4, <2>1, <2>2, <3>1
  <2>4. Unsent' = {}
    BY <1>1, <1>4, <2>3 DEF Unsent, IsMedia, IsFec
  <2>5. ASSUME NEW i \in 0 .. r - 1
        PROVE  \E p \in Arrived' : p.packet.packet_mask = MaskRows(f.fec_mask_type, k, r)[i]
    <3> DEFINE n == i + 2
    <3>1. n \in 2 .. Len(packets) /\ n \in 1 .. Len(packets) /\ n - 2 = i
      BY <1>0, <2>1
    <3> HIDE DEF n
    <3>2. packets[n].packet_mask = MaskRows(f.fec_mask_type, k, r)[n - 2]
      BY <1>4, <3>1 DEF Completes
    <3>3. PICK p \in Arrived' : p.packet = packets[n]
      BY <1>4, <3>1, WireKeeps
    <3> QED
      BY <3>1, <3>2, <3>3
  <2>6. RowsOut'
    BY <1>1, <1>4, <2>5 DEF RowsOut
  <2> QED
    BY <2>1, <2>4, <2>6
<1>5. ASSUME NEW len \in Nat, NEW packets, Aborts(len) PROVE CoverInv'
  BY <1>5 DEF Aborts, CoverInv
<1>6. ASSUME UNCHANGED <<stream, f, counts>>, wire' = wire
      PROVE  /\ Arrived' = Arrived /\ Unsent' = Unsent /\ (RowsOut <=> RowsOut')
             /\ FecOut' = FecOut /\ failures' = failures /\ k' = k /\ r' = r /\ f' = f
             /\ Open' = Open
             /\ \A S : IsRun(S) => IsRun(S)'
  <2>1. Arrived' = Arrived
    BY <1>6 DEF Arrived
  <2>2. k' = k /\ r' = r /\ f' = f /\ failures' = failures /\ Open' = Open
    BY <1>6, EncoderIdle
  <2>3. Unsent' = Unsent /\ FecOut' = FecOut
    BY <2>1, <2>2 DEF Unsent, FecOut, IsMedia, IsFec
  <2>4. RowsOut <=> RowsOut'
    BY <2>1, <2>2 DEF RowsOut
  <2>5. \A S : IsRun(S) => IsRun(S)'
    BY <2>2 DEF IsRun
  <2> QED
    BY <2>1, <2>2, <2>3, <2>4, <2>5
<1>7. ASSUME GiveUp PROVE CoverInv'
  <2>1. phase = "send" /\ FecOut /\ failures' = failures
    BY <1>7 DEF GiveUp, FecOut, counts
  <2> QED
    BY <2>1 DEF CoverInv
<1>8. ASSUME phase = "lose", phase' = "repair", NEW S, IsRun(S), missing' = Unsent \union S,
             UNCHANGED <<stream, f, wire, given, stored, rebuilt, counts>>
      PROVE  CoverInv'
  <2> SUFFICES ASSUME failures = 0 PROVE CoverInv'
    BY <1>6, <1>8 DEF CoverInv
  <2>1. Unsent = {} /\ RowsOut
    BY <1>8 DEF CoverInv
  <2>2. missing' \union DOMAIN rebuilt' = S
    BY <1>8, <2>1 DEF SeenInv
  <2> QED
    BY <1>6, <1>8, <2>1, <2>2 DEF CoverInv
<1>9. ASSUME NEW j, NEW p, Rebuilds(j, p) PROVE CoverInv'
  <2>1. /\ UNCHANGED <<stream, f, counts>> /\ wire' = wire
        /\ phase = "repair" /\ phase' = "repair"
        /\ missing' \union DOMAIN rebuilt' = missing \union DOMAIN rebuilt
    BY <1>9 DEF Rebuilds
  <2> QED
    BY <1>6, <2>1 DEF CoverInv
<1>10. ASSUME NextGroup PROVE CoverInv'
  <2>1. /\ Arrived' = {} /\ phase = "repair" /\ phase' = "send"
        /\ UNCHANGED <<stream, f, counts>>
    BY <1>10 DEF NextGroup, Arrived
  <2>2. ~FecOut'
    BY <2>1 DEF FecOut
  <2>3. Open' => f'.sequence_number = 0
    BY <2>1, EncoderIdle DEF GroupInv
  <2>4. 0 .. 0 - 1 = {}
    OBVIOUS
  <2> QED
    BY <2>1, <2>2, <2>3, <2>4 DEF CoverInv
<1>11. ASSUME UNCHANGED vars PROVE CoverInv'
  <2>1. /\ UNCHANGED <<stream, f, counts>> /\ wire' = wire /\ phase' = phase
        /\ missing' = missing /\ rebuilt' = rebuilt
    BY <1>11 DEF vars
  <2> QED
    BY <1>6, <2>1 DEF CoverInv, IsMedia, IsFec
<1> QED
  BY <1>3, <1>4, <1>5, <1>7, <1>8, <1>9, <1>10, <1>11, Steps

-----------------------------------------------------------------------------
(* The theorems *)

\* The invariant that needs no bound on the stream.
StreamInv == TypeInv /\ GroupInv /\ WireInv /\ GivenInv /\ FecInv /\ SeenInv /\ ByteInv

\* Nothing has been sent.
LEMMA StreamInit == Init => StreamInv /\ MediaInv /\ RepairIsExact
<1> SUFFICES ASSUME Init PROVE StreamInv /\ MediaInv /\ RepairIsExact
  OBVIOUS
<1>1. PICK t \in FecMaskType : f = NewForwardErrorCorrection(t)
  BY MaskAssumption DEF Init
<1>2. f \in FecType(Nat)
  BY <1>1, NewForwardErrorCorrectionType
<1>3. /\ f.media_packets = << >> /\ f.buffer_packets = << >> /\ f.fec_packets = << >>
      /\ f.sequence_number = 0 /\ f.fec_last_use = FALSE /\ f.packet_size = 0
  BY <1>1 DEF NewForwardErrorCorrection
<1>4. /\ api \in Apis /\ shape \in Shapes /\ phase = "send" /\ wire = << >> /\ stored = << >>
      /\ given = << >> /\ missing = {} /\ rebuilt = << >> /\ calls = 0 /\ failures = 0
  BY DEF Init
<1>5. /\ DOMAIN wire = {} /\ DOMAIN stored = {} /\ DOMAIN rebuilt = {} /\ Arrived = {}
      /\ DOMAIN given = {}
  BY <1>4 DEF Arrived
<1>6. TypeInv
  <2>1. TypeOK
    BY <1>2, <1>3, <1>4, <1>5 DEF TypeOK
  <2>2. wire \in Seq(WirePacket) /\ stored \in [DOMAIN stored -> [chunk : Nat, len : Nat]]
    BY <1>4
  <2>3. calls \in Nat /\ failures \in 0 .. MaxFailures
    BY <1>4, BoundAssumption
  <2> QED
    BY <1>5, <2>1, <2>2, <2>3 DEF TypeInv
<1>7. GroupInv
  <2>1. Open
    <3>1. k \in 1 .. 16 /\ Len(f.media_packets) = 0
      BY <1>3, <1>6, ShapeOk
    <3> QED
      BY <1>3, <3>1 DEF Open
  <2>2. f.sequence_number = Len(f.media_packets) /\ f.sequence_number <= calls /\ ~FecOut
    BY <1>3, <1>4, <1>5 DEF FecOut
  <2> QED
    BY <1>3, <1>4, <2>1, <2>2 DEF GroupInv
<1>8. WireInv
  <2>1. [i \in DOMAIN wire |-> wire[i].packet] = f.media_packets
    BY <1>3, <1>4
  <2> QED
    BY <1>5, <2>1 DEF WireInv
<1>9. GivenInv
  <2>1. 0 .. 0 - 1 = {}
    OBVIOUS
  <2> QED
    BY <1>3, <1>5, <2>1 DEF GivenInv
<1>10. FecInv /\ SeenInv /\ ByteInv /\ MediaInv /\ RepairIsExact
  BY <1>4, <1>5 DEF FecInv, SeenInv, ByteInv, MediaInv, RepairIsExact, FecOut
<1> QED
  BY <1>6, <1>7, <1>8, <1>9, <1>10 DEF StreamInv

\* Every step keeps it.
LEMMA StreamStep == StreamInv /\ [Next]_vars => StreamInv'
BY TypeStep, GroupStep, WireStep, GivenStep, FecStep, SeenStep, ByteStep DEF StreamInv

\* So it always holds.
LEMMA StreamAlways == Spec => []StreamInv
BY StreamInit, StreamStep, PTL DEF Spec

(***************************************************************************)
(* The encoder is well typed between two calls of any of its entry points, *)
(* its list of packets to send is empty, and wire and receiver are as the  *)
(* shape of the group says.                                                *)
(***************************************************************************)
THEOREM StreamWellTyped == Spec => []TypeOK
<1>1. StreamInv => TypeOK
  BY DEF StreamInv, TypeInv
<1> QED
  BY <1>1, StreamAlways, PTL

(***************************************************************************)
(* A call that reaches EncodeFec finds fec_packets empty, as its RTC_DCHECK *)
(* demands, and sequence_number counting the media packets: with every     *)
(* entry point and whatever sendto failed before.                          *)
(***************************************************************************)
THEOREM EncodeFecReady == Spec => []EncodeFecDemands
<1>1. StreamInv => EncodeFecDemands
  <2> SUFFICES ASSUME StreamInv, Len(f.media_packets) = k - 1,
                      ~(api = "SendByUlpfec" /\ f.fec_last_use)
               PROVE  f.fec_packets = << >> /\ f.sequence_number = k - 1
    BY DEF EncodeFecDemands
  <2>1. k \in 1 .. 16
    BY ShapeOk DEF StreamInv
  <2>2. Open
    BY <2>1 DEF Open
  <2> QED
    BY <2>2 DEF StreamInv, GroupInv
<1> QED
  BY <1>1, StreamAlways, PTL

(***************************************************************************)
(* In a group that nothing spoilt, the encoder's counters agree with the   *)
(* packets on the wire, which are numbered without gaps: for every shape   *)
(* and number of groups.                                                   *)
(***************************************************************************)
THEOREM CountersRight == Spec => []CountersMatchWire
<1>1. StreamInv => CountersMatchWire
  <2> SUFFICES ASSUME StreamInv, api # "OldPacketByFEC", ~Spoilt
               PROVE  /\ f.sequence_number = Len(f.media_packets)
                      /\ f.sequence_number < k
                      /\ phase = "send" => [i \in DOMAIN wire |-> wire[i].packet] = f.media_packets
                      /\ \A i \in DOMAIN wire :
                           /\ wire[i].packet.sequence_number = i - 1
                           /\ i > 1 => wire[i].packet.group_number = wire[1].packet.group_number
    BY DEF CountersMatchWire
  <2>1. f.sequence_number = Len(f.media_packets) /\ f.sequence_number < k
    BY DEF StreamInv, GroupInv, Open
  <2> QED
    BY <2>1 DEF StreamInv, WireInv
<1> QED
  BY <1>1, StreamAlways, PTL

\* What is regained of a chunk: what its packet holds, or all the repair has bytes for.
LEMMA RegainedBytes ==
  ASSUME StreamInv, NEW j \in DOMAIN rebuilt
  PROVE  /\ given[j] \in Nat /\ f.packet_size \in Nat /\ rebuilt[j].bytes \in Nat
         /\ j \in DOMAIN given /\ OnTheWire(rebuilt[j].bytes)
         /\ Regained(j) \in {given[j], f.packet_size, rebuilt[j].bytes}
         /\ given[j] <= f.packet_size => Regained(j) \in {given[j], rebuilt[j].bytes}
         /\ Regained(j) <= given[j]
<1>1. f.packet_size \in Nat
  BY DEF StreamInv, TypeInv, TypeOK, FecType
<1>2. /\ j \in DOMAIN given /\ given[j] \in Nat /\ OnTheWire(rebuilt[j].bytes)
      /\ stored[j].len = IF given[j] < f.packet_size THEN given[j] ELSE f.packet_size
  BY DEF StreamInv, ByteInv
<1>3. rebuilt[j].bytes \in Nat
  BY <1>1, <1>2 DEF StreamInv, ByteInv, OnTheWire
<1> DEFINE S == {stored[j].len, rebuilt[j].bytes}
<1>4. Min(S) \in S /\ \A y \in S : Min(S) <= y
  <2>1. S \subseteq Nat /\ S # {}
    BY <1>1, <1>2, <1>3
  <2> HIDE DEF S
  <2> QED
    BY <2>1, MinOf
<1>5. /\ Regained(j) \in {stored[j].len, rebuilt[j].bytes}
      /\ Regained(j) <= stored[j].len
  BY <1>4 DEF Regained
<1> QED
  BY <1>1, <1>2, <1>3, <1>5

(***************************************************************************)
(* A repair costs no byte that was sent: of a lost chunk all is regained   *)
(* but what exceeds packet_size or, with PacketByFEC, the shortest chunk   *)
(* of its group.  For every entry point, order of lengths and failure.     *)
(***************************************************************************)
THEOREM BytesKept == Spec => []RepairKeepsBytes
<1>1. StreamInv => RepairKeepsBytes
  <2> SUFFICES ASSUME StreamInv, NEW j \in DOMAIN rebuilt
               PROVE  Regained(j) >= Min({given[j], Carried})
    BY DEF RepairKeepsBytes
  <2>1. /\ given[j] \in Nat /\ f.packet_size \in Nat /\ rebuilt[j].bytes \in Nat
        /\ OnTheWire(rebuilt[j].bytes)
        /\ Regained(j) \in {given[j], f.packet_size, rebuilt[j].bytes}
    BY RegainedBytes
  <2>2. Carried \in Nat /\ Carried <= f.packet_size /\ Carried <= rebuilt[j].bytes
    <3>1. CASE api = "SendByUlpfec"
      BY <2>1, <3>1 DEF Carried, OnTheWire
    <3>2. CASE api # "SendByUlpfec"
      <4> DEFINE S == {f.packet_size} \union {given[i] : i \in DOMAIN given}
      <4>1. S \subseteq Nat /\ S # {}
        BY <2>1 DEF StreamInv, ByteInv
      <4>2. f.packet_size \in S /\ rebuilt[j].bytes \in S
        BY <2>1, <3>2 DEF OnTheWire
      <4>3. Carried = Min(S)
        BY <3>2 DEF Carried
      <4> HIDE DEF S
      <4>4. Min(S) \in S /\ \A y \in S : Min(S) <= y
        BY <4>1, MinOf
      <4> QED
        BY <4>1, <4>2, <4>3, <4>4
    <3> QED
      BY <3>1, <3>2
  <2> DEFINE T == {given[j], Carried}
  <2>3. Min(T) \in T /\ \A y \in T : Min(T) <= y
    <3>1. T \subseteq Nat /\ T # {}
      BY <2>1, <2>2
    <3> HIDE DEF T
    <3> QED
      BY <3>1, MinOf
  <2>4. Min(T) \in Nat /\ Min(T) <= given[j] /\ Min(T) <= Carried
    BY <2>1, <2>2, <2>3
  <2> HIDE DEF T
  <2>5. Regained(j) >= Min(T)
    BY <2>1, <2>2, <2>4
  <2> QED
    BY <2>5 DEF T
<1> QED
  BY <1>1, StreamAlways, PTL

(***************************************************************************)
(* What SendByUlpfec sends is filled up: every lost chunk no longer than   *)
(* the first one, which set packet_size, is regained whole, also in a      *)
(* group with short chunks.  Of PacketByFEC the run cut_repair refutes it. *)
(***************************************************************************)
THEOREM UlpfecFills == Spec => [](api = "SendByUlpfec" => LastPacketIsFilled)
<1>1. StreamInv => (api = "SendByUlpfec" => LastPacketIsFilled)
  <2> SUFFICES ASSUME StreamInv, api = "SendByUlpfec", NEW j \in DOMAIN rebuilt,
                      given[j] <= f.packet_size
               PROVE  Regained(j) = given[j]
    BY DEF LastPacketIsFilled
  <2>1. /\ given[j] \in Nat /\ f.packet_size \in Nat
        /\ rebuilt[j].bytes = f.packet_size
        /\ Regained(j) \in {given[j], rebuilt[j].bytes} /\ Regained(j) <= given[j]
    BY RegainedBytes DEF OnTheWire
  <2> QED
    BY <2>1
<1> QED
  BY <1>1, StreamAlways, PTL

(***************************************************************************)
(* A receiver that follows headers and payloads computes what was given to *)
(* the encoder, for every entry point, shape and mask type, any run of     *)
(* lost packets and also with packets whose sendto failed.  A failed       *)
(* sendto of SendByUlpfec leaves a group that grows for as long as chunks  *)
(* come: the result is for as long as the sequence numbers of its packets  *)
(* fit their 8 bits.                                                       *)
(***************************************************************************)
THEOREM RebuiltExact == Spec => [](NumbersSuffice => RepairIsExact)
<1> DEFINE I == StreamInv /\ (NumbersSuffice => MediaInv /\ RepairIsExact)
<1>1. Init => I
  BY StreamInit
<1>2. I /\ [Next]_vars => I'
  <2> SUFFICES ASSUME I, [Next]_vars PROVE I'
    OBVIOUS
  <2>1. StreamInv'
    BY StreamStep
  <2>2. ASSUME NumbersSuffice' PROVE MediaInv' /\ RepairIsExact'
    <3>1. MediaInv /\ RepairIsExact
      BY <2>2, NumbersRunOut DEF StreamInv
    <3>2. MediaInv'
      BY <2>2, <3>1, MediaStep DEF StreamInv
    <3>3. RepairIsExact'
      BY <3>1, ExactStep DEF StreamInv
    <3> QED
      BY <3>2, <3>3
  <2> QED
    BY <2>1, <2>2
<1>3. I => (NumbersSuffice => RepairIsExact)
  OBVIOUS
<1> QED
  BY <1>1, <1>2, <1>3, PTL DEF Spec

\* The invariant for groups none of whose packets a failing sendto keeps back.
LEMMA CoverAlways == Spec => [](StreamInv /\ CoverInv)
<1>1. Init => StreamInv /\ CoverInv
  <2> SUFFICES ASSUME Init PROVE CoverInv
    BY StreamInit
  <2>1. phase = "send" /\ Arrived = {} /\ f.sequence_number = 0
    BY DEF Init, Arrived, NewForwardErrorCorrection
  <2>2. 0 .. 0 - 1 = {}
    OBVIOUS
  <2> QED
    BY <2>1, <2>2 DEF CoverInv, FecOut
<1>2. StreamInv /\ CoverInv /\ [Next]_vars => (StreamInv /\ CoverInv)'
  BY StreamStep, CoverStep DEF StreamInv
<1> QED
  BY <1>1, <1>2, PTL DEF Spec

\* A receiver that is stuck misses nothing, if the mask rows cover the runs they are
\* made for: what it misses would be a set that no row has a single packet of.
LEMMA StuckMissesNothing ==
  ASSUME StreamInv, CoverInv, failures = 0, RunsCovered(f.fec_mask_type, k, r)
  PROVE  CoveredLossRepaired
<1> SUFFICES ASSUME phase = "repair", Repairable = {}, missing # {},
                    Covered(Cardinality(missing \union DOMAIN rebuilt))
             PROVE  FALSE
  BY DEF CoveredLossRepaired
<1> DEFINE rows == MaskRows(f.fec_mask_type, k, r)
<1>1. RowsOut /\ IsRun(missing \union DOMAIN rebuilt)
  BY DEF CoverInv
<1>2. PICK first \in 0 .. k - 1 : \E n \in 1 .. r :
        first + n <= k /\ missing \union DOMAIN rebuilt = first .. first + n - 1
  BY <1>1 DEF IsRun
<1>3. PICK n \in 1 .. r :
        first + n <= k /\ missing \union DOMAIN rebuilt = first .. first + n - 1
  BY <1>2
<1>4. k \in 1 .. 16 /\ r \in 1 .. 16
  BY ShapeOk DEF StreamInv
<1>5. Cardinality(first .. first + n - 1) = n
  <2> DEFINE last == first + n - 1
  <2>1. first \in Int /\ last \in Int /\ first <= last /\ last - first + 1 = n
    BY <1>4
  <2> HIDE DEF last
  <2>2. Cardinality(first .. last) = IF first > last THEN 0 ELSE last - first + 1
    BY <2>1, FS_Interval
  <2> QED
    BY <2>1, <2>2 DEF last
<1>6. n = 1 \/ f.fec_mask_type = "kFecMaskBursty" \/ k > 12
  BY <1>3, <1>5 DEF Covered
<1>7. Peelable(rows, first .. first + n - 1)
  BY <1>3, <1>6 DEF RunsCovered
<1>8. missing \in (SUBSET (first .. first + n - 1)) \ {{}}
  BY <1>3
<1>9. PICK i \in DOMAIN rows : \E j \in missing : rows[i] \intersect missing = {j}
  BY <1>7, <1>8 DEF Peelable
<1>10. PICK j \in missing : rows[i] \intersect missing = {j}
  BY <1>9
<1>11. i \in 0 .. r - 1
  BY <1>9 DEF MaskRows
<1>12. PICK p \in Arrived : p.packet.packet_mask = rows[i]
  BY <1>1, <1>11 DEF RowsOut
<1> HIDE DEF rows
<1>13. Repairs(p, j)
  BY <1>10, <1>12 DEF Repairs, IsFec
<1> QED
  BY <1>10, <1>12, <1>13 DEF Repairable

(***************************************************************************)
(* With the interleaved masks of groups of more than 12 media packets,     *)
(* every burst of up to r lost packets is repaired, whatever the entry     *)
(* point, as long as no sendto fails.  Nothing is assumed of the tables.   *)
(***************************************************************************)
THEOREM BurstsRepaired == Spec => [](failures = 0 /\ k > 12 => CoveredLossRepaired)
<1>1. StreamInv /\ CoverInv => (failures = 0 /\ k > 12 => CoveredLossRepaired)
  <2> SUFFICES ASSUME StreamInv, CoverInv, failures = 0, k > 12 PROVE CoveredLossRepaired
    OBVIOUS
  <2>1. k \in 13 .. 16 /\ r \in 1 .. k
    BY ShapeOk DEF StreamInv
  <2>2. f.fec_mask_type \in FecMaskType
    BY DEF StreamInv, TypeInv, TypeOK, FecType
  <2>3. RunsCovered(f.fec_mask_type, k, r)
    BY <2>1, <2>2, InterleavedCovers
  <2> QED
    BY <2>3, StuckMissesNothing
<1> QED
  BY <1>1, CoverAlways, PTL

(***************************************************************************)
(* When the rows of the mask tables cover single losses, and the bursty    *)
(* ones runs of up to r packets, a receiver repairs every such loss in     *)
(* every group of the stream, as long as no sendto fails.  That the tables *)
(* do, TLC computes from their bytes.                                      *)
(***************************************************************************)
THEOREM LossesRepaired ==
  ASSUME TablesCover PROVE Spec => [](failures = 0 => CoveredLossRepaired)
<1>1. StreamInv /\ CoverInv => (failures = 0 => CoveredLossRepaired)
  <2> SUFFICES ASSUME StreamInv, CoverInv, failures = 0 PROVE CoveredLossRepaired
    OBVIOUS
  <2>1. k \in 1 .. 16 /\ r \in 1 .. k
    BY ShapeOk DEF StreamInv
  <2>2. f.fec_mask_type \in FecMaskType /\ shape \in Shapes
    BY DEF StreamInv, TypeInv, TypeOK, FecType
  <2>3. CASE k <= 12
    <3>1. RunsCovered(f.fec_mask_type, k, r)
      BY <2>2, <2>3 DEF TablesCover, k, r
    <3> QED
      BY <3>1, StuckMissesNothing
  <2>4. CASE k > 12
    <3>1. k \in 13 .. 16
      BY <2>1, <2>4
    <3>2. RunsCovered(f.fec_mask_type, k, r)
      BY <2>1, <2>2, <3>1, InterleavedCovers
    <3> QED
      BY <3>2, StuckMissesNothing
  <2> QED
    BY <2>1, <2>3, <2>4
<1> QED
  BY <1>1, CoverAlways, PTL
=============================================================================
