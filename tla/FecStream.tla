------------------------------ MODULE FecStream ------------------------------
(***************************************************************************)
(* One stream of chunks through an entry point of the encoder, group after *)
(* group, and a receiver that repairs losses with nothing but the packets' *)
(* headers and payloads.  The receiver is not part of this repository's    *)
(* sources; it is the peeling decoder the ULPFEC masks are made for, and   *)
(* serves as the reference the encoder is measured against.                *)
(***************************************************************************)
EXTENDS ForwardErrorCorrection, FiniteSetsExt

CONSTANTS
  Apis,           \* the entry points to explore
  MaskTypes,      \* the values of the static fec_mask_type to explore
  Shapes,         \* the pairs <<k, r>> a caller may use
  FullLen,        \* length of a whole chunk
  ShortLen,       \* length of the chunk that ends a file
  MaxShort,       \* bound: chunks of length ShortLen
  MaxGroups,      \* bound: groups encoded
  MaxCalls,       \* bound: calls of the entry point
  MaxFailures     \* bound: calls in which a sendto fails

ASSUME ApisAssumption   == Apis \subseteq {"PacketByFEC", "OldPacketByFEC", "SendByUlpfec"}
ASSUME MaskAssumption   == MaskTypes \subseteq FecMaskType
ASSUME ShapesAssumption == Shapes \subseteq {s \in (1 .. 16) \X (1 .. 16) : s[2] <= s[1]}
ASSUME LenAssumption    == FullLen \in Nat /\ ShortLen \in 0 .. FullLen - 1
ASSUME BoundAssumption  == {MaxShort, MaxGroups, MaxCalls, MaxFailures} \subseteq Nat

VARIABLES
  api,       \* the entry point of this stream
  f,         \* the encoder
  shape,     \* <<k, r>> of this stream
  phase,     \* "send": filling a group, "lose": a group is out, "repair"
  wire,      \* the packets sent of the group under way, in order, with the payload
             \* bytes that were really passed on
  given,     \* history: sequence number -> length of the chunk given for it in this group
  stored,    \* history: sequence number -> piece of that chunk that its packet holds
  missing,   \* sequence numbers of the media packets not (yet) available
  rebuilt,   \* sequence number -> payload the receiver computed for it
  calls,     \* calls of the entry point so far
  shorts,    \* how many of them had a short chunk
  failures   \* in how many of them a sendto failed

stream == <<api, shape>>
counts == <<calls, shorts, failures>>
vars   == <<stream, f, phase, wire, given, stored, missing, rebuilt, counts>>

k == shape[1]
r == shape[2]

Init ==
  /\ api \in Apis
  /\ f \in {NewForwardErrorCorrection(t) : t \in MaskTypes}
  /\ shape \in Shapes
  /\ phase = "send"
  /\ wire = << >>
  /\ given = << >> /\ stored = << >>
  /\ missing = {}
  /\ rebuilt = << >>
  /\ calls = 0 /\ shorts = 0 /\ failures = 0

\* A history with an entry for the packet that a call is about to make.
Noting(history, entry) ==
  [j \in DOMAIN history \union {f.sequence_number} |->
     IF j = f.sequence_number THEN entry ELSE history[j]]

\* A call with a chunk of length len leaves the encoder as g and sends packets with
\* that many bytes of payload each.
Emit(len, g, packets, bytes) ==
  /\ phase = "send"
  /\ calls < MaxCalls /\ f.group_number < MaxGroups
  /\ len = ShortLen => shorts < MaxShort
  /\ f' = g
  /\ wire' = wire \o [i \in 1 .. Len(packets) |-> [packet |-> packets[i], bytes |-> bytes]]
  /\ given' = Noting(given, len)
  /\ stored' = Noting(stored, Piece(calls, Min({len, g.packet_size})))
  /\ phase' = IF g.group_number = f.group_number THEN "send" ELSE "lose"
  /\ calls' = calls + 1
  /\ shorts' = IF len = ShortLen THEN shorts + 1 ELSE shorts
  /\ UNCHANGED <<stream, missing, rebuilt>>

\* One call of PacketByFEC and the caller's loop that empties buffer_packets.  Every
\* packet is serialized with the length of the chunk just read.
Packetize(len) ==
  LET g == CASE api = "PacketByFEC"    -> PacketByFEC(f, calls, len, k, r)
             [] api = "OldPacketByFEC" -> OldPacketByFEC(f, calls, len, k, r)
  IN  /\ api # "SendByUlpfec"
      /\ Emit(len, [g EXCEPT !.buffer_packets = << >>], g.buffer_packets, len)
      /\ UNCHANGED failures

\* The calls of sendto in a call of SendByUlpfec that none of them stops.
Sendtos == IF Len(f.media_packets) = k - 1 THEN 1 + r ELSE 1

\* One call of SendByUlpfec, in which the sendto after `sent` successful ones fails.  A
\* short chunk is taken to be the last one.
SendUlpfec(len, sent) ==
  LET c == SendByUlpfec(f, calls, len, k, r, sent)
  IN  /\ api = "SendByUlpfec"
      /\ ~f.fec_last_use
      /\ sent < Sendtos => failures < MaxFailures
      /\ Emit(len, c.fec, c.packets, UlpfecBytes(c.fec, len))
      /\ failures' = IF sent < Sendtos THEN failures + 1 ELSE failures

-----------------------------------------------------------------------------
(* The network and the receiver. *)

Arrived       == {wire[i] : i \in DOMAIN wire}
IsFec(p)      == p.packet.packet_mask # {}
IsMedia(p, j) == ~IsFec(p) /\ p.packet.sequence_number = j

\* Media packets of the group that were never on the wire.
Unsent == {j \in 0 .. k - 1 : \A p \in Arrived : ~IsMedia(p, j)}

\* The group will not be finished, but some of its FEC packets are out.
GiveUp ==
  /\ phase = "send"
  /\ \E p \in Arrived : IsFec(p)
  /\ phase' = "lose"
  /\ UNCHANGED <<stream, f, wire, given, stored, missing, rebuilt, counts>>

\* The network loses media packets first .. first + n - 1 of the group.
Lose(first, n) ==
  /\ phase = "lose"
  /\ phase' = "repair"
  /\ missing' = Unsent \union (first .. first + n - 1)
  /\ UNCHANGED <<stream, f, wire, given, stored, rebuilt, counts>>

\* What the receiver holds for media packet j: it arrived, or it was rebuilt.
Available(j) ==
  IF j \in DOMAIN rebuilt
  THEN rebuilt[j]
  ELSE LET p == CHOOSE q \in Arrived : IsMedia(q, j) IN [data |-> p.packet.data, bytes |-> p.bytes]

\* A FEC packet, as its header describes it, with a single missing packet.
Repairs(p, j) == IsFec(p) /\ p.packet.packet_mask \intersect missing = {j}

Repairable == {j \in missing : \E p \in Arrived : Repairs(p, j)}

\* Xor the packet with the others in its mask.  Only the bytes all of them carry
\* are of use.
Recover ==
  /\ phase = "repair"
  /\ Repairable # {}
  /\ LET j == Min(Repairable)
         p == CHOOSE q \in Arrived : Repairs(q, j)
         others == p.packet.packet_mask \ {j}
         known == {x \in UNION {Available(i).data : i \in others} :
                     Cardinality({i \in others : x \in Available(i).data}) % 2 = 1}
         new == [data  |-> XorPayloads(known, p.packet.data),
                 bytes |-> Min({p.bytes} \union {Available(i).bytes : i \in others})]
     IN  /\ rebuilt' = [i \in DOMAIN rebuilt \union {j} |-> IF i = j THEN new ELSE rebuilt[i]]
         /\ missing' = missing \ {j}
  /\ UNCHANGED <<stream, f, phase, wire, given, stored, counts>>

\* Nothing more can be done for this group; the encoder has begun another.
NextGroup ==
  /\ phase = "repair"
  /\ Repairable = {}
  /\ wire[1].packet.group_number # f.group_number % 256
  /\ phase' = "send"
  /\ wire' = << >>
  /\ given' = << >> /\ stored' = << >>
  /\ missing' = {}
  /\ rebuilt' = << >>
  /\ UNCHANGED <<stream, f, counts>>

Next ==
  \/ \E len \in {FullLen, ShortLen} : Packetize(len)
  \/ \E len \in {FullLen, ShortLen} : \E sent \in 0 .. Sendtos : SendUlpfec(len, sent)
  \/ GiveUp
  \/ \E first \in 0 .. k - 1 : \E n \in 1 .. Min({r, k - first}) : Lose(first, n)
  \/ Recover
  \/ NextGroup

Spec == Init /\ [][Next]_vars

-----------------------------------------------------------------------------
(* The type invariant: the encoder between two calls, wire and receiver. *)
TypeOK ==
  /\ f \in FecType(Nat)
  /\ f.buffer_packets = << >>
  /\ api = "PacketByFEC" => f.fec_packets = << >>
  /\ api \in Apis
  /\ shape \in Shapes
  /\ phase \in {"send", "lose", "repair"}
  /\ missing \subseteq 0 .. k - 1
  /\ DOMAIN rebuilt \subseteq 0 .. k - 1

\* SendByUlpfec after its last chunk, or with a group that a failed sendto spoilt.
Spoilt == api = "SendByUlpfec" /\ (failures > 0 \/ f.fec_last_use)

(***************************************************************************)
(* Between calls the encoder's group counters agree with what was sent of  *)
(* the group, and fewer than k media packets are without FEC packets: also *)
(* at the end of a file, whose last group may never fill up.               *)
(***************************************************************************)
CountersMatchWire ==
  api # "OldPacketByFEC" /\ ~Spoilt =>
    /\ f.sequence_number = Len(f.media_packets)
    /\ f.sequence_number < k
    /\ phase = "send" => [i \in DOMAIN wire |-> wire[i].packet] = f.media_packets
    /\ \A i \in DOMAIN wire :
         /\ wire[i].packet.sequence_number = i - 1
         /\ i > 1 => wire[i].packet.group_number = wire[1].packet.group_number

(***************************************************************************)
(* What EncodeFec demands of its caller holds whenever the next call would *)
(* reach it: fec_packets is empty (its RTC_DCHECK), and sequence_number    *)
(* counts the media packets, so that the header masks are selected right.  *)
(* For all entry points, whatever sendto failed before.                    *)
(***************************************************************************)
EncodeFecDemands ==
  Len(f.media_packets) = k - 1 /\ ~(api = "SendByUlpfec" /\ f.fec_last_use) =>
    f.fec_packets = << >> /\ f.sequence_number = k - 1

(***************************************************************************)
(* The receiver never reconstructs wrong data: what it computes for a lost *)
(* packet, or for one whose sendto failed, from FEC headers and payloads,  *)
(* is the piece of input that the encoder put into that packet.            *)
(***************************************************************************)
RepairIsExact == \A j \in DOMAIN rebuilt : rebuilt[j].data = {stored[j]}

\* The bytes of chunk j that are in its packet and that the receiver could rebuild.
Regained(j) == Min({stored[j].len, rebuilt[j].bytes})

\* The bytes of payload that every packet of the group has on the wire.
Carried ==
  IF api = "SendByUlpfec" THEN f.packet_size
                          ELSE Min({f.packet_size} \union {given[i] : i \in DOMAIN given})

(***************************************************************************)
(* A repair costs no byte that was sent.  Of a lost chunk, as long as it   *)
(* was when the encoder was given it, all is regained but what exceeds the *)
(* bytes every packet of the group carries: with SendByUlpfec, which fills *)
(* up what it sends, packet_size; with PacketByFEC, whose packets are      *)
(* serialized with the length of the chunk at hand, the shortest chunk of  *)
(* the group, if that is less.                                             *)
(***************************************************************************)
RepairKeepsBytes == \A j \in DOMAIN rebuilt : Regained(j) >= Min({given[j], Carried})

(***************************************************************************)
(* The packet size is recorded so that the last packet can be filled up    *)
(* (comment in PacketByFEC): a short chunk costs the other chunks of its   *)
(* group nothing, and every lost chunk that fits into a packet is regained *)
(* whole.                                                                  *)
(***************************************************************************)
LastPacketIsFilled ==
  \A j \in DOMAIN rebuilt : given[j] <= f.packet_size => Regained(j) = given[j]

\* The losses a mask is made for: any single packet, and with bursty or
\* interleaved masks a run of at most r consecutive packets.
Covered(n) == n = 1 \/ f.fec_mask_type = "kFecMaskBursty" \/ k > 12

\* The tables hold such masks.  Groups of more than 12 media packets have no table.
TablesCover ==
  \A t \in FecMaskType : \A s \in Shapes : s[1] <= 12 => RunsCovered(t, s[1], s[2])

(***************************************************************************)
(* When the receiver is stuck, nothing is missing that the masks promise   *)
(* to cover: one lost media packet is always repaired, and with the bursty *)
(* tables and the interleaved masks every burst of up to r packets is.     *)
(***************************************************************************)
CoveredLossRepaired ==
  phase = "repair" /\ Repairable = {} /\ Covered(Cardinality(missing \union DOMAIN rebuilt))
    => missing = {}

(***************************************************************************)
(* When the list holds k packets, the encoding function is run (comment in *)
(* SendByUlpfec): a full list has its FEC packets.                         *)
(***************************************************************************)
FullGroupIsEncoded == Len(f.media_packets) >= k => f.fec_packets # << >>
=============================================================================
