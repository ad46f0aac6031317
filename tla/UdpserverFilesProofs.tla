------------------------ MODULE UdpserverFilesProofs ------------------------
(***************************************************************************)
(* While a socket is open, the sender carries pieces of one file only.     *)
(*                                                                         *)
(* StartSending does not reset the encoder, so this rests on the life      *)
(* cycle: the sockets are closed before the threads of a start make room   *)
(* for those of the next, and none is opened again.  As long as a socket   *)
(* is open there has been one reader at most.                              *)
(***************************************************************************)
EXTENDS UdpserverOrderProofs

\* Everything in the encoder, the workers' hands and the queues is from files of F.
CarriesOnly(F) ==
  /\ fec \in FecType(F \X Nat)
  /\ \A c \in Channels :
       /\ sendPkt[c] # NoPacket => sendPkt[c].packet_to_send \in PacketType(F \X Nat)
       /\ \A i \in 1 .. Len(packetQueue[c]) :
            packetQueue[c][i].packet_to_send \in PacketType(F \X Nat)

\* No file has been read before there is a reader, nor by a reader that does not
\* know its file; a reader that does has read from no other.
ReadOnly(F) ==
  /\ workerThreads = 0 /\ gui.pc # "close" => F = {}
  /\ reader.pc = "path" => F = {}
  /\ reader.pc \in {"open", "loop", "scan", "read", "push", "notify"} => F \subseteq {reader.file}

SomeOpen == \E c \in Channels : sockets[c] = "open"

FileInv ==
  SomeOpen => \E F \in {{}} \union {{p} : p \in Paths} : CarriesOnly(F) /\ ReadOnly(F)

-----------------------------------------------------------------------------
(* Pieces *)

\* Packets with chunks of C are packets with chunks of any larger set.
LEMMA PacketTypeGrows ==
  ASSUME NEW C, NEW D, C \subseteq D PROVE PacketType(C) \subseteq PacketType(D)
<1>1. SUBSET [chunk : C, len : Nat] \subseteq SUBSET [chunk : D, len : Nat]
  <2>1. [chunk : C, len : Nat] \subseteq [chunk : D, len : Nat]
    OBVIOUS
  <2> QED
    BY <2>1
<1> DEFINE S == SUBSET [chunk : C, len : Nat]
           T == SUBSET [chunk : D, len : Nat]
<1>2. S \subseteq T
  BY <1>1
<1> HIDE DEF S, T
<1>3. [packet_mask : SUBSET Nat, group_number : UInt8, sequence_number : UInt8, k : UInt8,
       r : UInt8, data : S] \subseteq
      [packet_mask : SUBSET Nat, group_number : UInt8, sequence_number : UInt8, k : UInt8,
       r : UInt8, data : T]
  BY <1>2
<1> QED
  BY <1>3 DEF PacketType, S, T

\* The same for the encoder.
LEMMA FecTypeGrows ==
  ASSUME NEW C, NEW D, C \subseteq D PROVE FecType(C) \subseteq FecType(D)
<1> DEFINE S == Seq(PacketType(C))
           T == Seq(PacketType(D))
<1>1. S \subseteq T
  <2> SUFFICES ASSUME NEW s \in S PROVE s \in T
    OBVIOUS
  <2>1. /\ Len(s) \in Nat /\ s = [i \in 1 .. Len(s) |-> s[i]]
        /\ \A i \in 1 .. Len(s) : s[i] \in PacketType(C)
    OBVIOUS
  <2>2. \A i \in 1 .. Len(s) : s[i] \in PacketType(D)
    BY <2>1, PacketTypeGrows
  <2>3. s \in [1 .. Len(s) -> PacketType(D)]
    BY <2>1, <2>2
  <2> QED
    BY <2>1, <2>3, SeqDef
<1> HIDE DEF S, T
<1>2. [fec_first_use : BOOLEAN, fec_last_use : BOOLEAN, fec_mask_type : FecMaskType,
       packet_size : Nat, media_packets : S, buffer_packets : S, fec_packets : S,
       group_number : Nat, sequence_number : Nat] \subseteq
      [fec_first_use : BOOLEAN, fec_last_use : BOOLEAN, fec_mask_type : FecMaskType,
       packet_size : Nat, media_packets : T, buffer_packets : T, fec_packets : T,
       group_number : Nat, sequence_number : Nat]
  BY <1>1
<1> QED
  BY <1>2 DEF FecType, S, T

\* A larger set of files carries as well.
LEMMA CarriesGrows ==
  ASSUME NEW F, NEW G, F \subseteq G, CarriesOnly(F) PROVE CarriesOnly(G)
<1>1. F \X Nat \subseteq G \X Nat
  OBVIOUS
<1>2. FecType(F \X Nat) \subseteq FecType(G \X Nat)
  BY <1>1, FecTypeGrows
<1>3. PacketType(F \X Nat) \subseteq PacketType(G \X Nat)
  BY <1>1, PacketTypeGrows
<1> QED
  BY <1>2, <1>3 DEF CarriesOnly

\* The chunk of every piece in a packet of files F is from a file of F.
LEMMA PieceFile ==
  ASSUME NEW F, NEW p \in PacketType(F \X Nat), NEW x \in p.data PROVE x.chunk[1] \in F
<1>1. p.data \in SUBSET [chunk : F \X Nat, len : Nat]
  BY DEF PacketType
<1>2. x.chunk \in F \X Nat
  BY <1>1
<1> QED
  BY <1>2

-----------------------------------------------------------------------------
(* The steps *)

\* Every step but reading a chunk only moves what is on its way.
LEMMA CarriesStep ==
  ASSUME Inv, Next, ~ReadChunk, NEW F, CarriesOnly(F) PROVE CarriesOnly(F)'
<1> DEFINE T == PacketType(F \X Nat)
<1>0. /\ sendPkt \in [Channels -> SendPacketType \union {NoPacket}]
      /\ packetQueue \in [Channels -> Seq(SendPacketType)]
      /\ fec \in FecType(F \X Nat)
  BY DEF Inv, TypeOK, CarriesOnly
<1>1. ASSUME NEW c \in Channels
      PROVE  /\ sendPkt[c] # NoPacket => sendPkt[c].packet_to_send \in T
             /\ \A i \in 1 .. Len(packetQueue[c]) : packetQueue[c][i].packet_to_send \in T
  BY DEF CarriesOnly
<1>2. PushPacket => /\ reader.pc = "push" /\ fec.buffer_packets # << >>
                    /\ fec' = [fec EXCEPT !.buffer_packets = Tail(@)]
  BY DEF PushPacket, ReaderAt, Inv, ReaderInv
<1>3. fec' \in FecType(F \X Nat)
  <2>1. CASE PushPacket
    BY <1>0, <1>2, <2>1, PopType
  <2>2. CASE fileReaderTask /\ ~PushPacket
    <3>1. fec' = fec
      BY <2>2 DEF fileReaderTask, ReadPath, OpenFile, ReaderLoop, ScanHit, ScanMiss, ScanEnd,
                  ReadFails, NotifyWorker, stream
    <3> QED
      BY <1>0, <3>1
  <2>3. CASE User \/ Gui \/ (\E c \in Channels : socketWorkerTask(c)) \/ Terminated
    <3>1. fec' = fec
      BY <2>3, UserFrame, GuiFrame, WorkerFrame DEF Terminated, vars, members, stream, Inv
    <3> QED
      BY <1>0, <3>1
  <2> QED
    BY <2>1, <2>2, <2>3 DEF Next
<1> HIDE DEF T
<1>4. ASSUME NEW c \in Channels
      PROVE  /\ sendPkt'[c] # NoPacket => sendPkt'[c].packet_to_send \in T
             /\ \A i \in 1 .. Len(packetQueue'[c]) : packetQueue'[c][i].packet_to_send \in T
  <2>0. packetQueue[c] \in Seq(SendPacketType)
    BY <1>0
  <2>1. CASE Quiet
    <3>1. packetQueue' = packetQueue
      BY <2>1 DEF Quiet
    <3>2. CASE sendPkt'[c] = sendPkt[c]
      BY <1>1, <3>1, <3>2
    <3>3. CASE /\ sendPkt[c] \in SendPacketType
               /\ sendPkt'[c] = [sendPkt[c] EXCEPT !.seq = globalSeqCounter]
      <4>1. sendPkt'[c].packet_to_send = sendPkt[c].packet_to_send
        BY <3>3 DEF SendPacketType
      <4>2. sendPkt[c] # NoPacket
        BY <3>3 DEF SendPacketType, NoPacket
      <4> QED
        BY <1>1, <3>1, <4>1, <4>2
    <3> QED
      BY <2>1, <3>2, <3>3 DEF Quiet
  <2>2. CASE StartReader
    <3>1. packetQueue'[c] = << >> /\ sendPkt' = sendPkt
      BY <2>2 DEF StartReader, ClearedQueues, workers
    <3> QED
      BY <1>1, <3>1
  <2>3. CASE PushPacket
    <3> DEFINE p == SendPacket(Head(fec.buffer_packets), reader.payload, reader.target, pushed + 1)
    <3>1. p.packet_to_send \in T
      BY <1>0, <1>2, <2>3, PopType DEF SendPacket, T
    <3>2. p \in SendPacketType
      BY <2>3, PushedType
    <3> HIDE DEF p
    <3>3. packetQueue'[c] = packetQueue[c] \/ packetQueue'[c] = Append(packetQueue[c], p)
      BY <1>0, <2>3 DEF PushPacket, PushBack, p
    <3>4. sendPkt' = sendPkt
      BY <2>3 DEF PushPacket, workers
    <3>5. \A i \in 1 .. Len(packetQueue'[c]) : packetQueue'[c][i].packet_to_send \in T
      BY <1>1, <2>0, <3>1, <3>2, <3>3
    <3> QED
      BY <1>1, <3>4, <3>5
  <2>4. ASSUME NEW d \in Channels, Takes(d)
        PROVE  /\ sendPkt'[c] # NoPacket => sendPkt'[c].packet_to_send \in T
               /\ \A i \in 1 .. Len(packetQueue'[c]) : packetQueue'[c][i].packet_to_send \in T
    <3>1. CASE c = d
      <4>1. /\ packetQueue[c] # << >>
            /\ sendPkt'[c] = Head(packetQueue[c]) /\ packetQueue'[c] = Tail(packetQueue[c])
        BY <1>0, <2>4, <3>1 DEF Takes
      <4>2. sendPkt'[c] = packetQueue[c][1] /\ 1 \in 1 .. Len(packetQueue[c])
        BY <2>0, <4>1
      <4>3. \A i \in 1 .. Len(packetQueue'[c]) :
              packetQueue'[c][i] = packetQueue[c][i + 1] /\ i + 1 \in 1 .. Len(packetQueue[c])
        BY <2>0, <4>1
      <4> QED
        BY <1>1, <4>2, <4>3
    <3>2. CASE c # d
      BY <1>0, <1>1, <2>4, <3>2 DEF Takes
    <3> QED
      BY <3>1, <3>2
  <2>5. ASSUME NEW d \in Channels, Leaves(d)
        PROVE  /\ sendPkt'[c] # NoPacket => sendPkt'[c].packet_to_send \in T
               /\ \A i \in 1 .. Len(packetQueue'[c]) : packetQueue'[c][i].packet_to_send \in T
    BY <1>0, <1>1, <2>5 DEF Leaves
  <2> QED
    BY <2>1, <2>2, <2>3, <2>4, <2>5, ChannelStep
<1> QED
  BY <1>3, <1>4 DEF CarriesOnly, T

\* Reading a chunk adds a piece of the reader's file.
LEMMA CarriesRead ==
  ASSUME Inv, ReadChunk, NEW p, p = reader.file, CarriesOnly({p}) PROVE CarriesOnly({p})'
<1> DEFINE C == {p} \X Nat
           rest      == FileSize[reader.file] - reader.pos
           bytesRead == IF rest < readChunkSize THEN rest ELSE readChunkSize
           size      == flightpkt_header_size + bytesRead
<1>1. /\ reader.file \in Paths /\ reader.pos \in Nat /\ reader.pos < FileSize[reader.file]
      /\ FileSize[reader.file] \in Nat
  BY FileAssumption DEF ReadChunk, ReaderAt, Inv, ReaderInv, TypeOK, ReaderType
<1>2. size \in Nat /\ <<reader.file, reader.pos>> \in C /\ fec_k \in Nat /\ fec_r \in Nat
  BY <1>1, FecAssumption DEF flightpkt_header_size, readChunkSize
<1>3. fec' = PacketByFEC(fec, <<reader.file, reader.pos>>, size, fec_k, fec_r)
  BY DEF ReadChunk
<1>4. fec \in FecType(C)
  BY DEF CarriesOnly
<1> HIDE DEF size, C
<1>5. fec' \in FecType(C)
  BY <1>2, <1>3, <1>4, PacketByFECType
<1>6. UNCHANGED <<packetQueue, sendPkt>>
  BY DEF ReadChunk, workers
<1> QED
  BY <1>5, <1>6 DEF CarriesOnly, C

\* Neither reading nor any other step but the closing of the sockets lets a reader
\* come after another.
LEMMA ReadOnlyStep ==
  ASSUME Inv, Next, ~CloseSockets, NEW F, ReadOnly(F) PROVE ReadOnly(F)'
<1>0. /\ reader \in ReaderType /\ gui \in GuiType
      /\ workerThreads \in 0 .. SOCKET_POOL_SIZE + 1
      /\ gui.pc \in {"close", "clear"} => workerThreads = 0
  BY DEF Inv, TypeOK, ThreadInv
<1>1. CASE User
  <2>1. gui.pc = "idle" /\ UNCHANGED <<workerThreads, reader>>
    BY <1>1, UserFrame
  <2> QED
    BY <2>1 DEF ReadOnly
<1>2. CASE Gui
  <2>1. CASE StartReader
    <3>1. F = {}
      BY <1>0, <2>1 DEF StartReader, ReadOnly
    <3> QED
      BY <3>1 DEF ReadOnly
  <2>2. CASE JoinReader
    <3>1. gui'.pc = "close" /\ reader'.pc = "none"
      BY <1>0, <2>2 DEF JoinReader, Reader, GuiType
    <3> QED
      BY <3>1 DEF ReadOnly
  <2>3. CASE StartWorker
    <3>1. workerThreads' # 0 /\ UNCHANGED reader
      BY <1>0, <2>3 DEF StartWorker
    <3> QED
      BY <3>1 DEF ReadOnly
  <2>4. CASE WakeEnabled \/ StartWorkerFails \/ StopBegin \/ StopWakeState \/ StopWakeQueue
             \/ JoinWorker
    <3>1. gui.pc # "close" /\ UNCHANGED <<workerThreads, reader>>
      BY <2>4 DEF WakeEnabled, StartWorkerFails, StopBegin, StopWakeState, StopWakeQueue,
                  JoinWorker, members, lifecycle
    <3> QED
      BY <3>1 DEF ReadOnly
  <2> QED
    BY <1>2, <2>1, <2>2, <2>3, <2>4 DEF Gui
<1>3. CASE fileReaderTask
  <2>1. UNCHANGED <<workerThreads, gui>>
    BY <1>3, ReaderFrame
  <2>2. ASSUME reader' = Reader("done") PROVE ReadOnly(F)'
    BY <2>1, <2>2 DEF ReadOnly, Reader
  <2>3. ASSUME /\ reader.pc \in {"open", "loop", "scan", "read", "push", "notify"}
               /\ reader'.pc # "path" /\ reader'.file = reader.file
        PROVE  ReadOnly(F)'
    BY <2>1, <2>3 DEF ReadOnly
  <2>4. CASE ReadPath
    <3>1. F = {}
      BY <2>4 DEF ReadPath, ReaderAt, ReadOnly
    <3> QED
      BY <2>1, <3>1 DEF ReadOnly
  <2>5. CASE OpenFile
    BY <1>0, <2>2, <2>3, <2>5 DEF OpenFile, ReaderAt, ReaderAbort, ReaderType
  <2>6. CASE ReaderLoop
    BY <1>0, <2>2, <2>3, <2>6 DEF ReaderLoop, ReaderAt, ReaderType
  <2>7. CASE ScanHit
    BY <1>0, <2>3, <2>7 DEF ScanHit, ReaderAt, ReaderType
  <2>8. CASE ScanMiss
    BY <1>0, <2>3, <2>8 DEF ScanMiss, ReaderAt, ReaderType
  <2>9. CASE ScanEnd
    BY <1>0, <2>2, <2>3, <2>9 DEF ScanEnd, ReaderAt, ReaderType
  <2>10. CASE ReadChunk
    <3>1. reader'.pc = "push" /\ reader'.file = reader.file /\ reader.pc = "read"
      BY <2>10, ReadType DEF ReadChunk, ReaderAt, Inv, TypeOK
    <3> QED
      BY <2>3, <3>1
  <2>11. CASE ReadFails
    BY <2>2, <2>11 DEF ReadFails
  <2>12. CASE PushPacket
    BY <1>0, <2>3, <2>12 DEF PushPacket, ReaderAt, ReaderType
  <2>13. CASE NotifyWorker
    BY <1>0, <2>3, <2>13 DEF NotifyWorker, ReaderAt, ReaderType
  <2> QED
    BY <1>3, <2>4, <2>5, <2>6, <2>7, <2>8, <2>9, <2>10, <2>11, <2>12, <2>13 DEF fileReaderTask
<1>4. CASE (\E c \in Channels : socketWorkerTask(c)) \/ Terminated
  <2>1. UNCHANGED <<workerThreads, gui, reader>>
    BY <1>4, WorkerFrame DEF Terminated, vars, members, lifecycle, Inv
  <2> QED
    BY <2>1 DEF ReadOnly
<1> QED
  BY <1>1, <1>2, <1>3, <1>4 DEF Next

\* Every step keeps FileInv.
LEMMA FileStep ==
  Inv /\ FileInv /\ [Next]_vars => FileInv'
<1> SUFFICES ASSUME Inv, FileInv, [Next]_vars, SomeOpen'
             PROVE  (\E F \in {{}} \union {{p} : p \in Paths} : CarriesOnly(F) /\ ReadOnly(F))'
  BY DEF FileInv
<1>1. ~CloseSockets
  BY DEF CloseSockets, SomeOpen
<1>2. SomeOpen
  <2>1. UNCHANGED sockets
    <3>1. CASE Gui
      BY <1>1, <3>1 DEF Gui, WakeEnabled, StartReader, StartWorker, StartWorkerFails, StopBegin,
                        StopWakeState, StopWakeQueue, JoinWorker, JoinReader, members, lifecycle
    <3>2. CASE Next /\ ~Gui
      BY <3>2, UserFrame, ReaderFrame, WorkerFrame
      DEF Next, Terminated, vars, members, lifecycle, Inv
    <3>3. CASE UNCHANGED vars
      BY <3>3 DEF vars, members, lifecycle
    <3> QED
      BY <3>1, <3>2, <3>3
  <2> QED
    BY <2>1 DEF SomeOpen
<1>3. PICK F \in {{}} \union {{p} : p \in Paths} : CarriesOnly(F) /\ ReadOnly(F)
  BY <1>2 DEF FileInv
<1>4. CASE Next /\ ~ReadChunk
  <2>1. CarriesOnly(F)' /\ ReadOnly(F)'
    BY <1>1, <1>3, <1>4, CarriesStep, ReadOnlyStep
  <2> QED
    BY <2>1
<1>5. CASE Next /\ ReadChunk
  <2>1. PICK p \in Paths : p = reader.file
    BY <1>5 DEF ReadChunk, ReaderAt, Inv, ReaderInv
  <2>2. reader.pc = "read" /\ F \subseteq {p}
    BY <1>3, <1>5, <2>1 DEF ReadChunk, ReaderAt, ReadOnly
  <2>3. CarriesOnly({p})'
    BY <1>3, <1>5, <2>1, <2>2, CarriesGrows, CarriesRead
  <2>4. ReadOnly({p})
    BY <2>1, <2>2, ReaderListed DEF ReadOnly
  <2>5. ReadOnly({p})'
    BY <1>1, <1>5, <2>4, ReadOnlyStep
  <2> QED
    BY <2>3, <2>5
<1>6. CASE UNCHANGED vars
  <2>1. CarriesOnly(F)' /\ ReadOnly(F)'
    BY <1>3, <1>6
    DEF CarriesOnly, ReadOnly, vars, members, lifecycle, stream, workers
  <2> QED
    BY <2>1
<1> QED
  BY <1>4, <1>5, <1>6

\* Nothing is carried at first.
LEMMA FileInit == Init => FileInv
<1> SUFFICES ASSUME Init PROVE CarriesOnly({}) /\ ReadOnly({})
  BY DEF FileInv
<1>1. fec = NewForwardErrorCorrection("kFecMaskRandom") /\ "kFecMaskRandom" \in FecMaskType
  BY DEF Init, FecMaskType
<1>2. fec \in FecType({} \X Nat)
  BY <1>1, NewForwardErrorCorrectionType
<1>3. \A c \in Channels : sendPkt[c] = NoPacket /\ packetQueue[c] = << >>
  BY DEF Init
<1> QED
  BY <1>2, <1>3 DEF CarriesOnly, ReadOnly

\* What FileInv says of the pieces on the way.
LEMMA CarriedFiles ==
  ASSUME Inv, NEW F, CarriesOnly(F) PROVE FilesOnTheWay \subseteq F
<1> DEFINE T == PacketType(F \X Nat)
<1>1. ASSUME NEW s \in Seq(T) PROVE FilesOf(s) \subseteq F
  <2> SUFFICES ASSUME NEW i \in DOMAIN s, NEW x \in s[i].data PROVE x.chunk[1] \in F
    BY DEF FilesOf
  <2>1. s[i] \in T
    OBVIOUS
  <2> QED
    BY <2>1, PieceFile
<1>2. FilesOf(fec.media_packets) \subseteq F /\ FilesOf(fec.buffer_packets) \subseteq F
  BY <1>1 DEF CarriesOnly, FecType
<1>3. ASSUME NEW p, p.packet_to_send \in T PROVE FilesOfSend(p) \subseteq F
  <2>1. <<p.packet_to_send>> \in Seq(T)
    BY <1>3
  <2> QED
    BY <1>1, <2>1 DEF FilesOfSend
<1>4. ASSUME NEW c \in Channels, sendPkt[c] # NoPacket PROVE FilesOfSend(sendPkt[c]) \subseteq F
  BY <1>3, <1>4 DEF CarriesOnly
<1>5. ASSUME NEW c \in Channels, NEW i \in DOMAIN packetQueue[c]
      PROVE  FilesOfSend(packetQueue[c][i]) \subseteq F
  <2>1. packetQueue[c] \in Seq(SendPacketType)
    BY DEF Inv, TypeOK
  <2>2. i \in 1 .. Len(packetQueue[c])
    BY <2>1
  <2> QED
    BY <1>3, <2>2 DEF CarriesOnly
<1> DEFINE Held   == UNION {FilesOfSend(sendPkt[c]) : c \in {d \in Channels : sendPkt[d] # NoPacket}}
           Queued == UNION {UNION {FilesOfSend(packetQueue[c][i]) : i \in DOMAIN packetQueue[c]} :
                              c \in Channels}
<1>6. Held \subseteq F
  BY <1>4
<1>7. Queued \subseteq F
  BY <1>5
<1>8. FilesOnTheWay = FilesOf(fec.media_packets) \union FilesOf(fec.buffer_packets)
                        \union Held \union Queued
  BY DEF FilesOnTheWay
<1> HIDE DEF Held, Queued
<1> QED
  BY <1>2, <1>6, <1>7, <1>8

\* No group mixed from two files gets out: although a start keeps what the encoder and
\* the group counter hold, everything on the way while a socket is open is of one file.
THEOREM OneFileOnTheWay == Spec => []OpenSocketCarriesOneFile
<1>1. Inv /\ FileInv => OpenSocketCarriesOneFile
  <2> SUFFICES ASSUME Inv, FileInv, SomeOpen PROVE Cardinality(FilesOnTheWay) <= 1
    BY DEF OpenSocketCarriesOneFile, SomeOpen
  <2>1. PICK F \in {{}} \union {{p} : p \in Paths} : CarriesOnly(F)
    BY DEF FileInv
  <2>2. FilesOnTheWay \subseteq F
    BY <2>1, CarriedFiles
  <2>3. IsFiniteSet(F) /\ Cardinality(F) <= 1
    <3>1. CASE F = {}
      BY <3>1, FS_EmptySet, SMT
    <3>2. ASSUME NEW p \in Paths, F = {p} PROVE IsFiniteSet(F) /\ Cardinality(F) <= 1
      <4>1. IsFiniteSet({p}) /\ Cardinality({p}) = 1
        BY FS_Singleton, Zenon
      <4> QED
        BY <3>2, <4>1
    <3> QED
      BY <2>1, <3>1, <3>2
  <2> QED
    BY <2>2, <2>3, FS_Subset, FS_CardinalityType
<1> QED
  BY <1>1, InvAlways, FileInit, FileStep, PTL DEF Spec
=============================================================================
