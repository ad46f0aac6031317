--------------------------- MODULE UdpserverProofs ---------------------------
(***************************************************************************)
(* Type correctness of the sender, and that StopSending leaves no thread   *)
(* behind, for every pool size, group shape, file and set of failures.     *)
(*                                                                         *)
(* TypeOK is not inductive: a type-correct state may have the reader about *)
(* to take a packet from an empty buffer, a worker about to number a       *)
(* packet it does not hold, or StopSending about to join a thread that is  *)
(* not in the list.  Inv rules these out; its other parts say at each      *)
(* control point what the code before it has established.                  *)
(***************************************************************************)
EXTENDS Udpserver, ForwardErrorCorrectionProofs

\* The reader has a file once it has read the path, has not reached its end when
\* it looks for a channel, and has a packet when it is about to push one.
ReaderInv ==
  /\ reader.pc \in {"open", "loop", "scan", "read", "push", "notify"} => reader.file \in Paths
  /\ reader.pc \in {"scan", "read"} => reader.pos < FileSize[reader.file]
  /\ reader.pc = "push" => fec.buffer_packets # << >>

\* A worker holds a packet when it simulates loss or sends, and none before it
\* has taken one from its queue.
PacketInv ==
  \A c \in Channels :
    /\ wpc[c] \in {"loss", "send"} => sendPkt[c] # NoPacket
    /\ wpc[c] \notin {"locks", "tests", "sleeps", "runs", "loss", "send"} => sendPkt[c] = NoPacket

\* The loop indices of the GUI thread: a channel while it wakes or starts
\* workers, the number of threads left while it joins them.
GuiInv ==
  /\ gui.pc \in {"wake", "spawn", "stop_s", "stop_q"} => gui.i \in Channels
  /\ gui.pc = "spawn" => workerThreads = gui.i + 1
  /\ gui.pc = "join" => gui.i \in 1 .. workerThreads

\* The threads of the list that have not been joined.
Unjoined == IF gui.pc = "join" THEN gui.i ELSE workerThreads

\* A thread exists exactly if it is in the list and has not been joined; the
\* server runs only with threads in the list, and not while it is being stopped.
ThreadInv ==
  /\ gui.pc \in {"close", "clear", "dead"} => workerThreads = 0
  /\ gui.pc \in {"stop_s", "stop_q"} => workerThreads > 0
  /\ gui.pc \in {"stop_s", "stop_q", "join", "close", "clear", "dead"} => ~is_running
  /\ is_running => workerThreads > 0
  /\ reader.pc # "none" <=> Unjoined > 0
  /\ \A c \in Channels : wpc[c] # "none" <=> c + 1 < Unjoined

Inv == TypeOK /\ ReaderInv /\ PacketInv /\ GuiInv /\ ThreadInv

-----------------------------------------------------------------------------
(* Types *)

\* Counting one more use keeps a table of counters well typed.
LEMMA CountOne ==
  ASSUME NEW S, NEW f \in [S -> Nat], NEW x \in S
  PROVE  [f EXCEPT ![x] = @ + 1] \in [S -> Nat]
<1> DEFINE n == f[x] + 1
<1>1. n \in Nat
  OBVIOUS
<1> HIDE DEF n
<1>2. [f EXCEPT ![x] = n] \in [S -> Nat]
  BY <1>1
<1> QED
  BY <1>2 DEF n

\* Use counts a use of one of the controls of the window.
LEMMA UseType ==
  ASSUME NEW op \in UserOps, uses \in [UserOps -> Nat], Use(op)
  PROVE  uses' \in [UserOps -> Nat]
BY CountOne DEF Use

\* The slots of the window keep TypeOK.
LEMMA TypeUser ==
  ASSUME TypeOK, User PROVE TypeOK'
<1>1. ASSUME NEW p \in Paths \union {""}, SetFileName(p) PROVE TypeOK'
  <2>1. uses' \in [UserOps -> Nat]
    <3>1. "File" \in UserOps /\ uses \in [UserOps -> Nat] /\ Use("File")
      BY <1>1, Zenon DEF TypeOK, SetFileName, UserOps
    <3> QED
      BY <3>1, UseType
  <2> QED
    BY <1>1, <2>1 DEF TypeOK, SetFileName, lifecycle, stream, workers, history
<1>2. ASSUME NEW c \in Channels, NEW rate \in LossRates, setLossRate(c, rate) PROVE TypeOK'
  <2>1. uses' \in [UserOps -> Nat]
    <3>1. "Slider" \in UserOps /\ uses \in [UserOps -> Nat] /\ Use("Slider")
      BY <1>2, Zenon DEF TypeOK, setLossRate, UserOps
    <3> QED
      BY <3>1, UseType
  <2>2. lossRate' \in [Channels -> 0 .. 1000]
    <3>1. rate \in 0 .. 1000
      BY LossAssumption
    <3>2. lossRate \in [Channels -> 0 .. 1000] /\ lossRate' = [lossRate EXCEPT ![c] = rate]
      BY <1>2, Zenon DEF TypeOK, setLossRate
    <3> QED
      BY <3>1, <3>2
  <2> QED
    BY <1>2, <2>1, <2>2 DEF TypeOK, setLossRate, lifecycle, stream, workers, history
<1>3. ASSUME NEW c \in Channels, NEW state \in {0, 1}, channelStateChange(c, state) PROVE TypeOK'
  <2>1. uses' \in [UserOps -> Nat]
    <3>1. "Toggle" \in UserOps /\ uses \in [UserOps -> Nat] /\ Use("Toggle")
      BY <1>3, Zenon DEF TypeOK, channelStateChange, UserOps
    <3> QED
      BY <3>1, UseType
  <2>2. enabled' \in [Channels -> {0, 1}]
    BY <1>3 DEF TypeOK, channelStateChange
  <2>3. gui' \in GuiType
    <3>1. c \in 0 .. SOCKET_POOL_SIZE + 1
      BY PoolAssumption DEF Channels
    <3>2. gui \in GuiType /\ gui' = IF state = 1 THEN [gui EXCEPT !.pc = "wake", !.i = c] ELSE gui
      BY <1>3 DEF TypeOK, channelStateChange
    <3> QED
      BY <3>1, <3>2 DEF GuiType, GuiPoints
  <2>4. lateSends' \in [Channels -> Nat] /\ passedOver' \in [Channels -> Nat]
    BY <1>3 DEF TypeOK, channelStateChange
  <2> QED
    BY <1>3, <2>1, <2>2, <2>3, <2>4 DEF TypeOK, channelStateChange, lifecycle, stream, workers
<1>4. CASE StartSending
  <2>1. uses' \in [UserOps -> Nat]
    <3>1. "Play" \in UserOps /\ uses \in [UserOps -> Nat] /\ Use("Play")
      BY <1>4, Zenon DEF TypeOK, StartSending, UserOps
    <3> QED
      BY <3>1, UseType
  <2>2. gui' \in GuiType
    BY <1>4 DEF TypeOK, StartSending, GuiType, GuiPoints
  <2> QED
    BY <1>4, <2>1, <2>2
    DEF TypeOK, StartSending, members, settings, lifecycle, stream, workers, history
<1>5. CASE Close
  <2>1. gui' \in GuiType
    BY <1>5 DEF TypeOK, Close, GuiType, GuiPoints
  <2> QED
    BY <1>5, <2>1 DEF TypeOK, Close, members, settings, lifecycle, stream, workers, history
<1> QED
  BY <1>1, <1>2, <1>3, <1>4, <1>5 DEF User

\* Waking a worker sends it to one of its control points.
LEMMA WakeType ==
  ASSUME wpc \in [Channels -> WorkerPoints], NEW c \in Channels, WakeQueue(c) \/ WakeState(c)
  PROVE  wpc' \in [Channels -> WorkerPoints]
BY DEF WakeQueue, WakeState, WorkerPoints

\* A reader thread with fresh locals is well typed.
LEMMA ReaderTypeOf ==
  ASSUME NEW pc \in ReaderPoints PROVE Reader(pc) \in ReaderType
<1>1. ASSUME NEW a \in 0 .. SOCKET_POOL_SIZE, NEW t \in Channels, NEW f \in Paths \union {""},
             NEW p \in Nat, NEW size \in Nat
      PROVE  [pc |-> pc, attempts |-> a, target |-> t, file |-> f, pos |-> p, payload |-> size]
               \in ReaderType
  BY DEF ReaderType
<1>2. 0 \in 0 .. SOCKET_POOL_SIZE /\ 0 \in Channels
  BY PoolAssumption DEF Channels
<1> QED
  BY <1>1, <1>2, Zenon DEF Reader

\* StartSending and StopSending keep TypeOK; the indices they use are in range.
LEMMA TypeGui ==
  ASSUME TypeOK, GuiInv, Gui PROVE TypeOK'
<1> USE PoolAssumption
<1> DEFINE Index == 0 .. SOCKET_POOL_SIZE + 1
<1>0. /\ gui \in GuiType /\ gui.i \in Index /\ gui.ret \in GuiPoints
      /\ Channels \subseteq Index /\ 0 \in Index
      /\ workerThreads \in Index
  <2>1. gui \in GuiType /\ workerThreads \in Index
    BY DEF TypeOK
  <2>2. gui.i \in Index /\ gui.ret \in GuiPoints
    BY <2>1 DEF GuiType, GuiPoints
  <2>3. Channels \subseteq Index /\ 0 \in Index
    BY DEF Channels
  <2> QED
    BY <2>1, <2>2, <2>3
<1>1. CASE WakeEnabled
  <2>1. wpc' \in [Channels -> WorkerPoints]
    BY <1>1, WakeType DEF TypeOK, GuiInv, WakeEnabled
  <2>2. gui' \in GuiType
    <3>1. gui' = [gui EXCEPT !.pc = "idle", !.i = 0]
      BY <1>1 DEF WakeEnabled
    <3> QED
      BY <1>0, <3>1 DEF GuiType, GuiPoints
  <2> QED
    BY <1>1, <2>1, <2>2 DEF TypeOK, WakeEnabled, members, settings, lifecycle, stream, history
<1>2. CASE StartReader
  <2>1. packetQueue' \in [Channels -> Seq(SendPacketType)]
    BY <1>2 DEF StartReader, ClearedQueues
  <2>2. /\ currentSocket' \in Channels /\ startedAt' \in 0 .. pushed'
        /\ passedOver' \in [Channels -> Nat]
    <3>1. pushed \in Nat /\ startedAt' = pushed /\ pushed' = pushed
      BY <1>2 DEF TypeOK, StartReader
    <3>2. currentSocket' = 0 /\ passedOver' = [c \in Channels |-> 0]
      BY <1>2 DEF StartReader
    <3> QED
      BY <3>1, <3>2 DEF Channels
  <2>3. reader' \in ReaderType
    <3>1. reader' = Reader("path") \/ reader' = reader
      BY <1>2 DEF StartReader
    <3>2. Reader("path") \in ReaderType /\ reader \in ReaderType
      BY ReaderTypeOf, Zenon DEF TypeOK, ReaderPoints
    <3> QED
      BY <3>1, <3>2
  <2>4. is_running' \in BOOLEAN /\ workerThreads' \in Index
    <3>1. \/ is_running' = TRUE /\ workerThreads' = 1
          \/ UNCHANGED <<is_running, workerThreads>>
      BY <1>2 DEF StartReader
    <3>2. is_running' \in BOOLEAN
      BY <3>1 DEF TypeOK
    <3>3. workerThreads' \in Index
      BY <1>0, <3>1
    <3> QED
      BY <3>2, <3>3
  <2>5. gui' \in GuiType
    BY <1>0, <1>2 DEF StartReader, GuiType, GuiPoints
  <2> QED
    BY <1>2, <2>1, <2>2, <2>3, <2>4, <2>5
    DEF TypeOK, StartReader, settings, workers
<1>3. CASE StartWorker
  <2>0. gui.i \in Channels /\ workerThreads = gui.i + 1
    BY <1>3 DEF GuiInv, StartWorker
  <2>1. wpc' \in [Channels -> WorkerPoints]
    BY <1>3 DEF TypeOK, StartWorker, WorkerPoints
  <2>2. workerThreads' \in Index
    BY <1>3, <2>0 DEF StartWorker, Channels
  <2>3. gui' \in GuiType
    <3> DEFINE next == gui.i + 1
    <3>1. next \in Index
      BY <2>0 DEF Channels
    <3>2. gui' = [gui EXCEPT !.pc = "idle", !.i = 0] \/ gui' = [gui EXCEPT !.i = next]
      BY <1>3 DEF StartWorker
    <3> HIDE DEF next
    <3> QED
      BY <1>0, <3>1, <3>2 DEF GuiType, GuiPoints
  <2> QED
    BY <1>3, <2>1, <2>2, <2>3 DEF TypeOK, StartWorker, settings, stream, history
<1>4. CASE StartWorkerFails
  <2>1. gui' \in GuiType
    BY <1>0, <1>4 DEF StartWorkerFails, GuiType, GuiPoints
  <2> QED
    BY <1>4, <2>1
    DEF TypeOK, StartWorkerFails, members, settings, lifecycle, stream, workers, history
<1>5. CASE StopBegin
  <2>1. gui' \in GuiType
    <3> DEFINE next == IF AlreadyStopped THEN gui.ret ELSE "stop_s"
    <3>1. next \in GuiPoints
      BY <1>0 DEF GuiPoints
    <3>2. gui' = [gui EXCEPT !.pc = next, !.i = 0]
      BY <1>5 DEF StopBegin
    <3> HIDE DEF next
    <3> QED
      BY <1>0, <3>1, <3>2 DEF GuiType
  <2> QED
    BY <1>5, <2>1 DEF TypeOK, StopBegin, settings, stream, workers, history
<1>6. CASE StopWakeState
  <2>1. wpc' \in [Channels -> WorkerPoints]
    BY <1>6, WakeType DEF TypeOK, GuiInv, StopWakeState
  <2>2. gui' \in GuiType
    BY <1>0, <1>6 DEF StopWakeState, GuiType, GuiPoints
  <2> QED
    BY <1>6, <2>1, <2>2 DEF TypeOK, StopWakeState, members, settings, lifecycle, stream, history
<1>7. CASE StopWakeQueue
  <2>0. gui.i \in Channels
    BY <1>7 DEF GuiInv, StopWakeQueue
  <2>1. wpc' \in [Channels -> WorkerPoints]
    BY <1>7, <2>0, WakeType DEF TypeOK, StopWakeQueue
  <2>2. gui' \in GuiType
    <3> DEFINE next == gui.i + 1
    <3>1. next \in Index
      BY <2>0 DEF Channels
    <3>2. \/ gui' = [gui EXCEPT !.pc = "join", !.i = workerThreads]
          \/ gui' = [gui EXCEPT !.pc = "stop_s", !.i = next]
      BY <1>7 DEF StopWakeQueue
    <3> HIDE DEF next
    <3> QED
      BY <1>0, <3>1, <3>2 DEF GuiType, GuiPoints
  <2> QED
    BY <1>7, <2>1, <2>2 DEF TypeOK, StopWakeQueue, members, settings, lifecycle, stream, history
<1>8. CASE JoinWorker
  <2> DEFINE c == gui.i - 2
             left == gui.i - 1
  <2>0. c \in Channels /\ left \in Index
    BY <1>0, <1>8 DEF JoinWorker, Channels
  <2>1. /\ wpc' = [wpc EXCEPT ![c] = "none"]
        /\ sendPkt' = [sendPkt EXCEPT ![c] = NoPacket]
        /\ gui' = [gui EXCEPT !.i = left]
    BY <1>8 DEF JoinWorker
  <2> HIDE DEF c, left
  <2>2. wpc' \in [Channels -> WorkerPoints]
    BY <2>0, <2>1 DEF TypeOK, WorkerPoints
  <2>3. sendPkt' \in [Channels -> SendPacketType \union {NoPacket}]
    BY <2>0, <2>1 DEF TypeOK
  <2>4. gui' \in GuiType
    BY <1>0, <2>0, <2>1 DEF GuiType
  <2> QED
    BY <1>8, <2>2, <2>3, <2>4 DEF TypeOK, JoinWorker, members, settings, lifecycle, stream, history
<1>9. CASE JoinReader
  <2>1. reader' \in ReaderType
    BY <1>9, ReaderTypeOf DEF JoinReader, ReaderPoints
  <2>2. gui' \in GuiType
    BY <1>0, <1>9 DEF JoinReader, GuiType, GuiPoints
  <2>3. workerThreads' \in Index
    BY <1>0, <1>9 DEF JoinReader
  <2> QED
    BY <1>9, <2>1, <2>2, <2>3 DEF TypeOK, JoinReader, settings, stream, workers, history
<1>10. CASE CloseSockets
  <2>1. gui' \in GuiType
    BY <1>0, <1>10 DEF CloseSockets, GuiType, GuiPoints
  <2>2. sockets' \in [Channels -> {"open", "closed", "INVALID", "uninit"}]
    BY <1>10 DEF CloseSockets
  <2> QED
    BY <1>10, <2>1, <2>2 DEF TypeOK, CloseSockets, settings, stream, workers, history
<1> QED
  BY <1>1, <1>2, <1>3, <1>4, <1>5, <1>6, <1>7, <1>8, <1>9, <1>10 DEF Gui

\* Taking the front packet of buffer_packets, when there is one, keeps the encoder
\* well typed.
LEMMA PopType ==
  ASSUME NEW C, NEW f \in FecType(C), f.buffer_packets # << >>
  PROVE  /\ Head(f.buffer_packets) \in PacketType(C)
         /\ [f EXCEPT !.buffer_packets = Tail(@)] \in FecType(C)
<1> DEFINE T == PacketType(C)
           tail == Tail(f.buffer_packets)
<1>1. f.buffer_packets \in Seq(T)
  BY DEF FecType
<1>2. Head(f.buffer_packets) \in T /\ tail \in Seq(T)
  BY <1>1, HeadTailProperties
<1> HIDE DEF tail
<1>3. [f EXCEPT !.buffer_packets = tail] \in FecType(C)
  BY <1>2 DEF FecType
<1> QED
  BY <1>2, <1>3 DEF tail

\* After reading a chunk the encoder has a packet for the reader, which goes on to
\* push it.
LEMMA ReadType ==
  ASSUME reader \in ReaderType, fec \in FecType(Chunk), ReaderInv, ReadChunk
  PROVE  /\ fec' \in FecType(Chunk)
         /\ fec'.buffer_packets # << >>
         /\ reader' \in ReaderType
         /\ reader'.pc = "push"
         /\ reader'.file = reader.file
<1> DEFINE rest      == FileSize[reader.file] - reader.pos
           bytesRead == IF rest < readChunkSize THEN rest ELSE readChunkSize
           size      == flightpkt_header_size + bytesRead
           pos       == reader.pos + bytesRead
           next      == IF fec'.buffer_packets = << >> THEN "loop" ELSE "push"
<1>1. reader.pc = "read" /\ reader.file \in Paths /\ reader.pos \in Nat
  BY DEF ReaderInv, ReadChunk, ReaderAt, ReaderType
<1>2. reader.pos < FileSize[reader.file]
  BY <1>1 DEF ReaderInv
<1>3. FileSize[reader.file] \in Nat
  BY <1>1, FileAssumption
<1>4. size \in Nat /\ pos \in Nat
  BY <1>1, <1>2, <1>3 DEF flightpkt_header_size, readChunkSize
<1>5. fec' = PacketByFEC(fec, <<reader.file, reader.pos>>, size, fec_k, fec_r)
  BY DEF ReadChunk
<1>6. reader' = [reader EXCEPT !.pc = next, !.pos = pos, !.payload = size]
  BY DEF ReadChunk
<1>7. fec_k \in Nat /\ fec_r \in Nat
  BY FecAssumption
<1>8. <<reader.file, reader.pos>> \in Chunk
  BY <1>1 DEF Chunk
<1> HIDE DEF size, pos
<1>9. fec' \in FecType(Chunk) /\ fec'.buffer_packets # << >>
  BY <1>4, <1>5, <1>7, <1>8, PacketByFECType
<1>10. next = "push"
  BY <1>9
<1> HIDE DEF next
<1>11. /\ reader' \in ReaderType /\ reader'.pc = "push"
       /\ reader'.file = reader.file
  BY <1>4, <1>6, <1>10 DEF ReaderType, ReaderPoints
<1> QED
  BY <1>9, <1>11

\* A step that changes nothing but is_running and the reader's locals.
LEMMA TypeReaderLocal ==
  ASSUME TypeOK, reader' \in ReaderType, is_running' \in BOOLEAN,
         UNCHANGED <<settings, workerThreads, sockets, gui, uses, stream, workers, history>>
  PROVE  TypeOK'
BY ZenonT(60) DEF TypeOK, settings, stream, workers, history

\* fileReaderTask keeps TypeOK.
LEMMA TypeReader ==
  ASSUME TypeOK, ReaderInv, fileReaderTask PROVE TypeOK'
<1> USE PoolAssumption DEF ReaderAt
<1>0. reader \in ReaderType /\ is_running \in BOOLEAN
  BY Zenon DEF TypeOK
<1>1. CASE ReadPath
  <2>1. reader' \in ReaderType
    <3>1. Reader("done") \in ReaderType
      BY ReaderTypeOf DEF ReaderPoints
    <3>2. currentFilePath \in Paths \union {""}
      BY DEF TypeOK
    <3> QED
      BY <1>0, <1>1, <3>1, <3>2 DEF ReadPath, ReaderAbort, ReaderType, ReaderPoints
  <2>2. is_running' \in BOOLEAN
    BY <1>0, <1>1 DEF ReadPath, ReaderAbort
  <2> QED
    BY <1>1, <2>1, <2>2, TypeReaderLocal DEF ReadPath
<1>2. CASE OpenFile
  <2>1. reader' \in ReaderType
    <3>1. Reader("done") \in ReaderType
      BY ReaderTypeOf DEF ReaderPoints
    <3> QED
      BY <1>0, <1>2, <3>1 DEF OpenFile, ReaderAbort, ReaderType, ReaderPoints
  <2>2. is_running' \in BOOLEAN
    BY <1>0, <1>2 DEF OpenFile, ReaderAbort
  <2> QED
    BY <1>2, <2>1, <2>2, TypeReaderLocal DEF OpenFile
<1>3. CASE ReaderLoop
  <2>1. reader' \in ReaderType
    <3>1. Reader("done") \in ReaderType
      BY ReaderTypeOf DEF ReaderPoints
    <3>2. 0 \in 0 .. SOCKET_POOL_SIZE
      OBVIOUS
    <3>3. [reader EXCEPT !.pc = "scan", !.attempts = 0] \in ReaderType
      BY <1>0, <3>2 DEF ReaderType, ReaderPoints
    <3> QED
      BY <1>3, <3>1, <3>3 DEF ReaderLoop
  <2> QED
    BY <1>0, <1>3, <2>1, TypeReaderLocal DEF ReaderLoop
<1>4. CASE ScanHit
  <2> DEFINE next == (ScanIndex + 1) % SOCKET_POOL_SIZE
  <2>1. ScanIndex \in Channels
    <3>1. currentSocket \in Nat /\ reader.attempts \in Nat
      <4>1. currentSocket \in Channels
        BY DEF TypeOK
      <4>2. reader.attempts \in 0 .. SOCKET_POOL_SIZE
        BY <1>0 DEF ReaderType
      <4> QED
        BY <4>1, <4>2 DEF Channels
    <3> QED
      BY <3>1 DEF ScanIndex, Channels
  <2>2. next \in Channels
    BY <2>1 DEF Channels
  <2>3. reader' \in ReaderType
    BY <1>0, <1>4, <2>1 DEF ScanHit, ReaderType, ReaderPoints
  <2>4. passedOver' \in [Channels -> Nat]
    <3>1. passedOver \in [Channels -> Nat]
      BY DEF TypeOK
    <3>2. passedOver' = [c \in Channels |->
                           IF c # ScanIndex /\ enabled[c] = 1 THEN passedOver[c] + 1 ELSE 0]
      BY <1>4 DEF ScanHit
    <3> QED
      BY <3>1, <3>2
  <2>5. currentSocket' = next
    BY <1>4 DEF ScanHit
  <2> HIDE DEF next
  <2> QED
    BY <1>4, <2>2, <2>3, <2>4, <2>5, ZenonT(60) DEF TypeOK, ScanHit, settings, workers
<1>5. CASE ScanMiss
  <2> DEFINE next == reader.attempts + 1
  <2>1. next \in 0 .. SOCKET_POOL_SIZE
    <3>1. reader.attempts \in 0 .. SOCKET_POOL_SIZE
      BY <1>0 DEF ReaderType
    <3>2. reader.attempts < SOCKET_POOL_SIZE
      BY <1>5 DEF ScanMiss
    <3> QED
      BY <3>1, <3>2
  <2>2. reader' = [reader EXCEPT !.attempts = next]
    BY <1>5 DEF ScanMiss
  <2> HIDE DEF next
  <2>3. reader' \in ReaderType
    BY <1>0, <2>1, <2>2 DEF ReaderType
  <2> QED
    BY <1>0, <1>5, <2>3, TypeReaderLocal DEF ScanMiss
<1>6. CASE ScanEnd
  <2>1. reader' \in ReaderType
    <3>1. Reader("done") \in ReaderType
      BY ReaderTypeOf DEF ReaderPoints
    <3>2. [reader EXCEPT !.pc = "loop"] \in ReaderType
      BY <1>0 DEF ReaderType, ReaderPoints
    <3> QED
      BY <1>6, <3>1, <3>2 DEF ScanEnd
  <2> QED
    BY <1>0, <1>6, <2>1, TypeReaderLocal DEF ScanEnd
<1>7. CASE ReadChunk
  <2>1. reader' \in ReaderType /\ fec' \in FecType(Chunk)
    BY <1>7, ReadType DEF TypeOK
  <2> QED
    BY <1>7, <2>1 DEF TypeOK, ReadChunk, settings, workers, history
<1>8. CASE ReadFails
  <2>1. reader' \in ReaderType
    BY <1>8, ReaderTypeOf DEF ReadFails, ReaderPoints
  <2> QED
    BY <1>0, <1>8, <2>1, TypeReaderLocal DEF ReadFails
<1>9. CASE PushPacket
  <2> DEFINE n == pushed + 1
             packet == SendPacket(Head(fec.buffer_packets), reader.payload, reader.target, n)
             queue == Append(packetQueue[reader.target], packet)
  <2>0. fec \in FecType(Chunk) /\ fec.buffer_packets # << >>
    BY <1>9 DEF TypeOK, ReaderInv, PushPacket
  <2>1. fec' \in FecType(Chunk) /\ Head(fec.buffer_packets) \in PacketType(Chunk)
    BY <1>9, <2>0, PopType DEF PushPacket
  <2>2. reader.target \in Channels /\ reader.payload \in Nat
    BY <1>0 DEF ReaderType
  <2>3. n \in Nat \ {0} /\ startedAt \in 0 .. n
    <3>1. pushed \in Nat /\ startedAt \in 0 .. pushed
      BY DEF TypeOK
    <3> QED
      BY <3>1
  <2>4. pushed' = n /\ packetQueue' = [packetQueue EXCEPT ![reader.target] = queue]
    BY <1>9 DEF PushPacket, PushBack
  <2> HIDE DEF n
  <2>5. packet \in SendPacketType
    BY <2>1, <2>2, <2>3 DEF SendPacket, SendPacketType
  <2> HIDE DEF packet
  <2>6. queue \in Seq(SendPacketType)
    <3>1. packetQueue[reader.target] \in Seq(SendPacketType)
      BY <2>2 DEF TypeOK
    <3> QED
      BY <2>5, <3>1, AppendProperties
  <2> HIDE DEF queue
  <2>7. packetQueue' \in [Channels -> Seq(SendPacketType)]
    BY <2>2, <2>4, <2>6 DEF TypeOK
  <2>8. reader' \in ReaderType
    BY <1>0, <1>9 DEF PushPacket, ReaderType, ReaderPoints
  <2>9. pushed' \in Nat /\ startedAt' \in 0 .. pushed'
    BY <1>9, <2>3, <2>4 DEF PushPacket
  <2> QED
    BY <1>9, <2>1, <2>7, <2>8, <2>9 DEF TypeOK, PushPacket, settings, workers
<1>10. CASE NotifyWorker
  <2>1. wpc' \in [Channels -> WorkerPoints]
    <3>1. reader.target \in Channels
      BY <1>0 DEF ReaderType
    <3> QED
      BY <1>10, <3>1, WakeType DEF TypeOK, NotifyWorker
  <2>2. reader' \in ReaderType
    BY <1>0, <1>10 DEF NotifyWorker, ReaderType, ReaderPoints
  <2> QED
    BY <1>10, <2>1, <2>2 DEF TypeOK, NotifyWorker, settings, stream, history
<1> QED
  BY <1>1, <1>2, <1>3, <1>4, <1>5, <1>6, <1>7, <1>8, <1>9, <1>10 DEF fileReaderTask

\* A worker step that only decides where to go on keeps TypeOK.
LEMMA BranchTo ==
  ASSUME NEW c \in Channels, NEW from, NEW to \in WorkerPoints, TypeOK, Branch(c, from, to)
  PROVE  TypeOK'
<1>1. wpc' \in [Channels -> WorkerPoints]
  BY DEF TypeOK, Branch, Goto
<1> QED
  BY <1>1 DEF TypeOK, Branch, Goto, Sent, settings, lifecycle

\* A worker step keeps TypeOK if it does so for what a worker may change.
LEMMA GotoType ==
  ASSUME NEW c \in Channels, NEW from, NEW to \in WorkerPoints, TypeOK, Goto(c, from, to),
         packetQueue' \in [Channels -> Seq(SendPacketType)],
         globalSeqCounter' \in 0 .. SeqModulus - 1,
         sendPkt' \in [Channels -> SendPacketType \union {NoPacket}],
         sends' \in Nat,
         lastSent' \in [Channels -> Nat],
         lateSends' \in [Channels -> Nat]
  PROVE  TypeOK'
<1>1. wpc' \in [Channels -> WorkerPoints]
  BY DEF TypeOK, Goto
<1> QED
  BY <1>1 DEF TypeOK, Goto, settings, lifecycle

\* The next sequence number is in the range of the counter.
LEMMA NextSeqType == TypeOK => NextSeq \in 0 .. SeqModulus - 1
<1>1. TypeOK => globalSeqCounter \in 0 .. SeqModulus - 1
  BY DEF TypeOK
<1> QED
  BY <1>1, SeqAssumption DEF NextSeq

\* A worker that simulates loss or sends holds a packet.
LEMMA PacketUnwrap ==
  ASSUME TypeOK, PacketInv, NEW c \in Channels, wpc[c] \in {"loss", "send"}
  PROVE  sendPkt[c] \in SendPacketType
BY DEF TypeOK, PacketInv

\* socketWorkerTask keeps TypeOK.
LEMMA TypeWorker ==
  ASSUME TypeOK, PacketInv, NEW c \in Channels, socketWorkerTask(c) PROVE TypeOK'
<1>0. /\ packetQueue \in [Channels -> Seq(SendPacketType)]
      /\ globalSeqCounter \in 0 .. SeqModulus - 1
      /\ sendPkt \in [Channels -> SendPacketType \union {NoPacket}]
      /\ sends \in Nat
      /\ lastSent \in [Channels -> Nat]
      /\ lateSends \in [Channels -> Nat]
  BY DEF TypeOK
<1>1. CASE \/ WorkerTop(c) \/ WorkerTestRunning(c) \/ WorkerTestQueue(c) \/ WorkerBreak1(c)
           \/ WorkerContinue(c) \/ WorkerTestRunning2(c) \/ WorkerTestState(c) \/ WorkerProceed(c)
  BY <1>1, BranchTo
  DEF WorkerTop, WorkerTestRunning, WorkerTestQueue, WorkerBreak1, WorkerContinue,
      WorkerTestRunning2, WorkerTestState, WorkerProceed, WorkerPoints
<1>2. CASE WorkerPop(c)
  <2>1. CASE packetQueue[c] = << >>
    <3>1. Branch(c, "enq", "locks")
      BY <1>2, <2>1 DEF WorkerPop, Branch
    <3> QED
      BY <3>1, BranchTo DEF WorkerPoints
  <2>2. CASE packetQueue[c] # << >>
    <3> DEFINE head == Head(packetQueue[c])
               tail == Tail(packetQueue[c])
    <3>1. head \in SendPacketType /\ tail \in Seq(SendPacketType)
      <4>1. packetQueue[c] \in Seq(SendPacketType)
        BY <1>0
      <4> QED
        BY <2>2, <4>1, HeadTailProperties
    <3>2. /\ sendPkt' = [sendPkt EXCEPT ![c] = head]
          /\ packetQueue' = [packetQueue EXCEPT ![c] = tail]
      BY <1>2, <2>2 DEF WorkerPop
    <3> HIDE DEF head, tail
    <3>3. /\ sendPkt' \in [Channels -> SendPacketType \union {NoPacket}]
          /\ packetQueue' \in [Channels -> Seq(SendPacketType)]
      BY <1>0, <3>1, <3>2
    <3>4. Goto(c, "enq", "locks") /\ UNCHANGED <<globalSeqCounter, sends, lastSent, lateSends>>
      BY <1>2 DEF WorkerPop, Sent
    <3> QED
      BY <1>0, <3>3, <3>4, GotoType DEF WorkerPoints
  <2> QED
    BY <2>1, <2>2
<1>3. CASE WorkerBreak2(c)
  <2>1. sendPkt' \in [Channels -> SendPacketType \union {NoPacket}]
    BY <1>0, <1>3 DEF WorkerBreak2
  <2>2. Goto(c, "runs", "done")
        /\ UNCHANGED <<packetQueue, globalSeqCounter, sends, lastSent, lateSends>>
    BY <1>3 DEF WorkerBreak2, Sent
  <2> QED
    BY <1>0, <2>1, <2>2, GotoType DEF WorkerPoints
<1>4. CASE WorkerDrop(c)
  <2>1. sendPkt' \in [Channels -> SendPacketType \union {NoPacket}]
    BY <1>0, <1>4 DEF WorkerDrop
  <2>2. Goto(c, "loss", "top")
        /\ UNCHANGED <<packetQueue, globalSeqCounter, sends, lastSent, lateSends>>
    BY <1>4 DEF WorkerDrop, Sent
  <2> QED
    BY <1>0, <2>1, <2>2, GotoType DEF WorkerPoints
<1>5. CASE WorkerAssignSeq(c)
  <2> DEFINE packet == [sendPkt[c] EXCEPT !.seq = globalSeqCounter]
  <2>1. sendPkt[c] \in SendPacketType
    BY <1>5, PacketUnwrap DEF WorkerAssignSeq, Goto
  <2>2. globalSeqCounter \in Nat
    BY <1>0, SeqAssumption
  <2>3. packet \in SendPacketType
    BY <2>1, <2>2 DEF SendPacketType
  <2>4. sendPkt' = [sendPkt EXCEPT ![c] = packet]
    BY <1>5 DEF WorkerAssignSeq
  <2> HIDE DEF packet
  <2>5. sendPkt' \in [Channels -> SendPacketType \union {NoPacket}]
    BY <1>0, <2>3, <2>4
  <2>6. globalSeqCounter' \in 0 .. SeqModulus - 1
    BY <1>5, NextSeqType DEF WorkerAssignSeq
  <2>7. Goto(c, "loss", "send") /\ UNCHANGED <<packetQueue, sends, lastSent, lateSends>>
    BY <1>5 DEF WorkerAssignSeq, Sent
  <2> QED
    BY <1>0, <2>5, <2>6, <2>7, GotoType DEF WorkerPoints
<1>6. CASE WorkerSend(c)
  <2>1. sendPkt[c] \in SendPacketType
    BY <1>6, PacketUnwrap DEF WorkerSend, Goto
  <2>2. sendPkt[c].order \in Nat
    BY <2>1 DEF SendPacketType
  <2>3. sendPkt' \in [Channels -> SendPacketType \union {NoPacket}]
    BY <1>0, <1>6 DEF WorkerSend
  <2>4. sends' \in Nat
    BY <1>0, <1>6 DEF WorkerSend, Sent
  <2>5. lastSent' \in [Channels -> Nat]
    BY <1>0, <1>6, <2>2 DEF WorkerSend, Sent
  <2>6. lateSends' \in [Channels -> Nat]
    <3> DEFINE n == IF enabled[c] = 1 THEN 0 ELSE lateSends[c] + 1
    <3>1. n \in Nat
      BY <1>0
    <3>2. UNCHANGED lateSends \/ lateSends' = [lateSends EXCEPT ![c] = n]
      BY <1>6 DEF WorkerSend, Sent
    <3> HIDE DEF n
    <3> QED
      BY <1>0, <3>1, <3>2
  <2>7. Goto(c, "send", "top") /\ UNCHANGED <<packetQueue, globalSeqCounter>>
    BY <1>6 DEF WorkerSend
  <2> QED
    BY <1>0, <2>3, <2>4, <2>5, <2>6, <2>7, GotoType DEF WorkerPoints
<1> QED
  BY <1>1, <1>2, <1>3, <1>4, <1>5, <1>6 DEF socketWorkerTask

-----------------------------------------------------------------------------
(* What each thread may change *)

\* What the slots of the window leave alone, and that the GUI thread is idle then.
LEMMA UserFrame ==
  ASSUME User
  PROVE  /\ UNCHANGED <<is_running, workerThreads, sockets, packetQueue, currentSocket, fec,
                        globalSeqCounter, reader, wpc, sendPkt, pushed, startedAt, lastSent, sends>>
         /\ gui.pc = "idle"
BY DEF User, SetFileName, setLossRate, channelStateChange, StartSending, Close, Use,
       members, settings, lifecycle, stream, workers, history

\* What StartSending and StopSending leave alone.
LEMMA GuiFrame ==
  ASSUME Gui
  PROVE  UNCHANGED <<enabled, lossRate, currentFilePath, fec, globalSeqCounter, uses, pushed,
                     lastSent, sends, lateSends>>
BY DEF Gui, WakeEnabled, StartReader, StartWorker, StartWorkerFails, StopBegin, StopWakeState,
       StopWakeQueue, JoinWorker, JoinReader, CloseSockets,
       members, settings, lifecycle, stream, workers, history

\* What fileReaderTask leaves alone.
LEMMA ReaderFrame ==
  ASSUME fileReaderTask
  PROVE  UNCHANGED <<enabled, lossRate, currentFilePath, workerThreads, sockets, globalSeqCounter,
                     sendPkt, gui, uses, startedAt, lastSent, sends, lateSends>>
BY DEF fileReaderTask, ReadPath, OpenFile, ReaderLoop, ScanHit, ScanMiss, ScanEnd, ReadChunk,
       ReadFails, PushPacket, NotifyWorker, ReaderAt, settings, stream, workers, history

\* A worker touches its own control point, packet and queue only.
LEMMA WorkerFrame ==
  ASSUME TypeOK, NEW c \in Channels, socketWorkerTask(c)
  PROVE  /\ UNCHANGED <<enabled, lossRate, currentFilePath, is_running, workerThreads, sockets,
                        currentSocket, fec, reader, gui, uses, pushed, startedAt, passedOver>>
         /\ \A d \in Channels \ {c} :
              /\ wpc'[d] = wpc[d] /\ sendPkt'[d] = sendPkt[d] /\ packetQueue'[d] = packetQueue[d]
              /\ lastSent'[d] = lastSent[d] /\ lateSends'[d] = lateSends[d]
<1> USE DEF Goto, Branch, Sent, settings, lifecycle
<1>1. UNCHANGED <<enabled, lossRate, currentFilePath, is_running, workerThreads, sockets,
                  currentSocket, fec, reader, gui, uses, pushed, startedAt, passedOver>>
  BY DEF socketWorkerTask, WorkerTop, WorkerTestRunning, WorkerTestQueue, WorkerBreak1,
         WorkerContinue, WorkerPop, WorkerTestRunning2, WorkerTestState, WorkerBreak2,
         WorkerProceed, WorkerDrop, WorkerAssignSeq, WorkerSend
<1>2. \E to : wpc' = [wpc EXCEPT ![c] = to]
  BY DEF socketWorkerTask, WorkerTop, WorkerTestRunning, WorkerTestQueue, WorkerBreak1,
         WorkerContinue, WorkerPop, WorkerTestRunning2, WorkerTestState, WorkerBreak2,
         WorkerProceed, WorkerDrop, WorkerAssignSeq, WorkerSend
<1>3. /\ UNCHANGED sendPkt \/ \E p : sendPkt' = [sendPkt EXCEPT ![c] = p]
      /\ UNCHANGED packetQueue \/ \E q : packetQueue' = [packetQueue EXCEPT ![c] = q]
  BY DEF socketWorkerTask, WorkerTop, WorkerTestRunning, WorkerTestQueue, WorkerBreak1,
         WorkerContinue, WorkerPop, WorkerTestRunning2, WorkerTestState, WorkerBreak2,
         WorkerProceed, WorkerDrop, WorkerAssignSeq, WorkerSend
<1>4. UNCHANGED Sent \/ \E n, m : /\ lastSent' = [lastSent EXCEPT ![c] = n]
                               /\ lateSends' = [lateSends EXCEPT ![c] = m]
  BY DEF socketWorkerTask, WorkerTop, WorkerTestRunning, WorkerTestQueue, WorkerBreak1,
         WorkerContinue, WorkerPop, WorkerTestRunning2, WorkerTestState, WorkerBreak2,
         WorkerProceed, WorkerDrop, WorkerAssignSeq, WorkerSend
<1>5. ASSUME NEW d \in Channels \ {c}
      PROVE  /\ wpc'[d] = wpc[d] /\ sendPkt'[d] = sendPkt[d] /\ packetQueue'[d] = packetQueue[d]
             /\ lastSent'[d] = lastSent[d] /\ lateSends'[d] = lateSends[d]
  <2>1. /\ wpc \in [Channels -> WorkerPoints]
        /\ sendPkt \in [Channels -> SendPacketType \union {NoPacket}]
        /\ packetQueue \in [Channels -> Seq(SendPacketType)]
        /\ lastSent \in [Channels -> Nat] /\ lateSends \in [Channels -> Nat]
    BY DEF TypeOK
  <2>2. wpc'[d] = wpc[d]
    BY <1>2, <2>1
  <2>3. sendPkt'[d] = sendPkt[d] /\ packetQueue'[d] = packetQueue[d]
    BY <1>3, <2>1
  <2>4. lastSent'[d] = lastSent[d] /\ lateSends'[d] = lateSends[d]
    BY <1>4, <2>1
  <2> QED
    BY <2>2, <2>3, <2>4
<1> QED
  BY <1>1, <1>5

\* What a worker's step does to its control point, packet and queue.
LEMMA WorkerMoves ==
  ASSUME TypeOK, NEW c \in Channels, socketWorkerTask(c)
  PROVE  /\ wpc[c] # "none" /\ wpc'[c] # "none"
         /\ wpc'[c] = "teste" => wpc[c] = "testr" /\ is_running
         /\ wpc'[c] = "sleepq" => wpc[c] = "teste" /\ enabled[c] = 1 /\ packetQueue[c] = << >>
         /\ wpc'[c] = "tests" => wpc[c] = "locks" /\ is_running
         /\ wpc'[c] = "sleeps" => wpc[c] = "tests" /\ enabled[c] = 0
         /\ wpc'[c] = "runs" => \/ wpc[c] = "locks" /\ ~is_running
                                \/ wpc[c] = "tests" /\ enabled[c] # 0
         /\ wpc'[c] = "loss" => wpc[c] = "runs" /\ is_running /\ sendPkt[c] # NoPacket
         /\ wpc'[c] = "send" => wpc[c] = "loss"
         /\ \/ /\ UNCHANGED <<sendPkt, packetQueue>>
               /\ wpc[c] \notin {"loss", "send"}
               /\ wpc[c] = "runs" => wpc'[c] = "loss" \/ sendPkt[c] = NoPacket
               /\ wpc[c] \in {"locks", "tests", "sleeps"} => wpc'[c] \in {"tests", "sleeps", "runs"}
            \/ /\ wpc[c] = "enq" /\ wpc'[c] = "locks" /\ enabled[c] = 1 /\ packetQueue[c] # << >>
               /\ sendPkt' = [sendPkt EXCEPT ![c] = Head(packetQueue[c])]
               /\ packetQueue' = [packetQueue EXCEPT ![c] = Tail(@)]
            \/ /\ wpc[c] = "loss" /\ wpc'[c] = "send"
               /\ sendPkt' = [sendPkt EXCEPT ![c].seq = globalSeqCounter]
               /\ UNCHANGED packetQueue
            \/ /\ wpc[c] \in {"runs", "loss", "send"} /\ wpc'[c] \in {"top", "done"}
               /\ sendPkt' = [sendPkt EXCEPT ![c] = NoPacket]
               /\ UNCHANGED packetQueue
<1>0. wpc \in [Channels -> WorkerPoints]
  BY DEF TypeOK
<1>1. ASSUME NEW from, NEW to, Goto(c, from, to) PROVE wpc[c] = from /\ wpc'[c] = to
  BY <1>0, <1>1 DEF Goto
<1>2. CASE WorkerTop(c)
  BY <1>1, <1>2 DEF WorkerTop, Branch
<1>3. CASE WorkerTestRunning(c)
  BY <1>1, <1>3 DEF WorkerTestRunning, Branch
<1>4. CASE WorkerTestQueue(c)
  BY <1>1, <1>4 DEF WorkerTestQueue, Branch
<1>5. CASE WorkerBreak1(c)
  BY <1>1, <1>5 DEF WorkerBreak1, Branch
<1>6. CASE WorkerContinue(c)
  BY <1>1, <1>6 DEF WorkerContinue, Branch
<1>7. CASE WorkerPop(c)
  BY <1>1, <1>7 DEF WorkerPop
<1>8. CASE WorkerTestRunning2(c)
  BY <1>1, <1>8 DEF WorkerTestRunning2, Branch
<1>9. CASE WorkerTestState(c)
  BY <1>1, <1>9 DEF WorkerTestState, Branch
<1>10. CASE WorkerBreak2(c)
  BY <1>1, <1>10 DEF WorkerBreak2
<1>11. CASE WorkerProceed(c)
  BY <1>1, <1>11 DEF WorkerProceed, Branch
<1>12. CASE WorkerDrop(c)
  BY <1>1, <1>12 DEF WorkerDrop
<1>13. CASE WorkerAssignSeq(c)
  BY <1>1, <1>13 DEF WorkerAssignSeq
<1>14. CASE WorkerSend(c)
  BY <1>1, <1>14 DEF WorkerSend
<1> QED
  BY <1>2, <1>3, <1>4, <1>5, <1>6, <1>7, <1>8, <1>9, <1>10, <1>11, <1>12, <1>13, <1>14
  DEF socketWorkerTask

\* The threads that the GUI thread starts, wakes and joins.
LEMMA GuiMoves ==
  ASSUME TypeOK, GuiInv, Gui, NEW c \in Channels
  PROVE  \/ wpc'[c] = wpc[c] /\ sendPkt'[c] = sendPkt[c]
         \/ gui.pc = "spawn" /\ c = gui.i /\ wpc'[c] = "top" /\ sendPkt'[c] = sendPkt[c]
         \/ gui.pc = "join" /\ c + 2 = gui.i /\ wpc'[c] = "none" /\ sendPkt'[c] = NoPacket
         \/ wpc[c] = "sleepq" /\ wpc'[c] = "testr" /\ sendPkt'[c] = sendPkt[c]
         \/ wpc[c] = "sleeps" /\ wpc'[c] = "locks" /\ sendPkt'[c] = sendPkt[c]
<1>0. /\ wpc \in [Channels -> WorkerPoints]
      /\ sendPkt \in [Channels -> SendPacketType \union {NoPacket}]
      /\ gui.i \in Int
  <2>1. gui \in GuiType
    BY DEF TypeOK
  <2>2. gui.i \in Int
    BY <2>1 DEF GuiType
  <2> QED
    BY <2>2 DEF TypeOK
<1>1. ASSUME NEW d, WakeQueue(d) \/ WakeState(d)
      PROVE  \/ wpc'[c] = wpc[c]
             \/ wpc[c] = "sleepq" /\ wpc'[c] = "testr"
             \/ wpc[c] = "sleeps" /\ wpc'[c] = "locks"
  BY <1>0, <1>1 DEF WakeQueue, WakeState
<1>2. CASE WakeEnabled \/ StopWakeState \/ StopWakeQueue
  BY <1>1, <1>2 DEF WakeEnabled, StopWakeState, StopWakeQueue
<1>3. CASE StartReader \/ StartWorkerFails \/ StopBegin \/ JoinReader \/ CloseSockets
  BY <1>3 DEF StartReader, StartWorkerFails, StopBegin, JoinReader, CloseSockets, workers
<1>4. CASE StartWorker
  BY <1>0, <1>4 DEF StartWorker
<1>5. CASE JoinWorker
  <2>1. c + 2 = gui.i \/ c # gui.i - 2
    BY <1>0 DEF Channels
  <2> QED
    BY <1>0, <1>5, <2>1 DEF JoinWorker
<1> QED
  BY <1>2, <1>3, <1>4, <1>5 DEF Gui

\* The reader only wakes workers.
LEMMA ReaderMoves ==
  ASSUME TypeOK, fileReaderTask, NEW c \in Channels
  PROVE  /\ sendPkt' = sendPkt
         /\ \/ wpc'[c] = wpc[c]
            \/ wpc[c] = "sleepq" /\ wpc'[c] = "testr"
<1>0. wpc \in [Channels -> WorkerPoints]
  BY DEF TypeOK
<1>1. UNCHANGED wpc \/ WakeQueue(reader.target)
  BY DEF fileReaderTask, ReadPath, OpenFile, ReaderLoop, ScanHit, ScanMiss, ScanEnd, ReadChunk,
         ReadFails, PushPacket, NotifyWorker, workers
<1> QED
  BY <1>0, <1>1, ReaderFrame DEF WakeQueue

-----------------------------------------------------------------------------
(* The invariant *)

\* Every step keeps ReaderInv.
LEMMA ReaderInvStep ==
  ASSUME TypeOK, ReaderInv, Next PROVE ReaderInv'
<1> USE DEF ReaderAt
<1>1. ASSUME UNCHANGED <<reader, fec>> PROVE ReaderInv'
  BY <1>1 DEF ReaderInv
<1>2. ASSUME NEW pc \in {"none", "path", "done"}, reader' = Reader(pc) PROVE ReaderInv'
  BY <1>2 DEF ReaderInv, Reader
<1>3. ASSUME Gui PROVE ReaderInv'
  <2>1. \/ UNCHANGED reader
        \/ reader' = Reader("none") \/ reader' = Reader("path")
    BY <1>3
    DEF Gui, WakeEnabled, StartReader, StartWorker, StartWorkerFails, StopBegin, StopWakeState,
        StopWakeQueue, JoinWorker, JoinReader, CloseSockets, workers
  <2> QED
    BY <1>1, <1>2, <1>3, <2>1, GuiFrame
<1>4. ASSUME fileReaderTask PROVE ReaderInv'
  <2>0. reader \in ReaderType
    BY DEF TypeOK
  <2>1. CASE ReadPath
    <3>1. currentFilePath \in Paths \union {""}
      BY DEF TypeOK
    <3> QED
      BY <1>2, <2>0, <2>1, <3>1 DEF ReadPath, ReaderAbort, ReaderInv, ReaderType
  <2>2. CASE OpenFile
    BY <1>2, <2>0, <2>2 DEF OpenFile, ReaderAbort, ReaderInv, ReaderType
  <2>3. CASE ReaderLoop
    BY <1>2, <2>0, <2>3 DEF ReaderLoop, ReaderInv, ReaderType
  <2>4. CASE ScanHit
    BY <2>0, <2>4 DEF ScanHit, ReaderInv, ReaderType
  <2>5. CASE ScanMiss
    BY <2>0, <2>5 DEF ScanMiss, ReaderInv, ReaderType
  <2>6. CASE ScanEnd
    BY <1>2, <2>0, <2>6 DEF ScanEnd, ReaderInv, ReaderType
  <2>7. CASE ReadChunk
    <3>1. /\ fec'.buffer_packets # << >>
          /\ reader'.pc = "push"
          /\ reader'.file = reader.file
      BY <2>7, ReadType DEF TypeOK
    <3>2. reader.file \in Paths
      BY <2>7 DEF ReaderInv, ReadChunk
    <3> QED
      BY <3>1, <3>2 DEF ReaderInv
  <2>8. CASE ReadFails
    BY <1>2, <2>8 DEF ReadFails
  <2>9. CASE PushPacket
    BY <2>0, <2>9 DEF PushPacket, ReaderInv, ReaderType
  <2>10. CASE NotifyWorker
    BY <2>0, <2>10 DEF NotifyWorker, ReaderInv, ReaderType, stream
  <2> QED
    BY <1>4, <2>1, <2>2, <2>3, <2>4, <2>5, <2>6, <2>7, <2>8, <2>9, <2>10 DEF fileReaderTask
<1>5. ASSUME NEW c \in Channels, socketWorkerTask(c) PROVE ReaderInv'
  BY <1>1, <1>5, WorkerFrame
<1>6. CASE User
  BY <1>1, <1>6, UserFrame
<1>7. CASE Terminated
  BY <1>1, <1>7 DEF Terminated, vars, members, stream
<1> QED
  BY <1>3, <1>4, <1>5, <1>6, <1>7 DEF Next


\* Numbering a packet leaves it a packet, with its place in the order.
LEMMA SeqKeepsPacket ==
  ASSUME NEW p \in SendPacketType, NEW n
  PROVE  [p EXCEPT !.seq = n].order = p.order /\ p.order # 0 /\ [p EXCEPT !.seq = n] # NoPacket
<1>1. p.order \in Nat \ {0} /\ [p EXCEPT !.seq = n].order = p.order
  BY DEF SendPacketType
<1>2. NoPacket.order = 0
  BY DEF NoPacket
<1> QED
  BY <1>1, <1>2

\* Every step keeps PacketInv.
LEMMA PacketInvStep ==
  ASSUME TypeOK, GuiInv, ThreadInv, PacketInv, Next PROVE PacketInv'
<1> DEFINE Holds(pc) == pc \in {"locks", "tests", "sleeps", "runs", "loss", "send"}
<1> SUFFICES ASSUME NEW c \in Channels
             PROVE  /\ wpc'[c] \in {"loss", "send"} => sendPkt'[c] # NoPacket
                    /\ ~Holds(wpc'[c]) => sendPkt'[c] = NoPacket
  BY DEF PacketInv
<1>0. /\ wpc[c] \in {"loss", "send"} => sendPkt[c] # NoPacket
      /\ ~Holds(wpc[c]) => sendPkt[c] = NoPacket
  BY DEF PacketInv
<1>1. CASE User \/ Terminated
  BY <1>0, <1>1, UserFrame DEF Terminated, vars, workers
<1>2. CASE fileReaderTask
  BY <1>0, <1>2, ReaderMoves
<1>3. CASE Gui
  <2>1. ASSUME gui.pc = "spawn", c = gui.i PROVE wpc[c] = "none"
    BY <2>1 DEF GuiInv, ThreadInv, Unjoined, Channels
  <2> QED
    BY <1>0, <1>3, <2>1, GuiMoves
<1>4. ASSUME NEW d \in Channels, socketWorkerTask(d), d # c
      PROVE  /\ wpc'[c] \in {"loss", "send"} => sendPkt'[c] # NoPacket
             /\ ~Holds(wpc'[c]) => sendPkt'[c] = NoPacket
  BY <1>0, <1>4, WorkerFrame
<1>5. CASE socketWorkerTask(c)
  <2>0. sendPkt \in [Channels -> SendPacketType \union {NoPacket}]
    BY DEF TypeOK
  <2>1. CASE wpc[c] = "loss" /\ wpc'[c] = "send"
    <3>1. /\ sendPkt[c] # NoPacket
          /\ sendPkt' = [sendPkt EXCEPT ![c].seq = globalSeqCounter]
      BY <1>0, <1>5, <2>1, WorkerMoves
    <3>2. sendPkt'[c] # NoPacket
      BY <2>0, <3>1, SeqKeepsPacket
    <3> QED
      BY <2>1, <3>2
  <2>2. CASE ~(wpc[c] = "loss" /\ wpc'[c] = "send")
    <3>1. wpc'[c] \in {"loss", "send"} =>
            wpc'[c] = "loss" /\ sendPkt[c] # NoPacket /\ wpc[c] = "runs"
      BY <1>5, <2>2, WorkerMoves
    <3>2. CASE UNCHANGED sendPkt
      BY <1>0, <1>5, <2>0, <2>2, <3>1, <3>2, WorkerMoves
    <3>3. CASE ~UNCHANGED sendPkt
      BY <1>5, <2>0, <2>2, <3>1, <3>3, WorkerMoves
    <3> QED
      BY <3>2, <3>3
  <2> QED
    BY <2>1, <2>2
<1> QED
  BY <1>1, <1>2, <1>3, <1>4, <1>5 DEF Next

\* Every step keeps GuiInv.
LEMMA GuiInvStep ==
  ASSUME TypeOK, GuiInv, ThreadInv, Next PROVE GuiInv'
<1> USE PoolAssumption
<1>0. gui \in GuiType
  BY DEF TypeOK
<1>1. ASSUME UNCHANGED <<gui, workerThreads>> PROVE GuiInv'
  BY <1>1 DEF GuiInv
<1>2. ASSUME gui'.pc \notin {"wake", "spawn", "stop_s", "stop_q", "join"} PROVE GuiInv'
  BY <1>2 DEF GuiInv
<1>3. CASE User
  <2>1. \/ UNCHANGED gui
        \/ gui'.pc \in {"stop", "clear"}
        \/ gui'.pc = "wake" /\ gui'.i \in Channels
    BY <1>0, <1>3
    DEF User, SetFileName, setLossRate, channelStateChange, StartSending, Close, GuiType
  <2> QED
    BY <1>1, <1>2, <1>3, <2>1, UserFrame DEF GuiInv
<1>4. CASE WakeEnabled \/ CloseSockets \/ StartWorkerFails \/ JoinReader
  <2>1. gui.ret \in {"idle", "clear", "dead"}
    BY <1>0 DEF GuiType
  <2>2. CASE CloseSockets
    <3>1. gui'.pc = gui.ret
      BY <1>0, <2>2 DEF CloseSockets, GuiType
    <3> QED
      BY <1>2, <2>1, <3>1
  <2>3. CASE WakeEnabled \/ JoinReader
    BY <1>0, <1>2, <2>3 DEF WakeEnabled, JoinReader, GuiType
  <2>4. CASE StartWorkerFails
    BY <1>2, <2>4 DEF StartWorkerFails
  <2> QED
    BY <1>4, <2>2, <2>3, <2>4
<1>5. CASE StartReader
  BY <1>5 DEF StartReader, GuiInv, Channels
<1>6. CASE StartWorker
  <2>1. gui.i \in Channels /\ workerThreads = gui.i + 1
    BY <1>6 DEF StartWorker, GuiInv
  <2>2. workerThreads' = workerThreads + 1
    BY <1>6 DEF StartWorker
  <2>3. CASE gui.i = SOCKET_POOL_SIZE - 1
    BY <1>0, <1>2, <1>6, <2>3 DEF StartWorker, GuiType
  <2>4. CASE gui.i # SOCKET_POOL_SIZE - 1
    <3>1. gui'.i = gui.i + 1 /\ gui'.pc = "spawn"
      BY <1>0, <1>6, <2>4 DEF StartWorker, GuiType
    <3> QED
      BY <2>1, <2>2, <2>4, <3>1 DEF GuiInv, Channels
  <2> QED
    BY <2>3, <2>4
<1>7. CASE StopBegin
  BY <1>0, <1>7 DEF StopBegin, GuiInv, GuiType, Channels
<1>8. CASE StopWakeState
  BY <1>0, <1>8 DEF StopWakeState, GuiInv, GuiType
<1>9. CASE StopWakeQueue
  <2>1. gui.i \in Channels /\ workerThreads' = workerThreads
    BY <1>9 DEF StopWakeQueue, GuiInv, members, lifecycle
  <2>2. workerThreads \in Nat /\ workerThreads > 0
    <3>1. workerThreads \in 0 .. SOCKET_POOL_SIZE + 1
      BY DEF TypeOK
    <3> QED
      BY <1>9, <3>1 DEF StopWakeQueue, ThreadInv
  <2>3. CASE gui.i = SOCKET_POOL_SIZE - 1
    <3>1. gui'.pc = "join" /\ gui'.i = workerThreads
      BY <1>0, <1>9, <2>3 DEF StopWakeQueue, GuiType
    <3> QED
      BY <2>1, <2>2, <3>1 DEF GuiInv
  <2>4. CASE gui.i # SOCKET_POOL_SIZE - 1
    <3>1. gui'.pc = "stop_s" /\ gui'.i = gui.i + 1
      BY <1>0, <1>9, <2>4 DEF StopWakeQueue, GuiType
    <3> QED
      BY <2>1, <2>4, <3>1 DEF GuiInv, Channels
  <2> QED
    BY <2>3, <2>4
<1>10. CASE JoinWorker
  <2>1. gui.i \in 1 .. workerThreads /\ gui.i > 1 /\ workerThreads' = workerThreads
    BY <1>10 DEF JoinWorker, GuiInv, members, lifecycle
  <2>2. gui'.pc = "join" /\ gui'.i = gui.i - 1
    BY <1>0, <1>10 DEF JoinWorker, GuiType
  <2>3. workerThreads \in Int
    <3>1. workerThreads \in 0 .. SOCKET_POOL_SIZE + 1
      BY DEF TypeOK
    <3> QED
      BY <3>1
  <2> QED
    BY <2>1, <2>2, <2>3 DEF GuiInv
<1>11. CASE fileReaderTask
  BY <1>1, <1>11, ReaderFrame
<1>12. CASE \E c \in Channels : socketWorkerTask(c)
  BY <1>1, <1>12, WorkerFrame
<1>13. CASE Terminated
  BY <1>1, <1>13 DEF Terminated, vars, members, lifecycle
<1> QED
  BY <1>3, <1>4, <1>5, <1>6, <1>7, <1>8, <1>9, <1>10, <1>11, <1>12, <1>13 DEF Next, Gui

\* A step of the reader thread does not make the thread disappear.
LEMMA ReaderSurvives ==
  ASSUME reader \in ReaderType, fileReaderTask
  PROVE  reader.pc # "none" /\ reader'.pc # "none"
<1>1. reader.pc # "none"
  BY DEF fileReaderTask, ReadPath, OpenFile, ReaderLoop, ScanHit, ScanMiss, ScanEnd, ReadChunk,
         ReadFails, PushPacket, NotifyWorker, ReaderAt
<1>2. Reader("done").pc = "done"
  BY DEF Reader
<1>3. ASSUME ReadPath \/ OpenFile \/ ReaderLoop \/ ScanHit \/ ScanEnd \/ ReadFails
      PROVE  reader'.pc # "none"
  BY <1>1, <1>2, <1>3 DEF ReadPath, OpenFile, ReaderLoop, ScanHit, ScanEnd, ReadFails,
                          ReaderAbort, ReaderType
<1>4. ASSUME ReadChunk PROVE reader'.pc # "none"
  <2> DEFINE next == IF fec'.buffer_packets = << >> THEN "loop" ELSE "push"
  <2>1. \E pos, size : reader' = [reader EXCEPT !.pc = next, !.pos = pos, !.payload = size]
    BY <1>4 DEF ReadChunk
  <2>2. next # "none"
    OBVIOUS
  <2> HIDE DEF next
  <2>3. reader'.pc = next
    BY <2>1 DEF ReaderType
  <2> QED
    BY <2>2, <2>3
<1>5. ASSUME ScanMiss PROVE reader'.pc # "none"
  <2>1. reader'.pc = reader.pc
    BY <1>5 DEF ScanMiss, ReaderType
  <2> QED
    BY <1>1, <2>1
<1>6. ASSUME PushPacket \/ NotifyWorker PROVE reader'.pc # "none"
  BY <1>6 DEF PushPacket, NotifyWorker, ReaderType
<1> QED
  BY <1>1, <1>3, <1>4, <1>5, <1>6 DEF fileReaderTask

\* Every step keeps ThreadInv.
LEMMA ThreadInvStep ==
  ASSUME TypeOK, GuiInv, ThreadInv, Next PROVE ThreadInv'
<1> USE PoolAssumption
<1>0. /\ gui \in GuiType /\ reader \in ReaderType /\ wpc \in [Channels -> WorkerPoints]
      /\ workerThreads \in 0 .. SOCKET_POOL_SIZE + 1
  BY DEF TypeOK
<1>1. ASSUME UNCHANGED <<is_running, workerThreads, gui>>,
             reader.pc = "none" <=> reader'.pc = "none",
             \A c \in Channels : wpc[c] = "none" <=> wpc'[c] = "none"
      PROVE  ThreadInv'
  BY <1>1 DEF ThreadInv, Unjoined
<1>2. CASE User
  <2>1. UNCHANGED <<is_running, workerThreads, reader, wpc>> /\ gui.pc = "idle"
    BY <1>2, UserFrame
  <2>2. /\ gui'.pc \in {"idle", "wake", "stop", "clear"}
        /\ gui'.pc = "clear" => ~is_running /\ ~(workerThreads > 0)
    BY <1>0, <1>2, <2>1
    DEF User, SetFileName, setLossRate, channelStateChange, StartSending, Close, GuiType
  <2> QED
    BY <1>0, <2>1, <2>2 DEF ThreadInv, Unjoined
<1>3. CASE fileReaderTask
  <2>1. UNCHANGED <<workerThreads, gui>>
    BY <1>3, ReaderFrame
  <2>2. \A c \in Channels : wpc[c] = "none" <=> wpc'[c] = "none"
    BY <1>3, ReaderMoves
  <2>3. reader.pc # "none" /\ reader'.pc # "none"
    BY <1>3, ReaderSurvives DEF TypeOK
  <2>4. UNCHANGED is_running \/ is_running' = FALSE
    BY <1>3
    DEF fileReaderTask, ReadPath, OpenFile, ReaderLoop, ScanHit, ScanMiss, ScanEnd, ReadChunk,
        ReadFails, PushPacket, NotifyWorker, ReaderAbort
  <2> QED
    BY <2>1, <2>2, <2>3, <2>4 DEF ThreadInv, Unjoined
<1>4. ASSUME NEW c \in Channels, socketWorkerTask(c) PROVE ThreadInv'
  <2>1. UNCHANGED <<is_running, workerThreads, gui, reader>>
    BY <1>4, WorkerFrame
  <2>2. \A d \in Channels : wpc[d] = "none" <=> wpc'[d] = "none"
    BY <1>4, WorkerFrame, WorkerMoves
  <2> QED
    BY <1>1, <2>1, <2>2
<1>5. CASE WakeEnabled \/ StopWakeState \/ StopWakeQueue
  <2>1. UNCHANGED <<is_running, workerThreads, reader>>
    BY <1>5 DEF WakeEnabled, StopWakeState, StopWakeQueue, members, lifecycle
  <2>2. \A c \in Channels : wpc[c] = "none" <=> wpc'[c] = "none"
    <3> SUFFICES ASSUME NEW c \in Channels PROVE wpc[c] = "none" <=> wpc'[c] = "none"
      OBVIOUS
    <3>1. Gui /\ gui.pc \notin {"spawn", "join"}
      BY <1>5 DEF Gui, WakeEnabled, StopWakeState, StopWakeQueue
    <3> QED
      BY <3>1, GuiMoves
  <2>3. /\ gui.pc # "join"
        /\ gui'.pc = "join" => gui'.i = workerThreads
        /\ gui'.pc \in {"idle", "stop_s", "stop_q", "join"}
        /\ gui'.pc # "idle" => gui.pc \in {"stop_s", "stop_q"}
    BY <1>0, <1>5 DEF WakeEnabled, StopWakeState, StopWakeQueue, GuiType
  <2> QED
    BY <2>1, <2>2, <2>3 DEF ThreadInv, Unjoined
<1>6. CASE StartReader
  <2>1. gui.pc = "clear" /\ UNCHANGED wpc /\ Unjoined = 0 /\ ~is_running /\ workerThreads = 0
    BY <1>6 DEF StartReader, workers, ThreadInv, Unjoined
  <2>2. CASE /\ is_running' = TRUE /\ workerThreads' = 1 /\ reader' = Reader("path")
             /\ gui'.pc = "spawn"
    <3>1. \A c \in Channels : wpc'[c] = "none" /\ ~(c + 1 < 1)
      BY <2>1 DEF ThreadInv, Channels
    <3>2. reader'.pc # "none"
      BY <2>2 DEF Reader
    <3>3. Unjoined' = 1
      BY <2>2 DEF Unjoined
    <3> QED
      BY <2>2, <3>1, <3>2, <3>3 DEF ThreadInv
  <2>3. CASE gui'.pc = "idle" /\ UNCHANGED <<is_running, workerThreads, reader>>
    BY <2>1, <2>3 DEF ThreadInv, Unjoined
  <2>4. \/ is_running' = TRUE /\ workerThreads' = 1 /\ reader' = Reader("path") /\ gui'.pc = "spawn"
        \/ gui'.pc = "idle" /\ UNCHANGED <<is_running, workerThreads, reader>>
    BY <1>6 DEF StartReader
  <2> QED
    BY <2>2, <2>3, <2>4
<1>7. CASE StartWorker
  <2>1. /\ gui.pc = "spawn" /\ gui.i \in Channels /\ workerThreads = gui.i + 1
        /\ workerThreads' = workerThreads + 1 /\ UNCHANGED <<is_running, reader>>
        /\ wpc' = [wpc EXCEPT ![gui.i] = "top"]
        /\ gui'.pc \in {"idle", "spawn"}
    BY <1>0, <1>7 DEF StartWorker, GuiInv, GuiType
  <2>2. \A c \in Channels : wpc'[c] # "none" <=> c + 1 < workerThreads'
    BY <1>0, <2>1 DEF ThreadInv, Unjoined, Channels
  <2>3. /\ Unjoined = workerThreads /\ Unjoined' = workerThreads'
        /\ workerThreads > 0 /\ workerThreads' > 0
    BY <1>0, <2>1 DEF Unjoined, Channels
  <2>4. reader'.pc # "none"
    BY <2>1, <2>3 DEF ThreadInv
  <2> QED
    BY <2>1, <2>2, <2>3, <2>4 DEF ThreadInv
<1>8. CASE StartWorkerFails
  BY <1>8 DEF StartWorkerFails, ThreadInv, Unjoined, members, lifecycle, workers
<1>9. CASE StopBegin
  <2>1. /\ gui.pc = "stop" /\ is_running' = FALSE /\ UNCHANGED <<workerThreads, reader, wpc>>
        /\ gui'.pc = IF AlreadyStopped THEN gui.ret ELSE "stop_s"
    BY <1>0, <1>9 DEF StopBegin, workers, GuiType
  <2>2. gui.ret \in {"idle", "clear", "dead"}
    BY <1>0 DEF GuiType
  <2>3. CASE AlreadyStopped
    BY <2>1, <2>2, <2>3 DEF AlreadyStopped, ThreadInv, Unjoined
  <2>4. CASE ~AlreadyStopped
    BY <1>0, <2>1, <2>4 DEF AlreadyStopped, ThreadInv, Unjoined
  <2> QED
    BY <2>3, <2>4
<1>10. CASE JoinWorker
  <2>1. /\ gui.pc = "join" /\ gui'.pc = "join" /\ gui'.i = gui.i - 1 /\ gui.i > 1
        /\ gui.i \in 1 .. workerThreads
        /\ UNCHANGED <<is_running, workerThreads, reader>>
        /\ wpc' = [wpc EXCEPT ![gui.i - 2] = "none"]
    BY <1>0, <1>10 DEF JoinWorker, GuiInv, GuiType, members, lifecycle
  <2>2. \A c \in Channels : wpc'[c] # "none" <=> c + 1 < gui.i - 1
    BY <1>0, <2>1 DEF ThreadInv, Unjoined, Channels
  <2> QED
    BY <1>0, <2>1, <2>2 DEF ThreadInv, Unjoined
<1>11. CASE JoinReader
  <2>1. /\ gui.pc = "join" /\ gui.i = 1 /\ gui'.pc = "close"
        /\ UNCHANGED <<is_running, wpc>> /\ workerThreads' = 0 /\ reader'.pc = "none"
    BY <1>0, <1>11 DEF JoinReader, Reader, GuiType, workers
  <2> QED
    BY <2>1 DEF ThreadInv, Unjoined, Channels
<1>12. CASE CloseSockets
  <2>1. /\ gui.pc = "close" /\ gui'.pc \in {"idle", "clear", "dead"}
        /\ UNCHANGED <<is_running, workerThreads, reader, wpc>>
    BY <1>0, <1>12 DEF CloseSockets, GuiType, workers
  <2> QED
    BY <2>1 DEF ThreadInv, Unjoined
<1>13. CASE Terminated
  BY <1>1, <1>13 DEF Terminated, vars, members, lifecycle, workers
<1> QED
  BY <1>2, <1>3, <1>4, <1>5, <1>6, <1>7, <1>8, <1>9, <1>10, <1>11, <1>12, <1>13 DEF Next, Gui

\* A newly constructed server satisfies Inv.
LEMMA InitInv == Init => Inv
<1> SUFFICES ASSUME Init PROVE Inv
  OBVIOUS
<1> USE PoolAssumption
<1>1. TypeOK
  <2>1. is_running \in BOOLEAN /\ currentFilePath \in Paths \union {""}
    <3>1. is_running = FALSE /\ currentFilePath = ""
      BY DEF Init
    <3> QED
      BY <3>1
  <2>2. enabled \in [Channels -> {0, 1}] /\ lossRate \in [Channels -> 0 .. 1000]
    <3>1. enabled = [c \in Channels |-> 0] /\ lossRate = [c \in Channels |-> 0]
      BY DEF Init
    <3> QED
      BY <3>1
  <2>3. packetQueue \in [Channels -> Seq(SendPacketType)]
    <3>1. packetQueue = [c \in Channels |-> << >>]
      BY DEF Init
    <3> QED
      BY <3>1
  <2>4. currentSocket \in Channels /\ globalSeqCounter \in 0 .. SeqModulus - 1
    <3>1. currentSocket = 0 /\ globalSeqCounter = 0
      BY DEF Init
    <3> QED
      BY <3>1, SeqAssumption DEF Channels
  <2>5. sockets \in [Channels -> {"open", "closed", "INVALID", "uninit"}]
    <3>1. sockets \in initializeSockets
      BY DEF Init
    <3>2. CASE sockets = [c \in Channels |-> "open"] \/ sockets = [c \in Channels |-> "uninit"]
      BY <3>2
    <3>3. ASSUME NEW i \in Channels,
                 sockets = [c \in Channels |-> CASE c < i -> "closed" [] c = i -> "INVALID"
                                                 [] c > i -> "uninit"]
          PROVE  sockets \in [Channels -> {"open", "closed", "INVALID", "uninit"}]
      <4>1. \A c \in Channels : c < i \/ c = i \/ c > i
        BY DEF Channels
      <4> QED
        BY <3>3, <4>1
    <3> QED
      BY <3>1, <3>2, <3>3, Zenon DEF initializeSockets
  <2>6. fec \in FecType(Chunk)
    BY NewForwardErrorCorrectionType DEF Init, FecMaskType
  <2>7. reader \in ReaderType
    <3>1. reader = Reader("none")
      BY DEF Init
    <3> QED
      BY <3>1, ReaderTypeOf DEF ReaderPoints
  <2>8. /\ wpc \in [Channels -> WorkerPoints]
        /\ sendPkt \in [Channels -> SendPacketType \union {NoPacket}]
    <3>1. wpc = [c \in Channels |-> "none"] /\ sendPkt = [c \in Channels |-> NoPacket]
      BY DEF Init
    <3> QED
      BY <3>1 DEF WorkerPoints
  <2>9. gui \in GuiType /\ workerThreads \in 0 .. SOCKET_POOL_SIZE + 1
    <3>1. gui = [pc |-> "idle", i |-> 0, ret |-> "idle"] /\ workerThreads = 0
      BY DEF Init
    <3>2. 0 \in 0 .. SOCKET_POOL_SIZE + 1
      OBVIOUS
    <3> QED
      BY <3>1, <3>2 DEF GuiType, GuiPoints
  <2>10. /\ uses \in [UserOps -> Nat]
         /\ pushed \in Nat /\ startedAt \in 0 .. pushed /\ sends \in Nat
         /\ lastSent \in [Channels -> Nat] /\ lateSends \in [Channels -> Nat]
         /\ passedOver \in [Channels -> Nat]
    <3>1. /\ uses = [op \in UserOps |-> 0] /\ pushed = 0 /\ startedAt = 0 /\ sends = 0
          /\ lastSent = [c \in Channels |-> 0] /\ lateSends = [c \in Channels |-> 0]
          /\ passedOver = [c \in Channels |-> 0]
      BY DEF Init
    <3> QED
      BY <3>1
  <2> QED
    BY <2>1, <2>2, <2>3, <2>4, <2>5, <2>6, <2>7, <2>8, <2>9, <2>10 DEF TypeOK
<1>2. ReaderInv
  BY DEF Init, Reader, ReaderInv
<1>3. PacketInv
  BY DEF Init, PacketInv
<1>4. GuiInv
  BY DEF Init, GuiInv
<1>5. ThreadInv
  <2>1. /\ workerThreads = 0 /\ is_running = FALSE /\ gui.pc = "idle" /\ reader.pc = "none"
        /\ wpc = [c \in Channels |-> "none"]
    BY DEF Init, Reader
  <2>2. Unjoined = 0
    BY <2>1 DEF Unjoined
  <2>3. \A c \in Channels : wpc[c] = "none" /\ ~(c + 1 < 0)
    BY <2>1 DEF Channels
  <2> QED
    BY <2>1, <2>2, <2>3 DEF ThreadInv
<1> QED
  BY <1>1, <1>2, <1>3, <1>4, <1>5 DEF Inv

\* Every step keeps Inv.
LEMMA StepInv == Inv /\ [Next]_vars => Inv'
<1>1. Inv /\ Next => Inv'
  <2> SUFFICES ASSUME Inv, Next PROVE Inv'
    OBVIOUS
  <2>1. TypeOK'
    <3>1. CASE Terminated
      BY <3>1
      DEF Terminated, Inv, TypeOK, vars, members, settings, lifecycle, stream, workers, history
    <3> QED
      BY <3>1, TypeUser, TypeGui, TypeReader, TypeWorker DEF Inv, Next
  <2> QED
    BY <2>1, ReaderInvStep, PacketInvStep, GuiInvStep, ThreadInvStep DEF Inv
<1>2. Inv /\ UNCHANGED vars => Inv'
  <2> SUFFICES ASSUME Inv, UNCHANGED vars PROVE Inv'
    OBVIOUS
  <2> USE DEF vars, members, settings, lifecycle, stream, workers, history
  <2>1. TypeOK' /\ ReaderInv'
    BY DEF Inv, TypeOK, ReaderInv
  <2>2. PacketInv' /\ GuiInv'
    BY DEF Inv, PacketInv, GuiInv
  <2>3. ThreadInv'
    BY DEF Inv, ThreadInv, Unjoined
  <2> QED
    BY <2>1, <2>2, <2>3 DEF Inv
<1> QED
  BY <1>1, <1>2

\* Inv holds throughout: control points, threads, packets and loop indices of the
\* server fit together in every reachable state.
THEOREM InvAlways == Spec => []Inv
BY InitInv, StepInv, PTL DEF Spec

\* The members of Udpserver, its threads and the history variables keep their
\* types: in particular the reader never takes a packet from an empty buffer and
\* globalSeqCounter stays within its width.
THEOREM TypeCorrect == Spec => []TypeOK
BY InvAlways, PTL DEF Inv

\* When the list of threads is empty there are no threads.
LEMMA InvThreadsGone ==
  ASSUME Inv, gui.pc \in {"close", "clear", "dead"}
  PROVE  reader.pc = "none" /\ \A c \in Channels : wpc[c] = "none"
<1>1. Unjoined = 0
  BY DEF Inv, ThreadInv, Unjoined
<1> QED
  BY <1>1, PoolAssumption DEF Inv, ThreadInv, Channels

\* StopSending leaves no thread behind: when it closes the sockets, when StartSending
\* clears the queues and when the server is destroyed, neither the reader nor a worker
\* exists, even if a start failed half way or a thread had to be terminated.
THEOREM NoThreadLeft == Spec => []NoThreadOutlivesStop
<1>1. Inv => NoThreadOutlivesStop
  BY InvThreadsGone DEF NoThreadOutlivesStop
<1> QED
  BY <1>1, InvAlways, PTL
=============================================================================
