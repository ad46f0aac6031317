------------------------ MODULE UdpserverOrderProofs ------------------------
(***************************************************************************)
(* The way of the packets through the sender, proved from Inv: the order   *)
(* in which a channel sends them, that none is left over from an earlier   *)
(* start, and how they are numbered.                                       *)
(***************************************************************************)
EXTENDS UdpserverProofs, FiniteSetTheorems

-----------------------------------------------------------------------------
(* What a step may do to the packets on their way *)

\* Nothing but, perhaps, writing a sequence number into packets workers hold.
Quiet ==
  /\ UNCHANGED <<packetQueue, pushed, startedAt, lastSent>>
  /\ workerThreads' > 0 => workerThreads > 0
  /\ \A c \in Channels : \/ sendPkt'[c] = sendPkt[c]
                         \/ /\ sendPkt[c] \in SendPacketType
                            /\ sendPkt'[c] = [sendPkt[c] EXCEPT !.seq = globalSeqCounter]

\* Worker c takes the front packet of its queue.
Takes(c) ==
  /\ sendPkt[c] = NoPacket /\ packetQueue[c] # << >>
  /\ sendPkt' = [sendPkt EXCEPT ![c] = Head(packetQueue[c])]
  /\ packetQueue' = [packetQueue EXCEPT ![c] = Tail(@)]
  /\ UNCHANGED <<pushed, startedAt, lastSent, workerThreads>>

\* The packet worker c holds is sent, dropped, given up, or lost with its thread.
Leaves(c) ==
  /\ sendPkt[c] \in SendPacketType
  /\ sendPkt' = [sendPkt EXCEPT ![c] = NoPacket]
  /\ lastSent' = lastSent \/ lastSent' = [lastSent EXCEPT ![c] = sendPkt[c].order]
  /\ workerThreads > 0
  /\ UNCHANGED <<packetQueue, pushed, startedAt, workerThreads>>

\* A thread that exists is in the list.
LEMMA ThreadListed ==
  ASSUME Inv, NEW c \in Channels, wpc[c] # "none" PROVE workerThreads > 0
<1>1. c + 1 < Unjoined /\ workerThreads \in 0 .. SOCKET_POOL_SIZE + 1
  BY DEF Inv, ThreadInv, TypeOK
<1>2. gui.pc = "join" => gui.i \in 1 .. workerThreads
  BY DEF Inv, GuiInv
<1> QED
  BY <1>1, <1>2, PoolAssumption DEF Unjoined, Channels

\* The same for the reader.
LEMMA ReaderListed ==
  ASSUME Inv, reader.pc # "none" PROVE workerThreads > 0
<1>1. Unjoined > 0 /\ workerThreads \in 0 .. SOCKET_POOL_SIZE + 1
  BY DEF Inv, ThreadInv, TypeOK
<1>2. gui.pc = "join" => gui.i \in 1 .. workerThreads
  BY DEF Inv, GuiInv
<1> QED
  BY <1>1, <1>2, PoolAssumption DEF Unjoined

\* What the reader pushes is a packet with the next order number.
LEMMA PushedType ==
  ASSUME Inv, PushPacket
  PROVE  LET p == SendPacket(Head(fec.buffer_packets), reader.payload, reader.target, pushed + 1)
         IN  p \in SendPacketType /\ p.order = pushed + 1
<1>1. Head(fec.buffer_packets) \in PacketType(Chunk)
  BY PopType DEF PushPacket, ReaderAt, Inv, TypeOK, ReaderInv
<1>2. reader \in ReaderType /\ pushed \in Nat
  BY DEF Inv, TypeOK
<1>3. reader.payload \in Nat /\ reader.target \in Channels
  BY <1>2 DEF ReaderType
<1>4. pushed + 1 \in Nat \ {0}
  BY <1>2
<1> QED
  BY <1>1, <1>3, <1>4 DEF SendPacket, SendPacketType

\* The steps of a worker.
LEMMA WorkerChannelStep ==
  ASSUME Inv, NEW c \in Channels, socketWorkerTask(c)
  PROVE  Quiet \/ Takes(c) \/ Leaves(c)
<1>0. /\ sendPkt \in [Channels -> SendPacketType \union {NoPacket}]
      /\ wpc[c] # "none" /\ workerThreads > 0
      /\ UNCHANGED <<workerThreads, pushed, startedAt>>
  BY WorkerMoves, WorkerFrame, ThreadListed DEF Inv, TypeOK
<1>1. /\ wpc[c] \in {"loss", "send"} => sendPkt[c] # NoPacket
      /\ wpc[c] = "enq" => sendPkt[c] = NoPacket
  BY DEF Inv, PacketInv
<1>2. lastSent' = lastSent \/ WorkerSend(c)
  BY DEF socketWorkerTask, WorkerTop, WorkerTestRunning, WorkerTestQueue, WorkerBreak1,
         WorkerContinue, WorkerPop, WorkerTestRunning2, WorkerTestState, WorkerBreak2,
         WorkerProceed, WorkerDrop, WorkerAssignSeq, Branch, Sent
<1>3. CASE WorkerSend(c)
  <2>1. wpc[c] = "send" /\ sendPkt' = [sendPkt EXCEPT ![c] = NoPacket] /\ UNCHANGED packetQueue
    BY <1>3 DEF WorkerSend, Goto
  <2>2. lastSent' = lastSent \/ lastSent' = [lastSent EXCEPT ![c] = sendPkt[c].order]
    BY <1>3 DEF WorkerSend, Sent
  <2> QED
    BY <1>0, <1>1, <2>1, <2>2 DEF Leaves
<1>4. CASE lastSent' = lastSent
  <2>1. CASE UNCHANGED <<sendPkt, packetQueue>>
    BY <1>0, <1>4, <2>1 DEF Quiet
  <2>2. CASE /\ wpc[c] = "enq" /\ packetQueue[c] # << >>
             /\ sendPkt' = [sendPkt EXCEPT ![c] = Head(packetQueue[c])]
             /\ packetQueue' = [packetQueue EXCEPT ![c] = Tail(@)]
    BY <1>0, <1>1, <1>4, <2>2 DEF Takes
  <2>3. CASE /\ wpc[c] = "loss"
             /\ sendPkt' = [sendPkt EXCEPT ![c].seq = globalSeqCounter]
             /\ UNCHANGED packetQueue
    <3>1. sendPkt[c] \in SendPacketType
      BY <1>0, <1>1, <2>3
    <3>2. /\ sendPkt'[c] = [sendPkt[c] EXCEPT !.seq = globalSeqCounter]
          /\ \A d \in Channels \ {c} : sendPkt'[d] = sendPkt[d]
      BY <1>0, <2>3
    <3> QED
      BY <1>0, <1>4, <2>3, <3>1, <3>2 DEF Quiet
  <2>4. CASE sendPkt' = [sendPkt EXCEPT ![c] = NoPacket] /\ UNCHANGED packetQueue
    <3>1. CASE sendPkt[c] = NoPacket
      <4>1. sendPkt' = sendPkt
        BY <1>0, <2>4, <3>1
      <4> QED
        BY <1>0, <1>4, <2>4, <4>1 DEF Quiet
    <3>2. CASE sendPkt[c] # NoPacket
      BY <1>0, <1>4, <2>4, <3>2 DEF Leaves
    <3> QED
      BY <3>1, <3>2
  <2> QED
    BY <2>1, <2>2, <2>3, <2>4, WorkerMoves DEF Inv
<1> QED
  BY <1>2, <1>3, <1>4

\* The steps of the GUI thread.
LEMMA GuiChannelStep ==
  ASSUME Inv, Gui
  PROVE  Quiet \/ StartReader \/ \E c \in Channels : Leaves(c)
<1>0. /\ sendPkt \in [Channels -> SendPacketType \union {NoPacket}]
      /\ workerThreads \in 0 .. SOCKET_POOL_SIZE + 1
      /\ UNCHANGED <<pushed, lastSent>>
  BY GuiFrame DEF Inv, TypeOK
<1>1. CASE StartWorker
  <2>1. workerThreads = gui.i + 1 /\ gui.i \in Channels
    BY <1>1 DEF StartWorker, Inv, GuiInv
  <2>2. workerThreads > 0
    BY <2>1 DEF Channels
  <2> QED
    BY <1>0, <1>1, <2>2 DEF StartWorker, Quiet, stream, history
<1>2. CASE JoinWorker
  <2> DEFINE c == gui.i - 2
  <2>1. gui.i > 1 /\ gui.i \in 1 .. workerThreads
    BY <1>2 DEF JoinWorker, Inv, GuiInv
  <2>2. c \in Channels /\ workerThreads > 0
    BY <1>0, <2>1, PoolAssumption DEF Channels
  <2>3. /\ sendPkt' = [sendPkt EXCEPT ![c] = NoPacket]
        /\ UNCHANGED <<packetQueue, pushed, startedAt, lastSent, workerThreads>>
    BY <1>2 DEF JoinWorker, members, lifecycle, stream, history
  <2> HIDE DEF c
  <2>4. CASE sendPkt[c] = NoPacket
    <3>1. sendPkt' = sendPkt
      BY <1>0, <2>2, <2>3, <2>4
    <3> QED
      BY <2>3, <3>1 DEF Quiet
  <2>5. CASE sendPkt[c] # NoPacket
    BY <1>0, <2>2, <2>3, <2>5 DEF Leaves
  <2> QED
    BY <2>4, <2>5
<1>3. CASE JoinReader
  BY <1>0, <1>3 DEF JoinReader, Quiet, stream, workers, history
<1>4. CASE WakeEnabled \/ StartWorkerFails \/ StopBegin \/ StopWakeState \/ StopWakeQueue
           \/ CloseSockets
  BY <1>4 DEF WakeEnabled, StartWorkerFails, StopBegin, StopWakeState, StopWakeQueue, CloseSockets,
              Quiet, members, lifecycle, stream, workers, history
<1> QED
  BY <1>1, <1>2, <1>3, <1>4 DEF Gui

\* Every step of the sender is one of these, the start of a reader, or a push.
LEMMA ChannelStep ==
  ASSUME Inv, Next
  PROVE  Quiet \/ StartReader \/ PushPacket \/ \E c \in Channels : Takes(c) \/ Leaves(c)
<1>1. CASE User
  BY <1>1, UserFrame DEF Quiet
<1>2. CASE Gui
  BY <1>2, GuiChannelStep
<1>3. CASE fileReaderTask
  <2>1. PushPacket \/ UNCHANGED <<packetQueue, pushed>>
    BY <1>3 DEF fileReaderTask, ReadPath, OpenFile, ReaderLoop, ScanHit, ScanMiss, ScanEnd,
                ReadChunk, ReadFails, NotifyWorker, ReaderAt, stream, history
  <2> QED
    BY <1>3, <2>1, ReaderFrame DEF Quiet
<1>4. ASSUME NEW c \in Channels, socketWorkerTask(c)
      PROVE  Quiet \/ Takes(c) \/ Leaves(c)
  BY <1>4, WorkerChannelStep
<1>5. CASE Terminated
  BY <1>5 DEF Terminated, Quiet, vars, members, lifecycle, stream, workers, history
<1> QED
  BY <1>1, <1>2, <1>3, <1>4, <1>5 DEF Next
-----------------------------------------------------------------------------
(* Order *)

\* Everything in a queue or in a worker's hands was handed over since the start.
Fresh ==
  \A c \in Channels :
    /\ sendPkt[c] # NoPacket => sendPkt[c].order > startedAt
    /\ \A i \in 1 .. Len(packetQueue[c]) : packetQueue[c][i].order > startedAt

OrderInv == ChannelOrder /\ Fresh

\* What OrderInv says of one channel.
Ordered(last, held, queue, n, start) ==
  /\ last <= n
  /\ held # NoPacket => last < held.order /\ held.order <= n /\ held.order > start
  /\ \A i \in 1 .. Len(queue) :
       /\ last < queue[i].order /\ queue[i].order <= n /\ queue[i].order > start
       /\ held # NoPacket => held.order < queue[i].order
       /\ \A j \in 1 .. i - 1 : queue[j].order < queue[i].order

\* OrderInv is a matter of each channel by itself.
LEMMA OrderInvIsOrdered ==
  OrderInv <=> \A c \in Channels : Ordered(lastSent[c], sendPkt[c], packetQueue[c], pushed, startedAt)
BY DEF OrderInv, ChannelOrder, Fresh, Ordered, Earlier

\* The order numbers of packets are positive.
LEMMA OrderType ==
  ASSUME NEW p \in SendPacketType PROVE p.order \in Nat \ {0} /\ p # NoPacket
<1>1. p.order \in Nat \ {0}
  BY DEF SendPacketType
<1>2. NoPacket.order = 0
  BY DEF NoPacket
<1> QED
  BY <1>1, <1>2

\* A packet pushed at the end of a queue comes after all others.
LEMMA OrderedPush ==
  ASSUME NEW last \in Nat, NEW held \in SendPacketType \union {NoPacket},
         NEW queue \in Seq(SendPacketType), NEW n \in Nat, NEW start \in 0 .. n,
         NEW p \in SendPacketType, p.order = n + 1, Ordered(last, held, queue, n, start)
  PROVE  Ordered(last, held, Append(queue, p), n + 1, start)
<1> DEFINE q == Append(queue, p)
<1>1. /\ Len(q) = Len(queue) + 1 /\ q[Len(queue) + 1] = p
      /\ \A i \in 1 .. Len(queue) : q[i] = queue[i]
      /\ Len(queue) \in Nat
  BY AppendProperties
<1>2. /\ \A i \in 1 .. Len(queue) : queue[i].order \in Nat
      /\ held # NoPacket => held.order \in Nat
  BY OrderType
<1> HIDE DEF q
<1>3. last <= n + 1 /\ (held # NoPacket => held.order <= n + 1)
  BY <1>2 DEF Ordered
<1>4. ASSUME NEW i \in 1 .. Len(q)
      PROVE  /\ last < q[i].order /\ q[i].order <= n + 1 /\ q[i].order > start
             /\ held # NoPacket => held.order < q[i].order
             /\ \A j \in 1 .. i - 1 : q[j].order < q[i].order
  <2>1. CASE i = Len(queue) + 1
    BY <1>1, <1>2, <2>1 DEF Ordered
  <2>2. CASE i \in 1 .. Len(queue)
    BY <1>1, <1>2, <2>2 DEF Ordered
  <2> QED
    BY <1>1, <2>1, <2>2
<1> QED
  BY <1>3, <1>4 DEF Ordered, q

\* Taking the front packet, with none in hand.
LEMMA OrderedPop ==
  ASSUME NEW last \in Nat, NEW queue \in Seq(SendPacketType), queue # << >>,
         NEW n \in Nat, NEW start \in 0 .. n, Ordered(last, NoPacket, queue, n, start)
  PROVE  Ordered(last, Head(queue), Tail(queue), n, start)
<1> DEFINE q == Tail(queue)
<1>1. /\ Len(q) = Len(queue) - 1 /\ Len(queue) \in Nat \ {0}
      /\ \A i \in 1 .. Len(q) : q[i] = queue[i + 1]
      /\ Head(queue) = queue[1]
  BY HeadTailProperties, EmptySeq
<1>2. \A i \in 1 .. Len(queue) : queue[i].order \in Nat
  BY OrderType
<1> HIDE DEF q
<1>3. /\ last <= n /\ last < queue[1].order /\ queue[1].order <= n /\ queue[1].order > start
  BY <1>1 DEF Ordered
<1>4. ASSUME NEW i \in 1 .. Len(q)
      PROVE  /\ last < q[i].order /\ q[i].order <= n /\ q[i].order > start
             /\ queue[1].order < q[i].order
             /\ \A j \in 1 .. i - 1 : q[j].order < q[i].order
  <2>1. i + 1 \in 1 .. Len(queue) /\ q[i] = queue[i + 1] /\ 1 \in 1 .. (i + 1) - 1
    BY <1>1
  <2>2. \A j \in 1 .. i - 1 : q[j] = queue[j + 1] /\ j + 1 \in 1 .. (i + 1) - 1
    BY <1>1
  <2> QED
    BY <2>1, <2>2 DEF Ordered
<1> QED
  BY <1>1, <1>3, <1>4 DEF Ordered, q

\* A packet leaves the worker's hands, sent or not.
LEMMA OrderedLeave ==
  ASSUME NEW last \in Nat, NEW held \in SendPacketType, NEW queue \in Seq(SendPacketType),
         NEW n \in Nat, NEW start \in 0 .. n, Ordered(last, held, queue, n, start),
         NEW next \in {last, held.order}
  PROVE  Ordered(next, NoPacket, queue, n, start)
<1>1. held # NoPacket /\ held.order \in Nat
  BY OrderType
<1>2. \A i \in 1 .. Len(queue) : queue[i].order \in Nat
  BY OrderType
<1> QED
  BY <1>1, <1>2 DEF Ordered

\* Every step keeps OrderInv.
LEMMA OrderStep ==
  ASSUME Inv, OrderInv, Next PROVE OrderInv'
<1> DEFINE On(c) == Ordered(lastSent[c], sendPkt[c], packetQueue[c], pushed, startedAt)
<1>0. /\ packetQueue \in [Channels -> Seq(SendPacketType)]
      /\ sendPkt \in [Channels -> SendPacketType \union {NoPacket}]
      /\ lastSent \in [Channels -> Nat] /\ pushed \in Nat /\ startedAt \in 0 .. pushed
      /\ reader \in ReaderType
  BY DEF Inv, TypeOK
<1>1. \A c \in Channels : On(c)
  BY OrderInvIsOrdered
<1> SUFFICES ASSUME NEW c \in Channels PROVE On(c)'
  BY DEF OrderInv, ChannelOrder, Fresh, Ordered, Earlier
<1>2. ASSUME NEW d \in Channels, d # c, Takes(d) \/ Leaves(d)
      PROVE  On(c)'
  <2>1. UNCHANGED <<pushed, startedAt>>
    BY <1>2 DEF Takes, Leaves
  <2>2. sendPkt'[c] = sendPkt[c] /\ packetQueue'[c] = packetQueue[c] /\ lastSent'[c] = lastSent[c]
    BY <1>0, <1>2 DEF Takes, Leaves
  <2> QED
    BY <1>1, <2>1, <2>2
<1>3. CASE Quiet
  <2>1. UNCHANGED <<packetQueue, pushed, startedAt, lastSent>>
    BY <1>3 DEF Quiet
  <2>2. \/ sendPkt'[c] = sendPkt[c]
        \/ /\ sendPkt[c] # NoPacket /\ sendPkt'[c] # NoPacket
           /\ sendPkt'[c].order = sendPkt[c].order
    BY <1>3, SeqKeepsPacket, OrderType DEF Quiet
  <2>3. On(c)
    BY <1>1
  <2> QED
    BY <2>1, <2>2, <2>3 DEF Ordered
<1>4. CASE StartReader
  <2>1. /\ packetQueue'[c] = << >> /\ sendPkt' = sendPkt /\ lastSent' = lastSent
        /\ pushed' = pushed /\ startedAt' = pushed
    BY <1>4 DEF StartReader, ClearedQueues, workers
  <2>2. sendPkt[c] = NoPacket
    <3>1. wpc[c] = "none"
      BY <1>4, InvThreadsGone DEF StartReader
    <3> QED
      BY <3>1 DEF Inv, PacketInv
  <2>3. On(c)
    BY <1>1
  <2> QED
    BY <2>1, <2>2, <2>3 DEF Ordered
<1>5. CASE PushPacket
  <2> DEFINE p == SendPacket(Head(fec.buffer_packets), reader.payload, reader.target, pushed + 1)
  <2>1. /\ UNCHANGED <<sendPkt, lastSent, startedAt>> /\ pushed' = pushed + 1
        /\ packetQueue' = [packetQueue EXCEPT ![reader.target] = Append(@, p)]
        /\ reader.target \in Channels
    BY <1>0, <1>5 DEF PushPacket, PushBack, workers, ReaderType
  <2>2. p \in SendPacketType /\ p.order = pushed + 1
    BY <1>5, PushedType
  <2> HIDE DEF p
  <2>3. CASE c = reader.target
    <3>1. packetQueue'[c] = Append(packetQueue[c], p)
      BY <1>0, <2>1, <2>3
    <3>2. Ordered(lastSent[c], sendPkt[c], Append(packetQueue[c], p), pushed + 1, startedAt)
      BY <1>0, <1>1, <2>2, OrderedPush
    <3> QED
      BY <2>1, <3>1, <3>2
  <2>4. CASE c # reader.target
    <3>1. packetQueue'[c] = packetQueue[c]
      BY <1>0, <2>1, <2>4
    <3>2. /\ \A i \in 1 .. Len(packetQueue[c]) : packetQueue[c][i].order \in Nat
          /\ sendPkt[c] # NoPacket => sendPkt[c].order \in Nat
      BY <1>0, OrderType
    <3>3. On(c)
      BY <1>1
    <3> QED
      BY <1>0, <2>1, <3>1, <3>2, <3>3 DEF Ordered
  <2> QED
    BY <2>3, <2>4
<1>6. CASE Takes(c)
  <2>1. /\ sendPkt'[c] = Head(packetQueue[c]) /\ packetQueue'[c] = Tail(packetQueue[c])
        /\ sendPkt[c] = NoPacket /\ packetQueue[c] # << >>
        /\ UNCHANGED <<pushed, startedAt, lastSent>>
    BY <1>0, <1>6 DEF Takes
  <2>2. Ordered(lastSent[c], Head(packetQueue[c]), Tail(packetQueue[c]), pushed, startedAt)
    BY <1>0, <1>1, <2>1, OrderedPop
  <2> QED
    BY <2>1, <2>2
<1>7. CASE Leaves(c)
  <2>1. /\ sendPkt'[c] = NoPacket /\ sendPkt[c] \in SendPacketType
        /\ lastSent'[c] \in {lastSent[c], sendPkt[c].order}
        /\ UNCHANGED <<pushed, startedAt, packetQueue>>
    BY <1>0, <1>7 DEF Leaves
  <2>2. Ordered(lastSent'[c], NoPacket, packetQueue[c], pushed, startedAt)
    BY <1>0, <1>1, <2>1, OrderedLeave
  <2> QED
    BY <2>1, <2>2
<1> QED
  BY <1>2, <1>3, <1>4, <1>5, <1>6, <1>7, ChannelStep

\* OrderInv holds throughout.
LEMMA OrderAlways == Spec => []OrderInv
<1>1. Init => OrderInv
  <2> SUFFICES ASSUME Init, NEW c \in Channels
               PROVE  Ordered(lastSent[c], sendPkt[c], packetQueue[c], pushed, startedAt)
    BY OrderInvIsOrdered
  <2>1. lastSent[c] = 0 /\ sendPkt[c] = NoPacket /\ packetQueue[c] = << >> /\ pushed = 0
    BY DEF Init
  <2> QED
    BY <2>1 DEF Ordered
<1>2. Inv /\ OrderInv /\ [Next]_vars => OrderInv'
  <2>1. OrderInv /\ UNCHANGED vars => OrderInv'
    BY DEF OrderInv, ChannelOrder, Fresh, vars, members, stream, workers, history
  <2> QED
    BY <2>1, OrderStep
<1> QED
  BY <1>1, <1>2, InvAlways, PTL DEF Spec

\* Every channel sends its packets in the order in which the encoder produced them and
\* none twice, whatever the threads do: stops, restarts, terminated workers included.
THEOREM PacketsInOrder == Spec => []ChannelOrder
BY OrderAlways, PTL DEF OrderInv

\* No packet that an earlier start left in a queue or in a worker's hands is sent by a
\* later one.
THEOREM NothingStale == Spec => []NoStalePacket
<1>1. OrderInv => NoStalePacket
  BY DEF OrderInv, Fresh, NoStalePacket
<1> QED
  BY <1>1, OrderAlways, PTL
-----------------------------------------------------------------------------
(* Sequence numbers *)

\* The longest payload fileReaderTask asks for.
MaxPayload == flightpkt_header_size + readChunkSize

\* No packet has a longer one: Serialize never refuses.
SizeInv ==
  /\ reader.payload <= MaxPayload
  /\ \A c \in Channels :
       /\ sendPkt[c] # NoPacket => sendPkt[c].actual_payload_size <= MaxPayload
       /\ \A i \in 1 .. Len(packetQueue[c]) :
            packetQueue[c][i].actual_payload_size <= MaxPayload

\* The reader's payload is bounded by the length of a chunk with its flight header.
LEMMA PayloadStep ==
  ASSUME Inv, reader.payload <= MaxPayload, Next PROVE reader'.payload <= MaxPayload
<1>0. reader \in ReaderType
  BY DEF Inv, TypeOK
<1>1. ASSUME NEW pc PROVE Reader(pc).payload <= MaxPayload
  BY DEF Reader, MaxPayload, flightpkt_header_size, readChunkSize
<1>2. CASE Gui
  <2>1. reader' = reader \/ reader' = Reader("path") \/ reader' = Reader("none")
    BY <1>2 DEF Gui, WakeEnabled, StartReader, StartWorker, StartWorkerFails, StopBegin,
                StopWakeState, StopWakeQueue, JoinWorker, JoinReader, CloseSockets
  <2> QED
    BY <1>1, <2>1
<1>3. CASE ReadPath \/ OpenFile \/ ReaderLoop \/ ScanHit \/ ScanMiss \/ ScanEnd \/ ReadFails
  <2>1. \/ \E pc : reader' = Reader(pc)
        \/ reader'.payload = reader.payload
    BY <1>0, <1>3 DEF ReadPath, OpenFile, ReaderLoop, ScanHit, ScanMiss, ScanEnd, ReadFails,
                      ReaderAbort, ReaderType
  <2> QED
    BY <1>1, <2>1
<1>4. CASE PushPacket \/ NotifyWorker
  <2>1. reader'.payload = reader.payload
    BY <1>0, <1>4 DEF PushPacket, NotifyWorker, ReaderType
  <2> QED
    BY <2>1
<1>5. CASE ReadChunk
  <2> DEFINE rest == FileSize[reader.file] - reader.pos
             size == flightpkt_header_size + (IF rest < readChunkSize THEN rest ELSE readChunkSize)
  <2>1. rest \in Int
    <3>1. reader.file \in Paths /\ reader.pos \in Nat
      BY <1>0, <1>5 DEF ReadChunk, ReaderAt, Inv, ReaderInv, ReaderType
    <3>2. FileSize[reader.file] \in Nat
      BY <3>1, FileAssumption
    <3> QED
      BY <3>1, <3>2
  <2>2. \E pc, pos : reader' = [reader EXCEPT !.pc = pc, !.pos = pos, !.payload = size]
    BY <1>5 DEF ReadChunk
  <2> HIDE DEF rest
  <2>3. size <= MaxPayload
    BY <2>1 DEF MaxPayload, flightpkt_header_size, readChunkSize
  <2> HIDE DEF size
  <2>4. reader'.payload = size
    BY <1>0, <2>2 DEF ReaderType
  <2> QED
    BY <2>3, <2>4
<1>6. CASE User \/ Terminated \/ \E c \in Channels : socketWorkerTask(c)
  BY <1>6, UserFrame, WorkerFrame DEF Inv, Terminated, vars
<1> QED
  BY <1>2, <1>3, <1>4, <1>5, <1>6 DEF Next, fileReaderTask

\* Every step keeps SizeInv.
LEMMA SizeStep ==
  ASSUME Inv, SizeInv, Next PROVE SizeInv'
<1>0. /\ packetQueue \in [Channels -> Seq(SendPacketType)]
      /\ sendPkt \in [Channels -> SendPacketType \union {NoPacket}]
      /\ reader \in ReaderType
  BY DEF Inv, TypeOK
<1>1. reader'.payload <= MaxPayload
  BY PayloadStep DEF SizeInv
<1> DEFINE Fits(p, q) == /\ p # NoPacket => p.actual_payload_size <= MaxPayload
                         /\ \A i \in 1 .. Len(q) : q[i].actual_payload_size <= MaxPayload
<1>2. \A c \in Channels : Fits(sendPkt[c], packetQueue[c])
  BY DEF SizeInv
<1> SUFFICES ASSUME NEW c \in Channels PROVE Fits(sendPkt'[c], packetQueue'[c])
  BY <1>1 DEF SizeInv
<1>3. Fits(sendPkt[c], packetQueue[c])
  BY <1>2
<1>4. ASSUME NEW d \in Channels, d # c, Takes(d) \/ Leaves(d)
      PROVE  Fits(sendPkt'[c], packetQueue'[c])
  <2>1. sendPkt'[c] = sendPkt[c] /\ packetQueue'[c] = packetQueue[c]
    BY <1>0, <1>4 DEF Takes, Leaves
  <2> QED
    BY <1>3, <2>1
<1>5. CASE Quiet
  <2>1. /\ packetQueue' = packetQueue
        /\ \/ sendPkt'[c] = sendPkt[c]
           \/ /\ sendPkt[c] # NoPacket
              /\ sendPkt'[c].actual_payload_size = sendPkt[c].actual_payload_size
    BY <1>5, OrderType DEF Quiet, SendPacketType
  <2> QED
    BY <1>3, <2>1
<1>6. CASE StartReader
  <2>1. packetQueue'[c] = << >> /\ sendPkt'[c] = sendPkt[c]
    BY <1>6 DEF StartReader, ClearedQueues, workers
  <2> QED
    BY <1>3, <2>1
<1>7. CASE PushPacket
  <2> DEFINE p == SendPacket(Head(fec.buffer_packets), reader.payload, reader.target, pushed + 1)
  <2>1. /\ sendPkt'[c] = sendPkt[c]
        /\ packetQueue' = [packetQueue EXCEPT ![reader.target] = Append(@, p)]
        /\ p.actual_payload_size <= MaxPayload
    BY <1>7 DEF PushPacket, PushBack, workers, SendPacket, SizeInv
  <2> HIDE DEF p
  <2>2. packetQueue'[c] = packetQueue[c] \/ packetQueue'[c] = Append(packetQueue[c], p)
    BY <1>0, <2>1
  <2>3. packetQueue[c] \in Seq(SendPacketType)
    BY <1>0
  <2> QED
    BY <1>3, <2>1, <2>2, <2>3
<1>8. CASE Takes(c)
  <2>1. /\ sendPkt'[c] = Head(packetQueue[c]) /\ packetQueue'[c] = Tail(packetQueue[c])
        /\ packetQueue[c] # << >> /\ packetQueue[c] \in Seq(SendPacketType)
    BY <1>0, <1>8 DEF Takes
  <2> QED
    BY <1>3, <2>1, HeadTailProperties
<1>9. CASE Leaves(c)
  <2>1. sendPkt'[c] = NoPacket /\ packetQueue' = packetQueue
    BY <1>0, <1>9 DEF Leaves
  <2> QED
    BY <1>3, <2>1
<1> QED
  BY <1>4, <1>5, <1>6, <1>7, <1>8, <1>9, ChannelStep
\* Division with remainder is unique.
LEMMA ModUnique ==
  ASSUME NEW M \in Nat \ {0}, NEW q \in Int, NEW rem \in 0 .. M - 1
  PROVE  (M * q + rem) % M = rem
OBVIOUS

\* Counting modulo M.
LEMMA ModSucc ==
  ASSUME NEW M \in Nat \ {0}, NEW n \in Nat
  PROVE  ((n % M) + 1) % M = (n + 1) % M
<1> DEFINE q == n \div M
           rem == n % M
<1>1. n = M * q + rem /\ q \in Int /\ rem \in 0 .. M - 1
  OBVIOUS
<1> HIDE DEF q, rem
<1>2. CASE rem + 1 < M
  <2>1. (n + 1) % M = rem + 1
    <3>1. n + 1 = M * q + (rem + 1) /\ rem + 1 \in 0 .. M - 1
      BY <1>1, <1>2
    <3> QED
      BY <1>1, <3>1, ModUnique
  <2>2. (rem + 1) % M = rem + 1
    BY <1>1, <1>2
  <2> QED
    BY <2>1, <2>2 DEF rem
<1>3. CASE rem + 1 = M
  <2>1. (n + 1) % M = 0
    <3>1. n + 1 = M * (q + 1) + 0 /\ q + 1 \in Int /\ 0 \in 0 .. M - 1
      BY <1>1, <1>3
    <3> QED
      BY <3>1, ModUnique
  <2>2. (rem + 1) % M = 0
    BY <1>1, <1>3
  <2> QED
    BY <2>1, <2>2 DEF rem
<1> QED
  BY <1>1, <1>2, <1>3

\* The workers that have a number and have not sent yet.
Sending == {c \in Channels : wpc[c] = "send"}

\* There are finitely many of them.
LEMMA SendingFinite == IsFiniteSet(Sending) /\ IsFiniteSet(Sending')
<1>1. IsFiniteSet(Channels)
  BY PoolAssumption, FS_Interval DEF Channels
<1> QED
  BY <1>1, FS_Subset DEF Sending

\* A packet of at most MaxPayload bytes passes Serialize.
LEMMA SizedSerializes ==
  ASSUME SizeInv, NEW c \in Channels, sendPkt[c] \in SendPacketType PROVE Serialized(c)
<1>1. sendPkt[c].actual_payload_size \in Nat /\ sendPkt[c].actual_payload_size <= MaxPayload
  BY OrderType DEF SizeInv, SendPacketType
<1> QED
  BY <1>1 DEF Serialized, Serialize, fec_header_size, kMaxDataSize, MaxPayload,
              flightpkt_header_size, readChunkSize

\* When no thread hangs in sendto for 5 seconds, every step keeps SeqNumbersGapFree.
LEMMA GapStep ==
  ASSUME "stuck" \notin Faults, Inv, SizeInv, SeqNumbersGapFree, Next
  PROVE  SeqNumbersGapFree'
<1>0. /\ wpc \in [Channels -> WorkerPoints] /\ sends \in Nat
      /\ sendPkt \in [Channels -> SendPacketType \union {NoPacket}]
      /\ SeqModulus \in Nat \ {0}
  BY SeqAssumption DEF Inv, TypeOK
<1>1. Cardinality(Sending) \in Nat
  BY SendingFinite, FS_CardinalityType
<1>2. globalSeqCounter = (sends + Cardinality(Sending)) % SeqModulus
  BY DEF SeqNumbersGapFree, Sending
<1> SUFFICES globalSeqCounter' = (sends' + Cardinality(Sending')) % SeqModulus
  BY DEF SeqNumbersGapFree, Sending
<1>3. ASSUME Sending' = Sending, UNCHANGED <<globalSeqCounter, sends>>
      PROVE  globalSeqCounter' = (sends' + Cardinality(Sending')) % SeqModulus
  BY <1>2, <1>3
<1>4. CASE User \/ Terminated
  BY <1>3, <1>4, UserFrame DEF Terminated, vars, members, stream, workers, history, Sending
<1>5. CASE fileReaderTask
  BY <1>3, <1>5, ReaderFrame, ReaderMoves DEF Inv, Sending
<1>6. CASE Gui
  <2>1. ASSUME NEW c \in Channels PROVE wpc'[c] = "send" <=> wpc[c] = "send"
    <3>1. ASSUME gui.pc = "spawn", c = gui.i PROVE wpc[c] = "none"
      BY <3>1 DEF Inv, GuiInv, ThreadInv, Unjoined, Channels
    <3>2. ASSUME gui.pc = "join", c + 2 = gui.i PROVE wpc[c] # "send"
      <4>1. JoinWorker \/ JoinReader
        BY <1>6, <3>2 DEF Gui, WakeEnabled, StartReader, StartWorker, StartWorkerFails, StopBegin,
                          StopWakeState, StopWakeQueue, CloseSockets
      <4>2. gui.i # 1 /\ gui.i - 2 = c
        BY <3>2 DEF Channels
      <4> QED
        BY <4>1, <4>2 DEF JoinWorker, JoinReader, WorkerBlocked
    <3> QED
      BY <1>6, <3>1, <3>2, GuiMoves DEF Inv
  <2> QED
    BY <1>3, <1>6, <2>1, GuiFrame DEF Sending
<1>7. ASSUME NEW c \in Channels, socketWorkerTask(c)
      PROVE  globalSeqCounter' = (sends' + Cardinality(Sending')) % SeqModulus
  <2>0. \A d \in Channels \ {c} : wpc'[d] = wpc[d]
    BY <1>7, WorkerFrame DEF Inv
  <2>1. CASE WorkerAssignSeq(c)
    <3>1. wpc[c] = "loss" /\ wpc'[c] = "send" /\ sends' = sends
      BY <1>0, <2>1 DEF WorkerAssignSeq, Goto, Sent
    <3>2. Sending' = Sending \union {c} /\ c \notin Sending
      BY <2>0, <3>1 DEF Sending
    <3>3. Cardinality(Sending') = Cardinality(Sending) + 1
      BY <3>2, SendingFinite, FS_AddElement
    <3>4. globalSeqCounter' = (globalSeqCounter + 1) % SeqModulus
      BY <2>1 DEF WorkerAssignSeq, NextSeq
    <3> DEFINE n == sends + Cardinality(Sending)
    <3>5. n \in Nat /\ sends' + Cardinality(Sending') = n + 1
      BY <1>0, <1>1, <3>1, <3>3
    <3> HIDE DEF n
    <3>6. ((n % SeqModulus) + 1) % SeqModulus = (n + 1) % SeqModulus
      BY <1>0, <3>5, ModSucc
    <3>7. globalSeqCounter = n % SeqModulus
      BY <1>2 DEF n
    <3> QED
      BY <3>4, <3>5, <3>6, <3>7
  <2>2. CASE WorkerSend(c)
    <3>1. wpc[c] = "send" /\ wpc'[c] = "top" /\ UNCHANGED globalSeqCounter
      BY <1>0, <2>2 DEF WorkerSend, Goto
    <3>2. Sending' = Sending \ {c} /\ c \in Sending
      BY <2>0, <3>1 DEF Sending
    <3>3. Cardinality(Sending') = Cardinality(Sending) - 1
      BY <3>2, SendingFinite, FS_RemoveElement
    <3>4. sends' = sends + 1
      BY <2>2, <3>1, PacketUnwrap, SizedSerializes DEF WorkerSend, Inv
    <3>5. sends' + Cardinality(Sending') = sends + Cardinality(Sending)
      BY <1>0, <1>1, <3>3, <3>4
    <3> QED
      BY <1>2, <3>1, <3>5
  <2>3. CASE ~WorkerAssignSeq(c) /\ ~WorkerSend(c)
    <3>1. \E from, to : /\ Goto(c, from, to) /\ from # "send" /\ to # "send"
                        /\ UNCHANGED <<globalSeqCounter, sends>>
      BY <1>7, <2>3
      DEF socketWorkerTask, WorkerTop, WorkerTestRunning, WorkerTestQueue, WorkerBreak1,
          WorkerContinue, WorkerPop, WorkerTestRunning2, WorkerTestState, WorkerBreak2,
          WorkerProceed, WorkerDrop, Branch, Sent
    <3>2. wpc[c] # "send" /\ wpc'[c] # "send"
      BY <1>0, <3>1 DEF Goto
    <3>3. Sending' = Sending
      BY <2>0, <3>2 DEF Sending
    <3> QED
      BY <1>3, <3>1, <3>3
  <2> QED
    BY <2>1, <2>2, <2>3
<1> QED
  BY <1>4, <1>5, <1>6, <1>7 DEF Next

\* Sequence numbers have no gaps of the sender's making: dropped packets use none up, and
\* Serialize refuses none that has one.  A worker terminated in the middle of sendto takes
\* its number with it, so this is for runs in which sendto does not hang.
THEOREM NumbersGapFree ==
  ASSUME "stuck" \notin Faults
  PROVE  Spec => []SeqNumbersGapFree
<1> DEFINE I == SizeInv /\ SeqNumbersGapFree
<1>1. Init => I
  <2> SUFFICES ASSUME Init PROVE I
    OBVIOUS
  <2>1. /\ reader.payload = 0 /\ globalSeqCounter = 0 /\ sends = 0
        /\ \A c \in Channels : sendPkt[c] = NoPacket /\ packetQueue[c] = << >> /\ wpc[c] = "none"
    BY DEF Init, Reader
  <2>2. SizeInv
    BY <2>1 DEF SizeInv, MaxPayload, flightpkt_header_size, readChunkSize
  <2>3. {c \in Channels : wpc[c] = "send"} = {}
    BY <2>1
  <2>4. SeqNumbersGapFree
    <3>1. Cardinality({c \in Channels : wpc[c] = "send"}) = 0
      BY <2>3, FS_EmptySet
    <3>2. (0 + 0) % SeqModulus = 0
      BY SeqAssumption
    <3> QED
      BY <2>1, <3>1, <3>2 DEF SeqNumbersGapFree
  <2> QED
    BY <2>2, <2>4
<1>2. Inv /\ I /\ [Next]_vars => I'
  <2>1. I /\ UNCHANGED vars => I'
    BY DEF SizeInv, SeqNumbersGapFree, vars, members, stream, workers, history
  <2> QED
    BY <2>1, SizeStep, GapStep
<1>3. I => SeqNumbersGapFree
  OBVIOUS
<1> HIDE DEF I
<1> QED
  BY <1>1, <1>2, <1>3, InvAlways, PTL DEF Spec
=============================================================================
