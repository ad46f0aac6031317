------------------------------ MODULE Udpserver ------------------------------
(***************************************************************************)
(* The sender core, src/Channel_sim/Udpserver.cpp and Udpserver.h: one     *)
(* thread that reads the file and feeds the FEC encoder, one worker thread *)
(* per channel that applies simulated loss and sends, and the GUI thread   *)
(* that starts, reconfigures and finally destroys the server.              *)
(*                                                                         *)
(* A step is one access to state the threads share: an atomic load or      *)
(* store, or a critical section of the GUI or reader thread.  Workers hold *)
(* a channel mutex across steps; taking it is merged with the first load   *)
(* made under it and releasing it with the last.                           *)
(***************************************************************************)
EXTENDS ForwardErrorCorrection

CONSTANTS
  SOCKET_POOL_SIZE,   \* channels; 3 in the code
  fec_k, fec_r,       \* media and FEC packets of a group; 10 and 2 in the code
  SeqModulus,         \* values of the counter globalSeqCounter; 2^8 in the code
  Paths,              \* names of files
  Unreadable,         \* those of them that QFile::open fails on
  FileSize,           \* length in bytes of each file
  LossRates,          \* loss rates the sliders can set, in thousandths
  Faults,             \* which failures of the environment happen
  MaxUses             \* bound on the uses of each control of the window

Channels == 0 .. SOCKET_POOL_SIZE - 1
UserOps  == {"Play", "Toggle", "File", "Slider"}

ASSUME PoolAssumption  == SOCKET_POOL_SIZE \in Nat \ {0}
ASSUME FecAssumption   == fec_k \in 1 .. 16 /\ fec_r \in 1 .. fec_k
ASSUME SeqAssumption   == SeqModulus \in Nat \ {0}
ASSUME FileAssumption  == /\ "" \notin Paths
                          /\ Unreadable \subseteq Paths
                          /\ FileSize \in [Paths -> Nat]
ASSUME LossAssumption  == LossRates \subseteq 0 .. 1000
ASSUME FaultAssumption == Faults \subseteq {"socket", "thread", "stuck", "read"}
ASSUME BoundAssumption == MaxUses \in [UserOps -> Nat]

flightpkt_header_size == 15
fec_header_size       == 6
packet_header_size    == 7
readChunkSize         == 1009
total_length ==
  readChunkSize + packet_header_size + fec_header_size + flightpkt_header_size

VARIABLES
  \* --- settings, written by the GUI thread only
  enabled,           \* channel -> atomic<int>, 0 or 1
  lossRate,          \* channel -> atomic<double>, in thousandths
  currentFilePath,   \* "" when no file is chosen
  \* --- life cycle
  is_running,        \* atomic<bool>
  workerThreads,     \* length of the list: entry 0 is the reader, c + 1 worker c
  sockets,           \* channel -> "open", "closed" (a stale handle), "INVALID", "uninit"
  \* --- the data on its way
  packetQueue,       \* channel -> deque<SendPacket>
  currentSocket,     \* atomic<int>, the round-robin pointer
  globalSeqCounter,  \* atomic<uint8_t>
  fec,               \* the encoder
  \* --- the threads
  reader,            \* reader thread: control point and locals
  wpc, sendPkt,      \* worker threads: control point and local sendPkt
  gui,               \* GUI thread: control point, loop index, what follows StopSending
  \* --- bound and history
  uses,              \* control -> times the user has used it
  pushed,            \* packets handed to a channel so far
  startedAt,         \* its value when the transmission was started
  lastSent,          \* channel -> order number of the last packet sent, 0 if none
  sends,             \* calls of sendto so far
  lateSends,         \* channel -> calls of sendto since it was disabled
  passedOver         \* channel -> chunks given to others since it was enabled, served,
                     \*            or the transmission started

settings  == <<enabled, lossRate, currentFilePath>>
lifecycle == <<is_running, workerThreads, sockets>>
stream    == <<packetQueue, currentSocket, globalSeqCounter, fec>>
members   == <<settings, lifecycle, stream>>
workers   == <<wpc, sendPkt>>
history   == <<pushed, startedAt, lastSent, sends, lateSends, passedOver>>
vars      == <<members, reader, workers, gui, uses, history>>

\* An empty SendPacket, and one holding `packet` for `channel`.  `order` numbers
\* the packets as they are handed to the channels (history).
NoPacket == [order |-> 0]

SendPacket(packet, size, channel, order) ==
  [packet_to_send |-> packet, actual_payload_size |-> size, channel_index |-> channel,
   seq |-> 1, order |-> order]

\* A reader thread at control point pc with fresh locals.
Reader(pc) == [pc |-> pc, attempts |-> 0, target |-> 0, file |-> "", pos |-> 0, payload |-> 0]

\* Worker control points: "testr" is about to take queueMutex, "locks" stateMutex;
\* the worker sleeps on a condition at "sleepq" and "sleeps".
QueueMutexFree(c) == wpc[c] \notin {"teste", "runq", "enq"}
NoStateMutex(c)   == TRUE                          \* mutant: the lock is not taken
StateMutexFree(c) == wpc[c] # "tests"

\* Only the channel's worker waits on its conditions: wakeOne and wakeAll are one.
ForgetWake(c) == wpc' = wpc                        \* mutant: the wake-up is forgotten
WakeQueue(c) == wpc' = IF wpc[c] = "sleepq" THEN [wpc EXCEPT ![c] = "testr"] ELSE wpc
WakeState(c) == wpc' = IF wpc[c] = "sleeps" THEN [wpc EXCEPT ![c] = "locks"] ELSE wpc

(***************************************************************************)
(* Construction.  initializeSockets stops at the first failure: WSAStartup *)
(* leaves all handles uninitialized; socket i failing closes the earlier   *)
(* ones, which keep their stale values.  WSACleanup makes every handle     *)
(* useless, so no socket is "open" after it.                               *)
(***************************************************************************)
initializeSockets ==
  {[c \in Channels |-> "open"]} \union
  IF "socket" \in Faults
  THEN {[c \in Channels |-> "uninit"]} \union
       {[c \in Channels |-> CASE c < i -> "closed" [] c = i -> "INVALID" [] c > i -> "uninit"] :
          i \in Channels}
  ELSE {}

Init ==
  /\ enabled = [c \in Channels |-> 0]
  /\ lossRate = [c \in Channels |-> 0]
  /\ currentFilePath = ""
  /\ is_running = FALSE
  /\ workerThreads = 0
  /\ sockets \in initializeSockets
  /\ packetQueue = [c \in Channels |-> << >>]
  /\ currentSocket = 0
  /\ globalSeqCounter = 0
  /\ fec = NewForwardErrorCorrection("kFecMaskRandom")
  /\ reader = Reader("none")
  /\ wpc = [c \in Channels |-> "none"]
  /\ sendPkt = [c \in Channels |-> NoPacket]
  /\ gui = [pc |-> "idle", i |-> 0, ret |-> "idle"]
  /\ uses = [op \in UserOps |-> 0]
  /\ pushed = 0 /\ startedAt = 0 /\ sends = 0
  /\ lastSent = [c \in Channels |-> 0]
  /\ lateSends = [c \in Channels |-> 0]
  /\ passedOver = [c \in Channels |-> 0]

-----------------------------------------------------------------------------
(* The GUI thread: the slots of the window. *)

Use(op) == /\ gui.pc = "idle"
           /\ uses[op] < MaxUses[op]
           /\ uses' = [uses EXCEPT ![op] = @ + 1]

\* Cancelling the dialog sets the empty path.
SetFileName(path) ==
  /\ Use("File")
  /\ currentFilePath' = path
  /\ UNCHANGED <<enabled, lossRate, lifecycle, stream, reader, workers, gui, history>>

\* The rates are within 0 .. 1000, so clamping changes nothing.
setLossRate(c, rate) ==
  /\ Use("Slider")
  /\ lossRate' = [lossRate EXCEPT ![c] = rate]
  /\ UNCHANGED <<enabled, currentFilePath, lifecycle, stream, reader, workers, gui, history>>

\* The exchange of channelStateChange.  A call that changes nothing has no effect.
channelStateChange(c, state) ==
  /\ Use("Toggle")
  /\ enabled[c] # state
  /\ enabled' = [enabled EXCEPT ![c] = state]
  /\ gui' = IF state = 1 THEN [gui EXCEPT !.pc = "wake", !.i = c] ELSE gui
  /\ lateSends' = [lateSends EXCEPT ![c] = 0]
  /\ passedOver' = [passedOver EXCEPT ![c] = 0]
  /\ UNCHANGED <<lossRate, currentFilePath, lifecycle, stream, reader, workers,
                 pushed, startedAt, lastSent, sends>>

\* The rest of it when enabling: wakeOne under stateMutex.
WakeEnabled ==
  /\ gui.pc = "wake"
  /\ StateMutexFree(gui.i)
  /\ WakeState(gui.i)
  /\ gui' = [gui EXCEPT !.pc = "idle", !.i = 0]
  /\ UNCHANGED <<members, reader, sendPkt, uses, history>>

\* StartSending up to the point where it needs the old threads gone.  Without a
\* path, or while is_running is set, it returns at once.
StartSending ==
  /\ Use("Play")
  /\ currentFilePath # ""
  /\ ~is_running
  /\ gui' = [gui EXCEPT !.pc = IF workerThreads > 0 THEN "stop" ELSE "clear", !.ret = "clear"]
  /\ UNCHANGED <<members, reader, workers, history>>

KeptQueues    == packetQueue                       \* mutant: the queues are not cleared
ClearedQueues == [c \in Channels |-> << >>]

\* No thread exists here: clear the queues, reset, create and start the reader.
StartReader ==
  /\ gui.pc = "clear"
  /\ packetQueue' = ClearedQueues
  /\ currentSocket' = 0
  /\ startedAt' = pushed
  /\ passedOver' = [c \in Channels |-> 0]
  /\ \/ /\ is_running' = TRUE
        /\ workerThreads' = 1
        /\ reader' = Reader("path")
        /\ gui' = [pc |-> "spawn", i |-> 0, ret |-> "idle"]
     \/ /\ "thread" \in Faults
        /\ gui' = [pc |-> "idle", i |-> 0, ret |-> "idle"]
        /\ UNCHANGED <<is_running, workerThreads, reader>>
  /\ UNCHANGED <<settings, sockets, globalSeqCounter, fec, workers, uses,
                 pushed, lastSent, sends, lateSends>>

\* Create and start worker gui.i.
StartWorker ==
  /\ gui.pc = "spawn"
  /\ wpc' = [wpc EXCEPT ![gui.i] = "top"]
  /\ workerThreads' = workerThreads + 1
  /\ gui' = IF gui.i = SOCKET_POOL_SIZE - 1
            THEN [gui EXCEPT !.pc = "idle", !.i = 0]
            ELSE [gui EXCEPT !.i = @ + 1]
  /\ UNCHANGED <<settings, is_running, sockets, stream, reader, sendPkt, uses, history>>

StartWorkerFails ==
  /\ gui.pc = "spawn"
  /\ "thread" \in Faults
  /\ gui' = [pc |-> "stop", i |-> 0, ret |-> "idle"]
  /\ UNCHANGED <<members, reader, workers, uses, history>>

\* The window is closed: ~Udpserver calls StopSending.
Close ==
  /\ gui.pc = "idle"
  /\ gui' = [gui EXCEPT !.pc = "stop", !.ret = "dead"]
  /\ UNCHANGED <<members, reader, workers, uses, history>>

-----------------------------------------------------------------------------
(* StopSending *)

NotRunning     == ~is_running                      \* mutant: the list is not looked at
AlreadyStopped == ~is_running /\ workerThreads = 0

\* mutant: is_running is only read
StopBeginLoad ==
  /\ gui.pc = "stop"
  /\ gui' = [gui EXCEPT !.pc = IF AlreadyStopped THEN gui.ret ELSE "stop_s", !.i = 0]
  /\ UNCHANGED <<members, reader, workers, uses, history>>

StopBegin ==
  /\ gui.pc = "stop"
  /\ is_running' = FALSE
  /\ gui' = [gui EXCEPT !.pc = IF AlreadyStopped THEN gui.ret ELSE "stop_s", !.i = 0]
  /\ UNCHANGED <<settings, workerThreads, sockets, stream, reader, workers, uses, history>>

StopWakeState ==
  /\ gui.pc = "stop_s"
  /\ StateMutexFree(gui.i)
  /\ WakeState(gui.i)
  /\ gui' = [gui EXCEPT !.pc = "stop_q"]
  /\ UNCHANGED <<members, reader, sendPkt, uses, history>>

\* After the last channel the joins begin; gui.i then counts the threads left.
StopWakeQueue ==
  /\ gui.pc = "stop_q"
  /\ QueueMutexFree(gui.i)
  /\ WakeQueue(gui.i)
  /\ gui' = IF gui.i = SOCKET_POOL_SIZE - 1
            THEN [gui EXCEPT !.pc = "join", !.i = workerThreads]
            ELSE [gui EXCEPT !.pc = "stop_s", !.i = @ + 1]
  /\ UNCHANGED <<members, reader, sendPkt, uses, history>>

\* wait(5000) on the worker at the end of the list: it has finished, or it sits
\* in a blocking call for more than 5 seconds and is terminated.
WorkerBlocked(c) == wpc[c] \in {"sleepq", "sleeps"} \/ (wpc[c] = "send" /\ "stuck" \in Faults)

JoinWorker ==
  /\ gui.pc = "join"
  /\ gui.i > 1
  /\ LET c == gui.i - 2
     IN  /\ wpc[c] = "done" \/ WorkerBlocked(c)
         /\ wpc' = [wpc EXCEPT ![c] = "none"]
         /\ sendPkt' = [sendPkt EXCEPT ![c] = NoPacket]
  /\ gui' = [gui EXCEPT !.i = @ - 1]
  /\ UNCHANGED <<members, reader, uses, history>>

\* The same for the reader, the first thread of the list; then the list is cleared.
JoinReader ==
  /\ gui.pc = "join"
  /\ gui.i = 1
  /\ reader.pc = "done" \/ (reader.pc = "read" /\ "stuck" \in Faults)
  /\ reader' = Reader("none")
  /\ workerThreads' = 0
  /\ gui' = [gui EXCEPT !.pc = "close", !.i = 0]
  /\ UNCHANGED <<settings, is_running, sockets, stream, workers, uses, history>>

\* mutant: the sockets are kept for the next start
KeepSockets ==
  /\ gui.pc = "close"
  /\ gui' = [gui EXCEPT !.pc = gui.ret]
  /\ UNCHANGED <<members, reader, workers, uses, history>>

\* closesocket on every handle that is not INVALID_SOCKET, then WSACleanup.
CloseSockets ==
  /\ gui.pc = "close"
  /\ sockets' = [c \in Channels |-> "INVALID"]
  /\ gui' = [gui EXCEPT !.pc = gui.ret]
  /\ UNCHANGED <<settings, is_running, workerThreads, stream, reader, workers, uses, history>>

-----------------------------------------------------------------------------
(* fileReaderTask.  Leaving it, its locals die. *)

ReaderAt(pc) == reader.pc = pc /\ UNCHANGED <<settings, workerThreads, sockets, gui, uses>>

\* Give up before the loop.
ReaderAbort == is_running' = FALSE /\ reader' = Reader("done")

ReadPath ==
  /\ ReaderAt("path")
  /\ IF currentFilePath = ""
     THEN ReaderAbort
     ELSE /\ reader' = [reader EXCEPT !.pc = "open", !.file = currentFilePath]
          /\ UNCHANGED is_running
  /\ UNCHANGED <<stream, workers, history>>

OpenFile ==
  /\ ReaderAt("open")
  /\ IF reader.file \in Unreadable
     THEN ReaderAbort
     ELSE reader' = [reader EXCEPT !.pc = "loop"] /\ UNCHANGED is_running
  /\ UNCHANGED <<stream, workers, history>>

\* mutant: attempts is not reset in each round
ReaderLoopStale ==
  /\ ReaderAt("loop")
  /\ reader' = IF is_running /\ reader.pos < FileSize[reader.file]
               THEN [reader EXCEPT !.pc = "scan"]
               ELSE Reader("done")
  /\ UNCHANGED <<is_running, stream, workers, history>>

ReaderLoop ==
  /\ ReaderAt("loop")
  /\ reader' = IF is_running /\ reader.pos < FileSize[reader.file]
               THEN [reader EXCEPT !.pc = "scan", !.attempts = 0]
               ELSE Reader("done")
  /\ UNCHANGED <<is_running, stream, workers, history>>

\* One turn of the search for an enabled channel.  search_start_index is
\* currentSocket + attempts: only this thread moves currentSocket meanwhile.
ScanFromZero == reader.attempts % SOCKET_POOL_SIZE \* mutant: currentSocket is ignored
ScanIndex == (currentSocket + reader.attempts) % SOCKET_POOL_SIZE

ScanHit ==
  /\ ReaderAt("scan")
  /\ reader.attempts < SOCKET_POOL_SIZE /\ is_running
  /\ enabled[ScanIndex] = 1
  /\ reader' = [reader EXCEPT !.pc = "read", !.target = ScanIndex]
  /\ currentSocket' = (ScanIndex + 1) % SOCKET_POOL_SIZE
  /\ passedOver' = [c \in Channels |->
                      IF c # ScanIndex /\ enabled[c] = 1 THEN passedOver[c] + 1 ELSE 0]
  /\ UNCHANGED <<is_running, packetQueue, globalSeqCounter, fec, workers,
                 pushed, startedAt, lastSent, sends, lateSends>>

ScanMiss ==
  /\ ReaderAt("scan")
  /\ reader.attempts < SOCKET_POOL_SIZE /\ is_running
  /\ enabled[ScanIndex] = 0
  /\ reader' = [reader EXCEPT !.attempts = @ + 1]
  /\ UNCHANGED <<is_running, stream, workers, history>>

\* No channel found: leave when stopping, else sleep 10 ms and start over.
ScanEnd ==
  /\ ReaderAt("scan")
  /\ reader.attempts = SOCKET_POOL_SIZE \/ ~is_running
  /\ reader' = IF is_running THEN [reader EXCEPT !.pc = "loop"] ELSE Reader("done")
  /\ UNCHANGED <<is_running, stream, workers, history>>

\* file.read and the call of PacketByFEC with the chunk behind its flight header.
ReadChunk ==
  /\ ReaderAt("read")
  /\ LET rest      == FileSize[reader.file] - reader.pos
         bytesRead == IF rest < readChunkSize THEN rest ELSE readChunkSize
         size      == flightpkt_header_size + bytesRead
     IN  /\ fec' = PacketByFEC(fec, <<reader.file, reader.pos>>, size, fec_k, fec_r)
         /\ reader' = [reader EXCEPT !.pc = IF fec'.buffer_packets = << >> THEN "loop" ELSE "push",
                                     !.pos = @ + bytesRead,
                                     !.payload = size]
  /\ UNCHANGED <<is_running, packetQueue, currentSocket, globalSeqCounter, workers, history>>

\* file.read returns 0 bytes or an error.
ReadFails ==
  /\ ReaderAt("read")
  /\ "read" \in Faults
  /\ reader' = Reader("done")
  /\ UNCHANGED <<is_running, stream, workers, history>>

PushFront(queue, packet) == <<packet>> \o queue   \* mutant: the wrong end
PushBack(queue, packet)  == Append(queue, packet)

\* One packet of buffer_packets into the target's queue, under queueMutex.
PushPacket ==
  /\ ReaderAt("push")
  /\ QueueMutexFree(reader.target)
  /\ packetQueue' = [packetQueue EXCEPT ![reader.target] =
       PushBack(@, SendPacket(Head(fec.buffer_packets), reader.payload, reader.target, pushed + 1))]
  /\ fec' = [fec EXCEPT !.buffer_packets = Tail(@)]
  /\ pushed' = pushed + 1
  /\ reader' = [reader EXCEPT !.pc = "notify"]
  /\ UNCHANGED <<is_running, currentSocket, globalSeqCounter, workers,
                 startedAt, lastSent, sends, lateSends, passedOver>>

\* wakeOne, outside the lock; then the pacing sleep and the next packet.
NotifyWorker ==
  /\ ReaderAt("notify")
  /\ WakeQueue(reader.target)
  /\ reader' = [reader EXCEPT !.pc = IF fec.buffer_packets = << >> THEN "loop" ELSE "push"]
  /\ UNCHANGED <<is_running, stream, sendPkt, history>>

-----------------------------------------------------------------------------
(* socketWorkerTask(c) *)

Goto(c, from, to) == /\ wpc[c] = from
                     /\ wpc' = [wpc EXCEPT ![c] = to]
                     /\ UNCHANGED <<settings, lifecycle, currentSocket, fec, reader, gui, uses,
                                    pushed, startedAt, passedOver>>

Sent == <<sends, lastSent, lateSends>>

\* A step that only decides where to go on.
Branch(c, from, to) ==
  Goto(c, from, to) /\ UNCHANGED <<packetQueue, globalSeqCounter, sendPkt, Sent>>

\* while (is_running)
WorkerTop(c) == Branch(c, "top", IF is_running THEN "testr" ELSE "done")

\* Take queueMutex, on entry or when woken, and load is_running.
WorkerTestRunning(c) == Branch(c, "testr", IF is_running THEN "teste" ELSE "runq")

\* The rest of the wait condition; wait releases queueMutex.
WorkerTestQueue(c) ==
  Branch(c, "teste", IF enabled[c] = 1 /\ packetQueue[c] = << >> THEN "sleepq" ELSE "runq")

\* if (!is_running) break;
WorkerBreak1(c) == Branch(c, "runq", IF is_running THEN "enq" ELSE "done")

\* if (enabled == 0) continue;
WorkerContinue(c) == enabled[c] = 0 /\ Branch(c, "enq", "top")

\* mutant: neither test of the channel state
WorkerPopAlways(c) ==
  /\ Goto(c, "enq", "runs")
  /\ IF packetQueue[c] # << >>
     THEN /\ sendPkt' = [sendPkt EXCEPT ![c] = Head(packetQueue[c])]
          /\ packetQueue' = [packetQueue EXCEPT ![c] = Tail(@)]
     ELSE UNCHANGED <<sendPkt, packetQueue>>
  /\ UNCHANGED <<globalSeqCounter, Sent>>

\* Take the front packet, if there is one.
WorkerPop(c) ==
  /\ enabled[c] = 1
  /\ Goto(c, "enq", "locks")
  /\ IF packetQueue[c] # << >>
     THEN /\ sendPkt' = [sendPkt EXCEPT ![c] = Head(packetQueue[c])]
          /\ packetQueue' = [packetQueue EXCEPT ![c] = Tail(@)]
     ELSE UNCHANGED <<sendPkt, packetQueue>>
  /\ UNCHANGED <<globalSeqCounter, Sent>>

\* Take stateMutex, on entry or when woken, and load is_running.
WorkerTestRunning2(c) == Branch(c, "locks", IF is_running THEN "tests" ELSE "runs")

\* The rest of the wait condition; wait, or leaving the block, releases stateMutex.
WorkerTestState(c) == Branch(c, "tests", IF enabled[c] = 0 THEN "sleeps" ELSE "runs")

\* if (!is_running) break; a packet taken from the queue is given up.
WorkerBreak2(c) ==
  /\ ~is_running
  /\ Goto(c, "runs", "done")
  /\ sendPkt' = [sendPkt EXCEPT ![c] = NoPacket]
  /\ UNCHANGED <<packetQueue, globalSeqCounter, Sent>>

\* packet_found and a packet with a payload, or nothing to do.
WorkerProceed(c) ==
  is_running /\ Branch(c, "runs", IF sendPkt[c] = NoPacket THEN "top" ELSE "loss")

\* globalSeqCounter.fetch_add(1)
UnboundedSeq == globalSeqCounter + 1               \* mutant: the counter is wider
NextSeq      == (globalSeqCounter + 1) % SeqModulus

\* mutant: the number is assigned before the loss simulation
WorkerDropLate(c) ==
  /\ lossRate[c] > 0
  /\ Goto(c, "loss", "top")
  /\ sendPkt' = [sendPkt EXCEPT ![c] = NoPacket]
  /\ globalSeqCounter' = NextSeq
  /\ UNCHANGED <<packetQueue, Sent>>

WorkerDrop(c) ==
  /\ lossRate[c] > 0
  /\ Goto(c, "loss", "top")
  /\ sendPkt' = [sendPkt EXCEPT ![c] = NoPacket]
  /\ UNCHANGED <<packetQueue, globalSeqCounter, Sent>>

\* distribution(generator) < 1.0 always: at a loss rate of 1 every packet is dropped.
WorkerAssignSeq(c) ==
  /\ lossRate[c] < 1000
  /\ Goto(c, "loss", "send")
  /\ sendPkt' = [sendPkt EXCEPT ![c].seq = globalSeqCounter]
  /\ globalSeqCounter' = NextSeq
  /\ UNCHANGED <<packetQueue, Sent>>

\* Serialize and, when that worked, sendto; an error is only logged.
Serialized(c) == LET size == sendPkt[c].actual_payload_size
                 IN  Serialize(size + fec_header_size, size) = size + fec_header_size

WorkerSend(c) ==
  /\ Goto(c, "send", "top")
  /\ sendPkt' = [sendPkt EXCEPT ![c] = NoPacket]
  /\ IF Serialized(c)
     THEN /\ sends' = sends + 1
          /\ lastSent' = [lastSent EXCEPT ![c] = sendPkt[c].order]
          /\ lateSends' = [lateSends EXCEPT ![c] = IF enabled[c] = 1 THEN 0 ELSE @ + 1]
     ELSE UNCHANGED Sent
  /\ UNCHANGED <<packetQueue, globalSeqCounter>>

-----------------------------------------------------------------------------

User ==
  \/ \E p \in Paths \union {""} : SetFileName(p)
  \/ \E c \in Channels, rate \in LossRates : setLossRate(c, rate)
  \/ \E c \in Channels, state \in {0, 1} : channelStateChange(c, state)
  \/ StartSending
  \/ Close

Gui ==
  \/ WakeEnabled \/ StartReader \/ StartWorker \/ StartWorkerFails
  \/ StopBegin \/ StopWakeState \/ StopWakeQueue
  \/ JoinWorker \/ JoinReader \/ CloseSockets

fileReaderTask ==
  \/ ReadPath \/ OpenFile \/ ReaderLoop \/ ScanHit \/ ScanMiss \/ ScanEnd
  \/ ReadChunk \/ ReadFails \/ PushPacket \/ NotifyWorker

socketWorkerTask(c) ==
  \/ WorkerTop(c) \/ WorkerTestRunning(c) \/ WorkerTestQueue(c) \/ WorkerBreak1(c)
  \/ WorkerContinue(c) \/ WorkerPop(c) \/ WorkerTestRunning2(c) \/ WorkerTestState(c)
  \/ WorkerBreak2(c) \/ WorkerProceed(c) \/ WorkerDrop(c) \/ WorkerAssignSeq(c) \/ WorkerSend(c)

\* The server is destroyed.
Terminated == gui.pc = "dead" /\ UNCHANGED vars

Next == User \/ Gui \/ fileReaderTask \/ (\E c \in Channels : socketWorkerTask(c)) \/ Terminated

Spec == Init /\ [][Next]_vars

(***************************************************************************)
(* Fairness.  Every thread that can go on eventually does: the operating   *)
(* system schedules them all.  It is strong fairness because a thread that *)
(* waits for a mutex which is free again and again gets it in the end;     *)
(* a worker of a disabled channel takes and drops queueMutex all the time. *)
(* Nothing is assumed of the user.                                         *)
(***************************************************************************)
Fairness ==
  /\ SF_vars(Gui)
  /\ SF_vars(fileReaderTask)
  /\ \A c \in Channels : SF_vars(socketWorkerTask(c))

FairSpec == Spec /\ Fairness

-----------------------------------------------------------------------------
(* Types *)

Chunk == Paths \X Nat

SendPacketType == [packet_to_send : PacketType(Chunk), actual_payload_size : Nat,
                   channel_index : Channels, seq : Nat, order : Nat \ {0}]

WorkerPoints == {"none", "top", "testr", "teste", "sleepq", "runq", "enq", "locks", "tests",
                 "sleeps", "runs", "loss", "send", "done"}
ReaderPoints == {"none", "path", "open", "loop", "scan", "read", "push", "notify", "done"}
GuiPoints    == {"idle", "wake", "clear", "spawn", "stop", "stop_s", "stop_q", "join",
                 "close", "dead"}

ReaderType == [pc : ReaderPoints, attempts : 0 .. SOCKET_POOL_SIZE, target : Channels,
               file : Paths \union {""}, pos : Nat, payload : Nat]

GuiType == [pc : GuiPoints, i : 0 .. SOCKET_POOL_SIZE + 1, ret : {"idle", "clear", "dead"}]

(* The type invariant of Udpserver's members, its threads and the history. *)
TypeOK ==
  /\ is_running \in BOOLEAN
  /\ enabled \in [Channels -> {0, 1}]
  /\ lossRate \in [Channels -> 0 .. 1000]
  /\ packetQueue \in [Channels -> Seq(SendPacketType)]
  /\ currentFilePath \in Paths \union {""}
  /\ currentSocket \in Channels
  /\ globalSeqCounter \in 0 .. SeqModulus - 1
  /\ sockets \in [Channels -> {"open", "closed", "INVALID", "uninit"}]
  /\ workerThreads \in 0 .. SOCKET_POOL_SIZE + 1
  /\ fec \in FecType(Chunk)
  /\ reader \in ReaderType
  /\ wpc \in [Channels -> WorkerPoints]
  /\ sendPkt \in [Channels -> SendPacketType \union {NoPacket}]
  /\ gui \in GuiType
  /\ uses \in [UserOps -> Nat]
  /\ pushed \in Nat
  /\ startedAt \in 0 .. pushed
  /\ lastSent \in [Channels -> Nat]
  /\ sends \in Nat
  /\ lateSends \in [Channels -> Nat]
  /\ passedOver \in [Channels -> Nat]

-----------------------------------------------------------------------------
(* Safety *)

(***************************************************************************)
(* No wake-up is lost.  A worker asleep on queueCondition has an empty     *)
(* queue, unless the reader is just about to wake it; one asleep on        *)
(* stateCondition has a disabled channel, unless channelStateChange is     *)
(* just about to wake it.                                                  *)
(***************************************************************************)
NoLostWakeup ==
  \A c \in Channels :
    /\ wpc[c] = "sleepq" /\ packetQueue[c] # << >> => reader.pc = "notify" /\ reader.target = c
    /\ wpc[c] = "sleeps" /\ enabled[c] = 1 => gui.pc = "wake" /\ gui.i = c

(***************************************************************************)
(* When StopSending starts to wait for the threads, no worker is left on a *)
(* condition variable, whatever it was doing when is_running was cleared:  *)
(* a sleeper would cost the GUI 5 seconds and then be terminated by force. *)
(***************************************************************************)
StopWakesEveryWorker ==
  gui.pc = "join" => \A c \in Channels : wpc[c] \notin {"sleepq", "sleeps"}

(***************************************************************************)
(* StopSending leaves no thread behind, even if StartSending gave up half  *)
(* way: sockets are closed, queues cleared and the object destroyed only   *)
(* when neither the reader nor any worker exists.                          *)
(***************************************************************************)
NoThreadOutlivesStop ==
  gui.pc \in {"close", "clear", "dead"} =>
    reader.pc = "none" /\ \A c \in Channels : wpc[c] = "none"

(***************************************************************************)
(* Disabling a channel takes effect after at most one more packet: the one *)
(* its worker had already checked the channel state for.                   *)
(***************************************************************************)
AtMostOneLateSend == \A c \in Channels : lateSends[c] <= 1

Earlier(p, q) == p.order < q.order

(***************************************************************************)
(* A channel sends its packets in the order the encoder produced them, and *)
(* none of them twice: what was sent, the packet in the worker's hands and *)
(* the queue are strictly ordered.                                         *)
(***************************************************************************)
ChannelOrder ==
  \A c \in Channels :
    /\ lastSent[c] <= pushed
    /\ sendPkt[c] # NoPacket => lastSent[c] < sendPkt[c].order /\ sendPkt[c].order <= pushed
    /\ \A i \in 1 .. Len(packetQueue[c]) :
         /\ lastSent[c] < packetQueue[c][i].order /\ packetQueue[c][i].order <= pushed
         /\ sendPkt[c] # NoPacket => Earlier(sendPkt[c], packetQueue[c][i])
         /\ \A j \in 1 .. i - 1 : Earlier(packetQueue[c][j], packetQueue[c][i])

(***************************************************************************)
(* A transmission carries its own packets only: nothing that an earlier    *)
(* start left in a queue or in a worker's hands is sent by a later one.    *)
(***************************************************************************)
NoStalePacket ==
  \A c \in Channels :
    wpc[c] # "none" =>
      /\ sendPkt[c] # NoPacket => sendPkt[c].order > startedAt
      /\ \A i \in 1 .. Len(packetQueue[c]) : packetQueue[c][i].order > startedAt

\* The files that pieces of a sequence of packets, or of a SendPacket, come from.
FilesOf(packets)    == UNION {{x.chunk[1] : x \in packets[i].data} : i \in DOMAIN packets}
FilesOfSend(packet) == FilesOf(<<packet.packet_to_send>>)

FilesOnTheWay ==
  FilesOf(fec.media_packets) \union FilesOf(fec.buffer_packets) \union
  (UNION {FilesOfSend(sendPkt[c]) : c \in {d \in Channels : sendPkt[d] # NoPacket}}) \union
  (UNION {UNION {FilesOfSend(packetQueue[c][i]) : i \in DOMAIN packetQueue[c]} : c \in Channels})

(***************************************************************************)
(* A start does not reset the encoder, so a group begun with one file is   *)
(* continued with the next.  No such group gets out: while a socket is     *)
(* open, everything in the encoder, the queues and the workers' hands is   *)
(* of one file.                                                            *)
(***************************************************************************)
OpenSocketCarriesOneFile ==
  (\E c \in Channels : sockets[c] = "open") => Cardinality(FilesOnTheWay) <= 1

(***************************************************************************)
(* Sequence numbers have no gaps of the sender's making: the counter,      *)
(* modulo its width, is the number of sendto calls made and under way.  A  *)
(* packet dropped by the loss simulation does not use a number up.         *)
(***************************************************************************)
SeqNumbersGapFree ==
  globalSeqCounter = (sends + Cardinality({c \in Channels : wpc[c] = "send"})) % SeqModulus

(***************************************************************************)
(* The round robin is fair: while a channel is enabled, fewer than         *)
(* SOCKET_POOL_SIZE chunks of a transmission go to other channels before   *)
(* it gets one.                                                            *)
(***************************************************************************)
BoundedBypass == \A c \in Channels : passedOver[c] < SOCKET_POOL_SIZE

-----------------------------------------------------------------------------
(* Liveness *)

(***************************************************************************)
(* StopSending always finishes: the window closes, and a restart gets past *)
(* the old threads.                                                        *)
(***************************************************************************)
StopCompletes == gui.pc = "stop" ~> gui.pc \in {"idle", "clear", "dead"}

(***************************************************************************)
(* A channel that stays enabled while the server runs gets rid of all its  *)
(* packets: each is sent or dropped by the loss simulation.                *)
(***************************************************************************)
EnabledChannelDrains ==
  \A c \in Channels :
    <>[](is_running /\ enabled[c] = 1) => <>[](packetQueue[c] = << >> /\ sendPkt[c] = NoPacket)

(***************************************************************************)
(* The file is read to its end when some channel stays enabled.            *)
(***************************************************************************)
ReaderFinishes ==
  (\E c \in Channels : <>[](is_running /\ enabled[c] = 1)) => <>(reader.pc = "done")

-----------------------------------------------------------------------------
(* What the comments and the manual say and the code does not do. *)

(***************************************************************************)
(* The start button starts sending (manual, line 34): sendto is called on  *)
(* an open socket.                                                         *)
(***************************************************************************)
SendsOnOpenSocket == \A c \in Channels : wpc[c] = "send" => sockets[c] = "open"

(***************************************************************************)
(* The sender polls enabled channels only (manual, line 64): no packet is  *)
(* put into the queue of a disabled channel.                               *)
(***************************************************************************)
PushesToEnabledOnly ==
  [][\A c \in Channels :
       Len(packetQueue'[c]) > Len(packetQueue[c]) => enabled[c] = 1]_vars

(***************************************************************************)
(* sendto is given the actual length of the packet (comment beside it).    *)
(***************************************************************************)
SendsActualLength ==
  \A c \in Channels :
    wpc[c] = "send" =>
      total_length = sendPkt[c].actual_payload_size + fec_header_size + packet_header_size

(***************************************************************************)
(* A worker whose channel is disabled waits (manual, line 62).             *)
(***************************************************************************)
DisabledWorkerWaits ==
  \A c \in Channels :
    <>[](is_running /\ enabled[c] = 0 /\ wpc[c] # "none")
      => <>[](wpc[c] \in {"sleepq", "sleeps"})
=============================================================================
