------------------------ MODULE UdpserverSafetyProofs ------------------------
(***************************************************************************)
(* The synchronisation of the sender's threads, proved from Inv: the       *)
(* wake-ups of StopSending, of the reader and of channelStateChange, the   *)
(* double check of the channel state in socketWorkerTask, and the round    *)
(* robin of fileReaderTask.                                                *)
(***************************************************************************)
EXTENDS UdpserverProofs

-----------------------------------------------------------------------------
(* StopSending *)

\* StopSending has already passed channel c with its wake-up of stateCondition,
\* and of queueCondition.
StateWoken(c) == \/ gui.pc = "join"
                 \/ gui.pc = "stop_s" /\ c < gui.i
                 \/ gui.pc = "stop_q" /\ c <= gui.i

QueueWoken(c) == \/ gui.pc = "join"
                 \/ gui.pc \in {"stop_s", "stop_q"} /\ c < gui.i

\* is_running is cleared before StopSending wakes anybody, and it takes the mutex to do
\* so: a worker it has passed cannot be between testing is_running and going to sleep.
StopInv ==
  \A c \in Channels :
    /\ StateWoken(c) => wpc[c] \notin {"tests", "sleeps"}
    /\ QueueWoken(c) => wpc[c] \notin {"teste", "sleepq"}

\* Every step keeps StopInv.
LEMMA StopInvStep ==
  ASSUME Inv, StopInv, Next PROVE StopInv'
<1> USE PoolAssumption
<1> SUFFICES ASSUME NEW c \in Channels
             PROVE  /\ StateWoken(c)' => wpc'[c] \notin {"tests", "sleeps"}
                    /\ QueueWoken(c)' => wpc'[c] \notin {"teste", "sleepq"}
  BY DEF StopInv
<1>0. /\ StateWoken(c) => wpc[c] \notin {"tests", "sleeps"}
      /\ QueueWoken(c) => wpc[c] \notin {"teste", "sleepq"}
      /\ gui \in GuiType /\ wpc \in [Channels -> WorkerPoints]
  BY DEF StopInv, Inv, TypeOK
<1>1. ASSUME ~(gui'.pc \in {"stop_s", "stop_q", "join"}) PROVE ~StateWoken(c)' /\ ~QueueWoken(c)'
  BY <1>1 DEF StateWoken, QueueWoken
<1>2. CASE User
  <2>1. gui.pc = "idle" /\ UNCHANGED wpc
    BY <1>2, UserFrame
  <2>2. gui'.pc \in {"idle", "wake", "stop", "clear"}
    BY <1>0, <1>2, <2>1
    DEF User, SetFileName, setLossRate, channelStateChange, StartSending, Close, GuiType
  <2> QED
    BY <1>1, <2>2
<1>3. CASE fileReaderTask
  <2>1. UNCHANGED gui
    BY <1>3, ReaderFrame
  <2> QED
    BY <1>0, <1>3, <2>1, ReaderMoves DEF Inv, StateWoken, QueueWoken
<1>4. ASSUME NEW d \in Channels, socketWorkerTask(d), d # c
      PROVE  /\ StateWoken(c)' => wpc'[c] \notin {"tests", "sleeps"}
             /\ QueueWoken(c)' => wpc'[c] \notin {"teste", "sleepq"}
  BY <1>0, <1>4, WorkerFrame DEF Inv, StateWoken, QueueWoken
<1>5. CASE socketWorkerTask(c)
  <2>1. UNCHANGED gui
    BY <1>5, WorkerFrame DEF Inv
  <2>2. StateWoken(c) \/ QueueWoken(c) => ~is_running
    BY DEF Inv, ThreadInv, StateWoken, QueueWoken
  <2>3. /\ wpc'[c] = "teste" => is_running
        /\ wpc'[c] = "sleepq" => wpc[c] = "teste"
        /\ wpc'[c] = "tests" => is_running
        /\ wpc'[c] = "sleeps" => wpc[c] = "tests"
    BY <1>5, WorkerMoves DEF Inv
  <2> QED
    BY <1>0, <2>1, <2>2, <2>3 DEF StateWoken, QueueWoken
<1>6. CASE WakeEnabled \/ StartReader \/ StartWorkerFails \/ JoinReader
  <2>1. CASE WakeEnabled \/ JoinReader
    BY <1>0, <1>1, <2>1 DEF WakeEnabled, JoinReader, GuiType
  <2>2. CASE StartReader \/ StartWorkerFails
    BY <1>1, <2>2 DEF StartReader, StartWorkerFails
  <2> QED
    BY <1>6, <2>1, <2>2
<1>7. CASE StartWorker
  <2>1. gui'.pc \in {"idle", "spawn"}
    BY <1>0, <1>7 DEF StartWorker, GuiType
  <2> QED
    BY <1>1, <2>1
<1>8. CASE CloseSockets
  <2>1. gui'.pc = gui.ret /\ gui.ret \in {"idle", "clear", "dead"}
    BY <1>0, <1>8 DEF CloseSockets, GuiType
  <2> QED
    BY <1>1, <2>1
<1>9. CASE StopBegin
  <2>1. gui'.pc \in {"idle", "clear", "dead", "stop_s"} /\ gui'.i = 0
    BY <1>0, <1>9 DEF StopBegin, GuiType
  <2>2. ~(c < 0)
    BY DEF Channels
  <2> QED
    BY <2>1, <2>2 DEF StateWoken, QueueWoken
<1>10. CASE StopWakeState
  <2>1. /\ gui.pc = "stop_s" /\ gui'.pc = "stop_q" /\ gui'.i = gui.i /\ gui.i \in Channels
    BY <1>0, <1>10 DEF StopWakeState, GuiType, Inv, GuiInv
  <2>2. /\ wpc[gui.i] # "tests"
        /\ wpc' = IF wpc[gui.i] = "sleeps" THEN [wpc EXCEPT ![gui.i] = "locks"] ELSE wpc
    BY <1>10 DEF StopWakeState, StateMutexFree, WakeState
  <2>3. wpc'[gui.i] \notin {"tests", "sleeps"} /\ \A d \in Channels \ {gui.i} : wpc'[d] = wpc[d]
    BY <1>0, <2>1, <2>2
  <2>4. wpc'[c] = wpc[c] \/ wpc'[c] = "locks"
    BY <1>0, <2>1, <2>2
  <2>5. c = gui.i \/ (StateWoken(c)' => StateWoken(c))
    BY <2>1 DEF StateWoken, Channels
  <2>6. QueueWoken(c)' => QueueWoken(c)
    BY <2>1 DEF QueueWoken
  <2> QED
    BY <1>0, <2>3, <2>4, <2>5, <2>6
<1>11. CASE StopWakeQueue
  <2>1. /\ gui.pc = "stop_q" /\ gui.i \in Channels
        /\ \/ gui'.pc = "join" /\ gui.i = SOCKET_POOL_SIZE - 1
           \/ gui'.pc = "stop_s" /\ gui'.i = gui.i + 1
    BY <1>0, <1>11 DEF StopWakeQueue, GuiType, Inv, GuiInv
  <2>2. /\ wpc[gui.i] \notin {"teste", "runq", "enq"}
        /\ wpc' = IF wpc[gui.i] = "sleepq" THEN [wpc EXCEPT ![gui.i] = "testr"] ELSE wpc
    BY <1>11 DEF StopWakeQueue, QueueMutexFree, WakeQueue
  <2>3. wpc'[gui.i] \notin {"teste", "sleepq"} /\ \A d \in Channels \ {gui.i} : wpc'[d] = wpc[d]
    BY <1>0, <2>1, <2>2
  <2>4. wpc'[c] = wpc[c] \/ wpc'[c] = "testr"
    BY <1>0, <2>1, <2>2
  <2>5. c = gui.i \/ (QueueWoken(c)' => QueueWoken(c))
    BY <2>1 DEF QueueWoken, Channels
  <2>6. StateWoken(c)' => StateWoken(c)
    BY <2>1 DEF StateWoken, Channels
  <2> QED
    BY <1>0, <2>3, <2>4, <2>5, <2>6
<1>12. CASE JoinWorker
  <2>1. gui.pc = "join" /\ Gui
    BY <1>12 DEF JoinWorker, Gui
  <2> QED
    BY <1>0, <2>1, GuiMoves DEF Inv, StateWoken, QueueWoken
<1>13. CASE Terminated
  BY <1>0, <1>13 DEF Terminated, vars, workers, StateWoken, QueueWoken
<1> QED
  BY <1>2, <1>3, <1>4, <1>5, <1>6, <1>7, <1>8, <1>9, <1>10, <1>11, <1>12, <1>13 DEF Next, Gui

\* When StopSending starts to join the threads no worker sleeps on a condition, so
\* none of them costs the GUI its 5 seconds and is terminated.
THEOREM StopWakes == Spec => []StopWakesEveryWorker
<1>1. Init => StopInv
  BY DEF Init, StopInv, StateWoken, QueueWoken
<1>2. Inv /\ StopInv /\ [Next]_vars => StopInv'
  <2>1. StopInv /\ UNCHANGED vars => StopInv'
    BY DEF StopInv, StateWoken, QueueWoken, vars, workers
  <2> QED
    BY <2>1, StopInvStep
<1>3. StopInv => StopWakesEveryWorker
  BY DEF StopInv, StateWoken, QueueWoken, StopWakesEveryWorker
<1> QED
  BY <1>1, <1>2, <1>3, InvAlways, PTL DEF Spec

-----------------------------------------------------------------------------
(* Wake-ups *)

\* Every step keeps NoLostWakeup.
LEMMA WakeupStep ==
  ASSUME Inv, NoLostWakeup, Next PROVE NoLostWakeup'
<1> USE PoolAssumption
<1> SUFFICES ASSUME NEW c \in Channels
             PROVE  /\ wpc'[c] = "sleepq" /\ packetQueue'[c] # << >>
                         => reader'.pc = "notify" /\ reader'.target = c
                    /\ wpc'[c] = "sleeps" /\ enabled'[c] = 1 => gui'.pc = "wake" /\ gui'.i = c
  BY DEF NoLostWakeup
<1>0. /\ wpc[c] = "sleepq" /\ packetQueue[c] # << >> => reader.pc = "notify" /\ reader.target = c
      /\ wpc[c] = "sleeps" /\ enabled[c] = 1 => gui.pc = "wake" /\ gui.i = c
  BY DEF NoLostWakeup
<1>a. /\ gui \in GuiType /\ wpc \in [Channels -> WorkerPoints] /\ reader \in ReaderType
       /\ packetQueue \in [Channels -> Seq(SendPacketType)] /\ enabled \in [Channels -> {0, 1}]
  BY DEF Inv, TypeOK
<1>1. CASE User
  <2>1. UNCHANGED <<wpc, packetQueue, reader>> /\ gui.pc = "idle"
    BY <1>1, UserFrame
  <2>2. enabled'[c] = 1 => enabled[c] = 1 \/ (gui'.pc = "wake" /\ gui'.i = c)
    <3>1. ASSUME NEW d \in Channels, NEW state \in {0, 1}, channelStateChange(d, state),
                 enabled'[c] = 1, enabled[c] # 1
          PROVE  gui'.pc = "wake" /\ gui'.i = c
      <4>1. d = c /\ state = 1
        BY <1>a, <3>1 DEF channelStateChange
      <4> QED
        BY <1>a, <3>1, <4>1 DEF channelStateChange, GuiType
    <3>2. UNCHANGED enabled \/ \E d \in Channels, state \in {0, 1} : channelStateChange(d, state)
      BY <1>1 DEF User, SetFileName, setLossRate, StartSending, Close, members, settings
    <3> QED
      BY <3>1, <3>2
  <2> QED
    BY <1>0, <2>1, <2>2
<1>2. CASE fileReaderTask
  <2>1. UNCHANGED <<enabled, gui>>
    BY <1>2, ReaderFrame
  <2>2. wpc'[c] = wpc[c] \/ wpc'[c] = "testr"
    BY <1>2, ReaderMoves DEF Inv
  <2>3. ASSUME wpc'[c] = "sleepq", packetQueue'[c] # << >>
        PROVE  reader'.pc = "notify" /\ reader'.target = c
    <3>1. wpc[c] = "sleepq"
      BY <2>2, <2>3
    <3>2. CASE PushPacket
      <4>1. /\ reader'.pc = "notify" /\ reader'.target = reader.target /\ reader.target \in Channels
            /\ reader.pc = "push"
        BY <1>a, <3>2 DEF PushPacket, ReaderAt, ReaderType
      <4>2. c # reader.target => packetQueue'[c] = packetQueue[c]
        BY <1>a, <3>2, <4>1 DEF PushPacket
      <4> QED
        BY <1>0, <2>3, <3>1, <4>1, <4>2
    <3>3. CASE NotifyWorker
      <4>1. reader.target # c
        BY <1>a, <2>3, <3>3 DEF NotifyWorker, WakeQueue
      <4>2. packetQueue' = packetQueue /\ reader.pc = "notify"
        BY <3>3 DEF NotifyWorker, ReaderAt, stream
      <4> QED
        BY <1>0, <2>3, <3>1, <4>1, <4>2
    <3>4. CASE ~(PushPacket \/ NotifyWorker)
      <4>1. packetQueue' = packetQueue /\ reader.pc # "notify"
        BY <1>2, <3>4
        DEF fileReaderTask, ReadPath, OpenFile, ReaderLoop, ScanHit, ScanMiss, ScanEnd, ReadChunk,
            ReadFails, ReaderAt, stream
      <4> QED
        BY <1>0, <2>3, <3>1, <4>1
    <3> QED
      BY <3>2, <3>3, <3>4
  <2> QED
    BY <1>0, <2>1, <2>2, <2>3
<1>3. ASSUME NEW d \in Channels, socketWorkerTask(d), d # c
      PROVE  /\ wpc'[c] = "sleepq" /\ packetQueue'[c] # << >>
                  => reader'.pc = "notify" /\ reader'.target = c
             /\ wpc'[c] = "sleeps" /\ enabled'[c] = 1 => gui'.pc = "wake" /\ gui'.i = c
  BY <1>0, <1>3, WorkerFrame DEF Inv
<1>4. CASE socketWorkerTask(c)
  <2>1. UNCHANGED enabled
    BY <1>4, WorkerFrame DEF Inv
  <2>2. /\ wpc'[c] = "sleepq" => packetQueue[c] = << >> /\ wpc[c] = "teste"
        /\ wpc'[c] = "sleeps" => enabled[c] = 0
    BY <1>4, WorkerMoves DEF Inv
  <2>3. wpc'[c] = "sleepq" => packetQueue'[c] = packetQueue[c]
    BY <1>4, <2>2, WorkerMoves DEF Inv
  <2> QED
    BY <2>1, <2>2, <2>3
<1>5. CASE Gui
  <2>1. UNCHANGED enabled
    BY <1>5, GuiFrame
  <2>2. wpc'[c] \in {"sleepq", "sleeps"} => wpc'[c] = wpc[c]
    BY <1>5, GuiMoves DEF Inv
  <2>3. CASE StartReader
    <3>1. packetQueue'[c] = << >> /\ UNCHANGED wpc /\ gui.pc = "clear"
      BY <2>3 DEF StartReader, ClearedQueues, workers
    <3>2. wpc[c] = "none"
      BY <3>1, InvThreadsGone
    <3> QED
      BY <3>1, <3>2
  <2>4. CASE JoinReader
    <3>1. reader.pc # "notify" /\ gui.pc = "join" /\ UNCHANGED <<wpc, packetQueue>>
      BY <2>4 DEF JoinReader, stream, workers
    <3> QED
      BY <1>0, <2>1, <3>1
  <2>5. CASE ~StartReader /\ ~JoinReader
    <3>1. UNCHANGED <<packetQueue, reader>>
      BY <1>5, <2>5
      DEF Gui, WakeEnabled, StartWorker, StartWorkerFails, StopBegin, StopWakeState, StopWakeQueue,
          JoinWorker, CloseSockets, members, stream
    <3>2. ASSUME wpc'[c] = "sleeps", enabled'[c] = 1 PROVE FALSE
      <4>1. gui.pc = "wake" /\ gui.i = c /\ wpc[c] = "sleeps"
        BY <1>0, <2>1, <2>2, <3>2
      <4>2. WakeEnabled
        BY <1>5, <4>1
        DEF Gui, StartReader, StartWorker, StartWorkerFails, StopBegin, StopWakeState,
            StopWakeQueue, JoinWorker, JoinReader, CloseSockets
      <4>3. wpc'[c] = "locks"
        BY <1>a, <4>1, <4>2 DEF WakeEnabled, WakeState
      <4> QED
        BY <3>2, <4>3
    <3> QED
      BY <1>0, <2>2, <3>1, <3>2
  <2> QED
    BY <2>3, <2>4, <2>5
<1>6. CASE Terminated
  BY <1>0, <1>6 DEF Terminated, vars, members, settings, stream, workers
<1> QED
  BY <1>1, <1>2, <1>3, <1>4, <1>5, <1>6 DEF Next

\* No wake-up is lost: a worker never sleeps on with packets in its queue or with
\* its channel enabled, unless the thread that changed that is about to wake it.
THEOREM NoWakeupLost == Spec => []NoLostWakeup
<1>1. Init => NoLostWakeup
  BY DEF Init, NoLostWakeup
<1>2. Inv /\ NoLostWakeup /\ [Next]_vars => NoLostWakeup'
  <2>1. NoLostWakeup /\ UNCHANGED vars => NoLostWakeup'
    BY DEF NoLostWakeup, vars, members, settings, stream, workers
  <2> QED
    BY <2>1, WakeupStep
<1> QED
  BY <1>1, <1>2, InvAlways, PTL DEF Spec

-----------------------------------------------------------------------------
(* Disabling a channel *)

\* A worker that has sent its late packet does not get past the test of the
\* channel state again before the channel is enabled or the server stopped.
LateInv ==
  \A c \in Channels :
    /\ lateSends[c] \in {0, 1}
    /\ enabled[c] = 1 => lateSends[c] = 0
    /\ lateSends[c] = 1 => /\ wpc[c] \notin {"loss", "send"}
                           /\ wpc[c] = "runs" => sendPkt[c] = NoPacket \/ ~is_running

\* What the worker of c does to the count of late packets.
LEMMA LateMoves ==
  ASSUME TypeOK, NEW c \in Channels, socketWorkerTask(c)
  PROVE  \/ lateSends'[c] = lateSends[c]
         \/ wpc[c] = "send" /\ wpc'[c] = "top" /\ enabled[c] = 1 /\ lateSends'[c] = 0
         \/ wpc[c] = "send" /\ wpc'[c] = "top" /\ enabled[c] # 1 /\ lateSends'[c] = lateSends[c] + 1
<1>0. wpc \in [Channels -> WorkerPoints] /\ lateSends \in [Channels -> Nat]
  BY DEF TypeOK
<1>1. CASE WorkerSend(c)
  <2>1. wpc[c] = "send" /\ wpc'[c] = "top"
    BY <1>0, <1>1 DEF WorkerSend, Goto
  <2>2. \/ UNCHANGED lateSends
        \/ lateSends' = [lateSends EXCEPT ![c] = IF enabled[c] = 1 THEN 0 ELSE @ + 1]
    BY <1>1 DEF WorkerSend, Sent
  <2> QED
    BY <1>0, <2>1, <2>2
<1>2. CASE ~WorkerSend(c)
  BY <1>2
  DEF socketWorkerTask, WorkerTop, WorkerTestRunning, WorkerTestQueue, WorkerBreak1,
      WorkerContinue, WorkerPop, WorkerTestRunning2, WorkerTestState, WorkerBreak2,
      WorkerProceed, WorkerDrop, WorkerAssignSeq, Branch, Sent
<1> QED
  BY <1>1, <1>2

\* Every step keeps LateInv.
LEMMA LateStep ==
  ASSUME Inv, LateInv, Next PROVE LateInv'
<1> DEFINE Late(c) ==
      /\ lateSends[c] \in {0, 1}
      /\ enabled[c] = 1 => lateSends[c] = 0
      /\ lateSends[c] = 1 => /\ wpc[c] \notin {"loss", "send"}
                             /\ wpc[c] = "runs" => sendPkt[c] = NoPacket \/ ~is_running
<1> SUFFICES ASSUME NEW c \in Channels PROVE Late(c)'
  BY DEF LateInv
<1>0. Late(c)
  BY DEF LateInv
<1>1. CASE User
  <2>1. UNCHANGED <<wpc, sendPkt, is_running>>
    BY <1>1, UserFrame
  <2>2. \/ enabled'[c] = enabled[c] /\ lateSends'[c] = lateSends[c]
        \/ lateSends'[c] = 0
    <3>1. \/ UNCHANGED <<enabled, lateSends>>
          \/ \E d \in Channels, state \in {0, 1} : channelStateChange(d, state)
      BY <1>1 DEF User, SetFileName, setLossRate, StartSending, Close, members, settings, history
    <3>2. ASSUME NEW d \in Channels, NEW state \in {0, 1}, channelStateChange(d, state)
          PROVE  \/ enabled'[c] = enabled[c] /\ lateSends'[c] = lateSends[c]
                 \/ lateSends'[c] = 0
      <4>1. enabled \in [Channels -> {0, 1}] /\ lateSends \in [Channels -> Nat]
        BY ZenonT(60) DEF Inv, TypeOK
      <4>2. /\ enabled' = [enabled EXCEPT ![d] = state]
            /\ lateSends' = [lateSends EXCEPT ![d] = 0]
        BY <3>2 DEF channelStateChange
      <4> QED
        BY <4>1, <4>2
    <3> QED
      BY <3>1, <3>2
  <2> QED
    BY <1>0, <2>1, <2>2
<1>2. CASE Terminated
  BY <1>0, <1>2 DEF Terminated, vars, members, settings, lifecycle, workers, history
<1>3. CASE fileReaderTask
  <2>1. UNCHANGED <<enabled, lateSends, sendPkt>> /\ (wpc'[c] = wpc[c] \/ wpc'[c] = "testr")
    BY <1>3, ReaderFrame, ReaderMoves DEF Inv
  <2>2. is_running' => is_running
    BY <1>3
    DEF fileReaderTask, ReadPath, OpenFile, ReaderLoop, ScanHit, ScanMiss, ScanEnd, ReadChunk,
        ReadFails, PushPacket, NotifyWorker, ReaderAbort
  <2> QED
    BY <1>0, <2>1, <2>2
<1>4. CASE Gui
  <2>1. UNCHANGED <<enabled, lateSends>>
    BY <1>4, GuiFrame
  <2>2. \/ wpc'[c] = wpc[c] /\ sendPkt'[c] = sendPkt[c]
        \/ wpc'[c] \in {"top", "none", "testr", "locks"}
    BY <1>4, GuiMoves DEF Inv
  <2>3. CASE StartReader
    <3>1. wpc[c] = "none" /\ UNCHANGED wpc
      BY <2>3, InvThreadsGone DEF StartReader, workers
    <3> QED
      BY <1>0, <2>1, <3>1
  <2>4. CASE ~StartReader
    <3>1. is_running' => is_running
      BY <1>4, <2>4
      DEF Gui, WakeEnabled, StartWorker, StartWorkerFails, StopBegin, StopWakeState, StopWakeQueue,
          JoinWorker, JoinReader, CloseSockets, members, lifecycle
    <3> QED
      BY <1>0, <2>1, <2>2, <3>1
  <2> QED
    BY <2>3, <2>4
<1>5. ASSUME NEW d \in Channels, socketWorkerTask(d), d # c PROVE Late(c)'
  BY <1>0, <1>5, WorkerFrame DEF Inv
<1>6. CASE socketWorkerTask(c)
  <2>1. UNCHANGED <<enabled, is_running>>
    BY <1>6, WorkerFrame DEF Inv
  <2>2. CASE wpc[c] = "send"
    <3>1. wpc'[c] \in {"top", "done"}
      BY <1>6, <2>2, WorkerMoves DEF Inv
    <3> QED
      BY <1>0, <1>6, <2>1, <2>2, <3>1, LateMoves DEF Inv
  <2>3. CASE wpc[c] # "send"
    <3>1. lateSends'[c] = lateSends[c]
      BY <1>6, <2>3, LateMoves DEF Inv
    <3>2. wpc'[c] = "send" => wpc[c] = "loss"
      BY <1>6, WorkerMoves DEF Inv
    <3>3. wpc'[c] = "loss" => wpc[c] = "runs" /\ is_running /\ sendPkt[c] # NoPacket
      BY <1>6, WorkerMoves DEF Inv
    <3>4. wpc'[c] = "runs" => ~is_running \/ enabled[c] = 1
      <4>1. enabled[c] \in {0, 1}
        <5>1. enabled \in [Channels -> {0, 1}]
          BY ZenonT(60) DEF Inv, TypeOK
        <5> QED
          BY <5>1
      <4> QED
        BY <1>6, <4>1, WorkerMoves DEF Inv
    <3> QED
      BY <1>0, <2>1, <3>1, <3>2, <3>3, <3>4
  <2> QED
    BY <2>2, <2>3
<1> QED
  BY <1>1, <1>2, <1>3, <1>4, <1>5, <1>6 DEF Next

\* After a channel is disabled its worker sends at most one more packet.
THEOREM LateSends == Spec => []AtMostOneLateSend
<1>1. Init => LateInv
  BY DEF Init, LateInv
<1>2. Inv /\ LateInv /\ [Next]_vars => LateInv'
  <2>1. LateInv /\ UNCHANGED vars => LateInv'
    BY DEF LateInv, vars, members, settings, lifecycle, workers, history
  <2> QED
    BY <2>1, LateStep
<1>3. LateInv => AtMostOneLateSend
  BY DEF LateInv, AtMostOneLateSend
<1> QED
  BY <1>1, <1>2, <1>3, InvAlways, PTL DEF Spec

-----------------------------------------------------------------------------
(* The round robin *)

\* How far the round robin is from channel c.
Distance(c) ==
  IF c >= currentSocket THEN c - currentSocket ELSE c - currentSocket + SOCKET_POOL_SIZE

\* A channel that was passed over has come nearer by as many places, and the search
\* under way has not left it behind.
BypassInv ==
  \A c \in Channels :
    /\ passedOver[c] + Distance(c) < SOCKET_POOL_SIZE
    /\ enabled[c] = 0 => passedOver[c] = 0
    /\ reader.pc = "scan" /\ Distance(c) < reader.attempts => passedOver[c] = 0

\* The remainder in ScanIndex wraps around once.
LEMMA Wrap ==
  ASSUME NEW n \in 0 .. 2 * SOCKET_POOL_SIZE - 1
  PROVE  n % SOCKET_POOL_SIZE = IF n < SOCKET_POOL_SIZE THEN n ELSE n - SOCKET_POOL_SIZE
<1> USE PoolAssumption
<1>1. CASE n < SOCKET_POOL_SIZE
  BY <1>1
<1>2. CASE n \in SOCKET_POOL_SIZE .. 2 * SOCKET_POOL_SIZE - 1
  BY <1>2
<1> QED
  BY <1>1, <1>2

\* The round robin reaches every channel in fewer than SOCKET_POOL_SIZE places.
LEMMA DistanceType ==
  ASSUME TypeOK, NEW c \in Channels
  PROVE  Distance(c) \in Nat /\ Distance(c) < SOCKET_POOL_SIZE
<1>1. currentSocket \in Channels
  BY DEF TypeOK
<1> QED
  BY <1>1, PoolAssumption DEF Distance, Channels

\* Every step keeps BypassInv.
LEMMA BypassStep ==
  ASSUME Inv, BypassInv, Next PROVE BypassInv'
<1> DEFINE N == SOCKET_POOL_SIZE
           P(c) == /\ passedOver[c] + Distance(c) < SOCKET_POOL_SIZE
                   /\ enabled[c] = 0 => passedOver[c] = 0
                   /\ reader.pc = "scan" /\ Distance(c) < reader.attempts => passedOver[c] = 0
<1> SUFFICES ASSUME NEW c \in Channels PROVE P(c)'
  BY DEF BypassInv
<1>0. /\ P(c) /\ Distance(c) \in Nat /\ Distance(c) < N
      /\ reader \in ReaderType /\ passedOver \in [Channels -> Nat]
      /\ enabled \in [Channels -> {0, 1}]
      /\ currentSocket \in Channels /\ N \in Nat \ {0}
  BY DistanceType, PoolAssumption DEF BypassInv, Inv, TypeOK
<1>a. reader.attempts \in 0 .. N
  BY <1>0 DEF ReaderType
<1>1. ASSUME UNCHANGED currentSocket,
             UNCHANGED <<passedOver, enabled>> \/ (passedOver'[c] = 0 /\ enabled'[c] \in {0, 1})
                \/ (passedOver'[c] = passedOver[c] /\ enabled'[c] = enabled[c]),
             UNCHANGED reader \/ reader'.pc # "scan" \/ reader'.attempts = 0
      PROVE  P(c)'
  <2>1. Distance(c)' = Distance(c)
    BY <1>1 DEF Distance
  <2> QED
    BY <1>0, <1>1, <2>1
<1>2. CASE User
  <2>1. UNCHANGED <<currentSocket, reader>>
    BY <1>2, UserFrame
  <2>2. UNCHANGED <<enabled, passedOver>>
          \/ \E d \in Channels, state \in {0, 1} : channelStateChange(d, state)
    BY <1>2 DEF User, SetFileName, setLossRate, StartSending, Close, members, settings, history
  <2>3. ASSUME NEW d \in Channels, NEW state \in {0, 1}, channelStateChange(d, state)
        PROVE  \/ passedOver'[c] = 0 /\ enabled'[c] \in {0, 1}
               \/ passedOver'[c] = passedOver[c] /\ enabled'[c] = enabled[c]
    BY <1>0, <2>3 DEF channelStateChange
  <2> QED
    BY <1>1, <2>1, <2>2, <2>3
<1>3. CASE Gui
  <2>1. UNCHANGED enabled
    BY <1>3, GuiFrame
  <2>2. CASE StartReader
    <3>1. passedOver'[c] = 0 /\ currentSocket' = 0 /\ reader'.pc # "scan"
      <4>1. gui.pc = "clear"
        BY <2>2 DEF StartReader
      <4>2. reader.pc = "none"
        BY <4>1, InvThreadsGone
      <4>3. reader' = reader \/ reader' = Reader("path")
        BY <2>2 DEF StartReader
      <4>4. passedOver'[c] = 0 /\ currentSocket' = 0
        BY <2>2 DEF StartReader
      <4>5. Reader("path").pc # "scan"
        BY DEF Reader
      <4> QED
        BY <4>2, <4>3, <4>4, <4>5
    <3>2. Distance(c)' = c
      BY <3>1 DEF Distance, Channels
    <3> QED
      BY <1>0, <3>1, <3>2 DEF Channels
  <2>3. CASE ~StartReader
    <3>1. UNCHANGED <<currentSocket, passedOver>> /\ (UNCHANGED reader \/ reader' = Reader("none"))
      BY <1>3, <2>3
      DEF Gui, WakeEnabled, StartWorker, StartWorkerFails, StopBegin, StopWakeState, StopWakeQueue,
          JoinWorker, JoinReader, CloseSockets, members, stream, history
    <3>2. Reader("none").pc # "scan"
      BY DEF Reader
    <3> QED
      BY <1>1, <2>1, <3>1, <3>2
  <2> QED
    BY <2>2, <2>3
<1>4. ASSUME NEW d \in Channels, socketWorkerTask(d) PROVE P(c)'
  BY <1>1, <1>4, WorkerFrame DEF Inv
<1>5. CASE Terminated
  BY <1>1, <1>5 DEF Terminated, vars, members, settings, stream, history
<1>6. CASE ScanHit
  <2> DEFINE s == ScanIndex
             next == (s + 1) % N
  <2>1. reader.attempts < N /\ currentSocket \in 0 .. N - 1 /\ c \in 0 .. N - 1
    BY <1>0, <1>6 DEF ScanHit, Channels
  <2>2. s = IF currentSocket + reader.attempts < N THEN currentSocket + reader.attempts
            ELSE currentSocket + reader.attempts - N
    BY <1>0, <1>a, <2>1, Wrap DEF ScanIndex
  <2>3. s \in 0 .. N - 1
    BY <1>0, <1>a, <2>1, <2>2
  <2>4. next = IF s + 1 < N THEN s + 1 ELSE 0
    <3> DEFINE n == s + 1
    <3> HIDE DEF s
    <3>1. n \in 0 .. 2 * SOCKET_POOL_SIZE - 1
      BY <1>0, <2>3
    <3>2. next = n % SOCKET_POOL_SIZE
      OBVIOUS
    <3> HIDE DEF n, next
    <3>3. next = IF n < N THEN n ELSE n - N
      BY <3>1, <3>2, Wrap
    <3> QED
      BY <1>0, <2>3, <3>3 DEF n
  <2>5. /\ currentSocket' = next /\ UNCHANGED enabled
        /\ passedOver' = [d \in Channels |->
                            IF d # s /\ enabled[d] = 1 THEN passedOver[d] + 1 ELSE 0]
        /\ reader'.pc = "read"
    BY <1>0, <1>6 DEF ScanHit, ReaderAt, settings, ReaderType
  <2>6. passedOver'[c] = IF c # s /\ enabled[c] = 1 THEN passedOver[c] + 1 ELSE 0
    BY <2>5
  <2>7. reader.pc = "scan"
    BY <1>6 DEF ScanHit, ReaderAt
  <2>8. Distance(c)' = IF c >= next THEN c - next ELSE c - next + N
    BY <2>5 DEF Distance
  <2>9. Distance(c) = IF c >= currentSocket THEN c - currentSocket ELSE c - currentSocket + N
    BY DEF Distance
  <2> HIDE DEF s, next
  <2>10. Distance(c)' \in Nat /\ Distance(c)' < N
    BY <1>0, <2>1, <2>3, <2>4, <2>8
  <2>11. CASE c # s /\ enabled[c] = 1
    <3>1. CASE Distance(c) < reader.attempts
      <4>1. Distance(c)' = Distance(c) - reader.attempts - 1 + N
        BY <1>0, <1>a, <2>1, <2>2, <2>4, <2>8, <2>9, <3>1
      <4>2. passedOver[c] = 0
        BY <1>0, <2>7, <3>1
      <4> QED
        BY <1>0, <1>a, <2>5, <2>6, <2>11, <3>1, <4>1, <4>2
    <3>2. CASE Distance(c) >= reader.attempts
      <4>1. Distance(c) > reader.attempts
        BY <1>0, <1>a, <2>1, <2>2, <2>9, <2>11, <3>2
      <4>2. Distance(c)' = Distance(c) - reader.attempts - 1
        BY <1>0, <1>a, <2>1, <2>2, <2>4, <2>8, <2>9, <4>1
      <4> QED
        BY <1>0, <1>a, <2>5, <2>6, <2>11, <4>1, <4>2
    <3> QED
      BY <1>0, <1>a, <3>1, <3>2
  <2>12. CASE ~(c # s /\ enabled[c] = 1)
    BY <2>5, <2>6, <2>10, <2>12
  <2> QED
    BY <2>11, <2>12
<1>7. CASE ScanMiss
  <2> DEFINE s == ScanIndex
  <2>1. reader.attempts < N /\ currentSocket \in 0 .. N - 1 /\ c \in 0 .. N - 1
    BY <1>0, <1>7 DEF ScanMiss, Channels
  <2>2. s = IF currentSocket + reader.attempts < N THEN currentSocket + reader.attempts
            ELSE currentSocket + reader.attempts - N
    BY <1>0, <1>a, <2>1, Wrap DEF ScanIndex
  <2>3. /\ UNCHANGED <<currentSocket, enabled, passedOver>> /\ enabled[s] = 0
        /\ reader.pc = "scan"
        /\ reader'.attempts = reader.attempts + 1
    BY <1>0, <1>7 DEF ScanMiss, ReaderAt, settings, stream, history, ReaderType
  <2>4. Distance(c)' = Distance(c)
    BY <2>3 DEF Distance
  <2>5. Distance(c) = IF c >= currentSocket THEN c - currentSocket ELSE c - currentSocket + N
    BY DEF Distance
  <2> HIDE DEF s
  <2>6. Distance(c) < reader'.attempts => Distance(c) < reader.attempts \/ c = s
    BY <1>0, <1>a, <2>1, <2>2, <2>3, <2>5
  <2>7. passedOver[c] + Distance(c) < N /\ (enabled[c] = 0 => passedOver[c] = 0)
        /\ (Distance(c) < reader.attempts => passedOver[c] = 0)
    BY <1>0, <2>3
  <2> QED
    BY <2>3, <2>4, <2>6, <2>7
<1>8. CASE fileReaderTask /\ ~ScanHit /\ ~ScanMiss
  <2>1. UNCHANGED <<currentSocket, passedOver, enabled>>
    BY <1>8
    DEF fileReaderTask, ReadPath, OpenFile, ReaderLoop, ScanEnd, ReadChunk, ReadFails,
        PushPacket, NotifyWorker, ReaderAt, settings, stream, history
  <2>2. reader'.pc # "scan" \/ reader'.attempts = 0
    <3>0. Reader("done").pc # "scan"
      BY DEF Reader
    <3>1. CASE ReadPath \/ OpenFile \/ ReaderLoop
      BY <1>0, <3>0, <3>1 DEF ReadPath, OpenFile, ReaderLoop, ReaderAbort, ReaderType
    <3>2. CASE ScanEnd \/ ReadFails \/ PushPacket \/ NotifyWorker
      BY <1>0, <3>0, <3>2 DEF ScanEnd, ReadFails, PushPacket, NotifyWorker, ReaderType
    <3>3. CASE ReadChunk
      <4>1. reader'.pc = "push"
        BY <3>3, ReadType DEF Inv, TypeOK
      <4> QED
        BY <4>1
    <3> QED
      BY <1>8, <3>1, <3>2, <3>3 DEF fileReaderTask
  <2> QED
    BY <1>1, <2>1, <2>2
<1> QED
  BY <1>2, <1>3, <1>4, <1>5, <1>6, <1>7, <1>8 DEF Next

\* The round robin of fileReaderTask is fair: fewer than SOCKET_POOL_SIZE chunks go to
\* other channels before an enabled channel gets one, however the user switches
\* channels during the search.
THEOREM FairRoundRobin == Spec => []BoundedBypass
<1>1. Init => BypassInv
  <2> SUFFICES ASSUME Init, NEW c \in Channels
               PROVE  /\ passedOver[c] + Distance(c) < SOCKET_POOL_SIZE
                      /\ enabled[c] = 0 => passedOver[c] = 0
                      /\ reader.pc = "scan" /\ Distance(c) < reader.attempts => passedOver[c] = 0
    BY DEF BypassInv
  <2>1. passedOver[c] = 0
    BY DEF Init
  <2>2. TypeOK
    BY InitInv DEF Inv
  <2> QED
    BY <2>1, <2>2, DistanceType
<1>2. Inv /\ BypassInv /\ [Next]_vars => BypassInv'
  <2>1. BypassInv /\ UNCHANGED vars => BypassInv'
    BY DEF BypassInv, Distance, vars, members, settings, stream, history
  <2> QED
    BY <2>1, BypassStep
<1>3. Inv /\ BypassInv => BoundedBypass
  <2> SUFFICES ASSUME Inv, BypassInv, NEW c \in Channels PROVE passedOver[c] < SOCKET_POOL_SIZE
    BY DEF BoundedBypass
  <2>1. Distance(c) \in Nat /\ passedOver[c] \in Nat
    BY DistanceType DEF Inv, TypeOK
  <2>2. passedOver[c] + Distance(c) < SOCKET_POOL_SIZE
    BY DEF BypassInv
  <2> QED
    BY <2>1, <2>2, PoolAssumption
<1> QED
  BY <1>1, <1>2, <1>3, InvAlways, PTL DEF Spec
=============================================================================
