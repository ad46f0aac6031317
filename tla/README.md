# A TLA+ model of Channel_sim

Channel_sim is a Windows/Qt program that sends a file over several UDP channels at
once. The file is cut into chunks, grouped and protected by XOR forward error
correction (FEC, with WebRTC's ULPFEC masks), spread over the enabled channels in
round-robin order, and sent by one worker thread per channel, which can drop packets
at a set loss rate to simulate a bad link.

This directory holds a model of it, the TLC runs that check the model on small
instances, and TLAPS proofs of the most important properties for every instance.

`Udpserver.cpp` is a UTF-16 file. Line numbers below, in the findings and in the
hazards count the lines of the decoded text. The line ranges of the map are a line or
two longer towards the end of the file, where counting raw newline bytes gives a
higher number.

## 1. The system and its parts

| Part | Source | State | Operations |
|---|---|---|---|
| sender core | `Channel_sim/Udpserver.cpp`, `.h` | `is_running`, thread list, sockets, per channel `enabled`, `lossRate`, `packetQueue`, two mutexes and two conditions; `currentSocket`, `globalSeqCounter`, `currentFilePath` | constructor, `SetFileName`, `channelStateChange`, `setLossRate`, `StartSending`, `StopSending`, destructor; threads `fileReaderTask`, `socketWorkerTask` |
| FEC encoder | `Channel_sim/forward_error_correction.cpp` | lists `media_packets`, `fec_packets`, `buffer_packets`, counters `group_number`, `sequence_number`, `packet_size`, first/last-use flags | `PacketByFEC`, `EncodeFec`, `XorPayloads`, `Serialize`, `SendByUlpfec` |
| FEC masks | `fec_private_tables_*.cpp`, `PacketMaskTable` in `forward_error_correction.cpp` | constant byte tables | `PickTable`, `LookUp`, `LookUpInFecTable`, `GeneratePacketMasks` |
| main window | `Channel_sim.cpp`, `.h`, `.ui` | check boxes, scroll bars, labels | slots for file, Play, three check boxes, three bars, closing; constructor and destructor |
| log | `LogEmitter.cpp`, `.h` | one global emitter, its connection to the window, calls posted to the event loop | forwards log text to the window |
| entry point | `main.cpp` | | creates the window, runs the event loop, destroys the window |
| older encoder | `FEC_Encode/forward_error_correction.cpp` | as the encoder | an earlier copy, not compiled; its headers are used by the sender |
| receiver | not in the repository | | rebuilds lost packets |

### How they interact

    user --> GUI thread --enabled, lossRate, currentFilePath, is_running--> the threads
                |  StartSending creates, StopSending wakes and joins
                v
      fileReaderTask --PacketByFEC--> buffer_packets --push, wakeOne--> packetQueue[c]
                                                                            |
                                              socketWorkerTask(c) --loss--> sendto

* The GUI thread calls the sender directly: it owns the thread list and the sockets.
* One reader thread looks for the next enabled channel, reads a chunk, hands it to the
  encoder, and pushes all packets that come out to the channel it found.
* One worker per channel takes packets from its queue, under `queueMutex` and
  `queueCondition`; waits under `stateMutex` and `stateCondition` while its channel is
  disabled; then drops or numbers and sends the packet.
* The encoder is used by the reader only. It keeps its state from one transmission to
  the next. `SendByUlpfec` is a second way into the encoder, with its own `sendto`; the
  sender does not use it.
* Every part logs. The log signal runs the window's slot at once when the GUI thread
  logs, and posts the call to the event loop when another thread does. The event loop
  stands still while the GUI thread is in `StopSending`.

### What is hard, and what makes each part correct

* **Wake-ups.** The reader notifies after it has released the mutex, `enabled` is
  exchanged before `stateMutex` is taken, and `is_running` is cleared with no lock at
  all. No wake-up may be lost (`NoLostWakeup`), and `StopSending` must reach every
  worker (`StopWakesEveryWorker`, `StopCompletes`).
* **Life cycle with failures.** Threads may fail to start half way, the reader may give
  up on its own and clear `is_running`, a thread may hang and be terminated. No thread
  may be left (`NoThreadOutlivesStop`), and no packet of an old transmission may be sent
  by a new one (`NoStalePacket`).
* **Stale decisions.** The channel state is tested well before it is used, by the
  worker (`AtMostOneLateSend`) and by the reader (`PushesToEnabledOnly`, violated).
* **Order and numbering.** Queues, a packet held back while its channel is disabled,
  and a counter shared by all workers (`ChannelOrder`, `SeqNumbersGapFree`).
* **Fairness of the round robin** while channels are switched during the search
  (`BoundedBypass`, `ReaderFinishes`, `EnabledChannelDrains`).
* **Masks and groups.** Masks are found by walking a packed byte array, or computed bit
  by bit; the mask in the header and the mask the payload is built from are selected in
  two ways (`RepairIsExact`, `CoveredLossRepaired`); lists and counters must be clean at
  every new group (`CountersMatchWire`, `EncodeFecDemands`), also after a `sendto` that
  failed in the middle of one.
* **Short chunks.** They are padded; where the padding does not get onto the wire, what
  is rebuilt with it is cut (`LastPacketIsFilled`, violated; `RepairKeepsBytes` says how
  much is left). A chunk longer than the first one ever given is cut by the encoder.
* **The encoder outlives a transmission.** A group begun with one file goes on with the
  next (`OpenSocketCarriesOneFile`).
* **Log and life of the window.** Threads log to a window that waits for them
  (`PostedLogIsShown`), and the sender logs while its window is half destroyed
  (`NoLogToDeadWindow`).

`PROJECT.json` lists all hazards at their lines with the properties that cover them.

## 2. The modules

| Module | Extends | Models |
|---|---|---|
| `PacketMaskTable` | | both mask tables, the byte arrays built from them, the lookup |
| `ForwardErrorCorrection` | `PacketMaskTable` | the encoder as a record and `PacketByFEC` as a function from one record to the next |
| `FecStream` | `ForwardErrorCorrection` | a stream through one of the encoder's entry points, losses, and a peeling decoder as the reference |
| `Udpserver` | `ForwardErrorCorrection` | the sender: GUI, reader and worker threads, with the encoder inside |
| `LossyChannels` | | the abstract sender: FIFO channels that lose |
| `UdpserverChannels` | `Udpserver` | the refinement mapping from the sender to `LossyChannels` |
| `ChannelSim` | `Udpserver` | the program: main window and log around the sender |
| `MCFecStream`, `MCUdpserver`, `MCChannelSim` | | values of the constants for TLC |
| `ForwardErrorCorrectionProofs` | `ForwardErrorCorrection` | types of the encoder's operations; FEC headers tell what the payloads are made of |
| `FecStreamProofs` | `FecStream`, `ForwardErrorCorrectionProofs` | groups, wire and repair |
| `UdpserverProofs` | `Udpserver` | type correctness, threads and the list |
| `UdpserverSafetyProofs` | `UdpserverProofs` | wake-ups, late sends, round robin |
| `UdpserverOrderProofs` | `UdpserverProofs` | order, freshness and numbers of packets |
| `UdpserverFilesProofs` | `UdpserverOrderProofs` | one file on the way |
| `UdpserverChannelsProofs` | `UdpserverChannels`, `UdpserverOrderProofs` | the sender implements `LossyChannels` |
| `ChannelSimProofs` | `ChannelSim`, `UdpserverSafetyProofs`, `UdpserverFilesProofs` | the program implements the sender; window and log |

Operators whose comment begins with "mutant" are plausible bugs. No specification
uses them; each is a wrong version of the definition that follows it, and puts to the
test that some property notices the difference.

### `PacketMaskTable`

The rows of `kMaskRandomK_R` and `kMaskBurstyK_R` are written as numbers, two bytes
each. `ByteTable` turns them into the byte array the macros produce, with its count
bytes, and `LookUpInFecTable` walks that array by offsets as the code does, so that an
error in the walk shows. `InterleavedByte` is the bit arithmetic for more than 12
packets.

### `ForwardErrorCorrection`

A payload is a set of pieces of input and exclusive or is symmetric difference: two
payloads are equal exactly if they are xors of the same chunks, which is what a repair
depends on. A piece remembers how many bytes of its chunk were stored, since
`PacketByFEC` cuts a chunk to the size of the first one it ever saw. The statics of the
translation unit and the members of the object are one record; there is one object in
the program and one thread uses it.

### `FecStream`

A stream uses one entry point throughout. `Packetize` is one call of `PacketByFEC`, or of
its older copy, and the loop by which the caller empties `buffer_packets`, giving every
packet the length of the chunk just read. `SendUlpfec` is one call of `SendByUlpfec`, in
which the `sendto` after `sent` successful ones fails, unless there are no more. Its
comment takes a short chunk to be the last one, so no call follows it. When a group is
out, or some of its FEC packets are and it will not be finished (`GiveUp`), `Lose`
removes a run of at most `r` media packets, and `Recover` repairs one after the other
with nothing but headers and payloads. A packet whose `sendto` failed is missing like a
lost one. For each packet the model keeps how many bytes of payload were really passed
on; of a rebuilt packet only the bytes that all packets xored for it carry are of use.
The history has for each packet the length of the chunk as the caller gave it (`given`)
and the piece of it that the encoder kept (`stored`), which differ when a chunk is cut.
The decoder is the usual one for these masks; the receiving program is not in this
repository.

### `Udpserver`

Threads are control points. Each step is one access to state that another thread may
change at that moment, so that every interleaving the code allows is there:

| Thread | Variable | Steps |
|---|---|---|
| GUI | `gui` | `SetFileName`, `setLossRate`, `channelStateChange` + `WakeEnabled`, `StartSending` + `StartReader` + `StartWorker` / `StartWorkerFails`, `Close`, and `StopSending`: `StopBegin`, `StopWakeState` and `StopWakeQueue` per channel, `JoinWorker`, `JoinReader`, `CloseSockets` |
| reader | `reader` | `ReadPath`, `OpenFile`, `ReaderLoop`, `ScanHit` / `ScanMiss` / `ScanEnd`, `ReadChunk` / `ReadFails`, `PushPacket`, `NotifyWorker` |
| worker `c` | `wpc[c]`, `sendPkt[c]` | `WorkerTop`; phase 1: `WorkerTestRunning`, `WorkerTestQueue`, `WorkerBreak1`, `WorkerContinue` / `WorkerPop`; phase 2: `WorkerTestRunning2`, `WorkerTestState`, `WorkerBreak2` / `WorkerProceed`; phase 3: `WorkerDrop` / `WorkerAssignSeq`, `WorkerSend` |

Where accesses are merged, and why no behaviour is lost:

* Mutexes are not variables. A worker holds `queueMutex` at "teste", "runq" and "enq",
  and `stateMutex` at "tests"; the others need those mutexes free. Taking a mutex is
  merged with the first load made under it and releasing it with the last: a lock can
  be moved later, and an unlock earlier, past nothing but the thread's own locals.
* Critical sections of the GUI and of the reader are single steps. They touch nothing
  but what the mutex protects.
* `WorkerTestQueue` reads `enabled` and the queue in one step. The queue is protected by
  the mutex the worker holds, so only the load of `enabled` is an access to shared state.
  The same holds for `WorkerPop`.
* A turn of the search loop in `fileReaderTask` reads `is_running` and `enabled`
  together. Both are written by the GUI thread only (the reader itself aside), which
  after clearing `is_running` switches no channel before the reader has been joined: a
  turn that read the two at different moments read what held just before `StopBegin`.
* `StartReader` is a single step because no other thread exists when it runs.
* `WorkerDrop` and `WorkerAssignSeq` load `lossRate` and decide on the loss, and the
  latter increments the counter, in one step. Only this worker reads the rate of its
  channel. A behaviour in which the rate is set between load and increment differs from
  one of the model, in which it is set after both, in nothing but the value of
  `lossRate` meanwhile, which no property relates to packets or numbers.
* `WorkerSend` covers the serialization and `sendto`. Only the socket is shared, and it
  is closed when no worker exists.

Other choices: conditions wake no one spuriously (the loops around `wait` would hide
it); loss is a nondeterministic choice where `0 < lossRate < 1`; sleeping for pacing
and the 10 ms pause are left out, as time has no other effect; a `wait(5000)` that times
out is a step that may be taken only while the thread is in a call that can block, or
asleep on a condition, in which case it is terminated. The `memcpy` at line 123 copies
2000 bytes into a field of 1009, for every chunk. This is a defect of the code; which
variables it overwrites is up to the compiler, and the model takes them to be dead.

The variables `pushed`, `startedAt`, `lastSent`, `sends`, `lateSends` and `passedOver`,
and the field `order` of a packet, are history: no step depends on them.

### `LossyChannels` and `UdpserverChannels`

What the sender promises without threads, locks and conditions: while a transmission is
on, numbered packets are handed to one channel each, and leave it at the front,
delivered or dropped; a start empties all channels, a stop delivers nothing more. The
mapping: a transmission is on while `workerThreads` is not empty; a channel is the packet
in its worker's hands followed by the queue; what is delivered last is `lastSent`.
`PushPacket` is `Hand`, `WorkerSend` is `Deliver`; `WorkerDrop`, `WorkerBreak2` and the
termination of a blocked worker are `Drop`; `StartReader` is `Start`, `JoinReader` is
`Stop`; taking a packet from the queue, and all else, changes nothing.

### `ChannelSim`

Each slot of the window is an action that changes its widget and takes the step of
`Udpserver` that its signal leads to. The three copies of a slot are one action with the
channel as its parameter. `GuiStep`, `ReaderStep` and `WorkerStep` are the sender's own
steps with what they log: `LogFromGui` runs the window's slot, `LogFromThread` posts it,
and `appendLogToUi` is the event loop making the posted calls, which it can do only when
no slot runs. Posted calls are one bit, since only whether there are any matters. The
end is `Quit` (`exec` returns), `Destructor`, `DeleteWidgets`, `DeleteServer` with the
steps of `StopSending`, and `Release`; that children are deleted in the order of their
creation, the widgets before the sender, is Qt's rule.

## 3. The runs

| Run | Configuration | Result |
|---|---|---|
| `fec_masks` | one group of every shape `r <= k <= 16`, both tables, every run of at most `r` losses | every single loss is repaired; with bursty or interleaved masks every run of up to `r`; repairs are exact |
| `fec_stream` | three groups of small shapes through each entry point, with short chunks anywhere and up to two failing calls | the encoder starts every group clean; headers and payloads agree; nothing wrong is rebuilt whatever `sendto` failed; a repair loses no byte that all packets of the group carry |
| `udp_sender` | one transmission of two chunks, three switches, one slider move (2 M states) | types, no lost wake-up, at most one late packet, order, numbering, fair round robin, no deadlock; `LossyChannels` is implemented |
| `udp_faults` | two starts with two readable files and an unreadable one, failing threads, reads and blocked calls (3.1 M states) | `StopSending` wakes and joins all; nothing stale is sent; no group of two files reaches an open socket; `LossyChannels` is implemented; no deadlock |
| `udp_liveness` | one transmission under fairness | `StopSending` returns; enabled channels drain; the file is read to its end |
| `window` | the whole program with one channel, two starts and failing sockets, under fairness | the log reaches no deleted widget; the window shows what the sender does; what threads log is shown; no deadlock |
| `restart_sockets` | second start after an unreadable file | **violated**: workers send on closed sockets |
| `stale_target` | channel switched off between search and push | **violated**: a disabled channel gets packets |
| `short_packet` | short last chunk | **violated**: `sendto` is given the full length |
| `disabled_worker` | a channel that stays disabled | **violated**: its worker spins instead of waiting |
| `ulpfec_stall` | `SendByUlpfec` with one failing `sendto` | **violated**: a full group is not encoded |
| `cut_repair` | `PacketByFEC` with a short chunk in a group | **violated**: a whole chunk rebuilt in that group is cut |

Each of the last six states what a comment or the manual (`多路融合传输协议模拟系统.md`)
says, and TLC shows a behaviour of the code that does otherwise:

1. `StopSending` closes the sockets and calls `WSACleanup`; only the constructor opens
   sockets. A start that finds threads of a failed start calls `StopSending` first, and
   then sends into closed sockets until the program is restarted.
2. The reader tests a channel, then reads and encodes, then pushes. A channel disabled
   in between gets the packets of the chunk and holds them until it is enabled again.
3. `total_length` is a constant. For the last chunk of a file, and for a FEC packet
   completed by it, more bytes are sent than were written.
4. With `enabled` 0 the condition of the first wait is false and the worker continues
   with its next turn; it gets to `stateCondition` only if the channel is disabled
   after it has taken a packet.
5. `SendByUlpfec` returns from a failed `sendto` before it compares the size of the list
   with `k`. When it was the group's last media packet, or a FEC packet, the list stays
   full; the next call makes it longer, and no group is encoded any more.
6. `PacketByFEC` fills up a short chunk, as its comment says, but the caller serializes
   every packet of that call with the short chunk's length, the FEC packets too. The
   bytes behind it are not sent, and a whole chunk rebuilt with these packets ends there.
   `SendByUlpfec` sends what it fills up.

A remark that goes with the first: nothing calls `StopSending` at the end of the file, so
`is_running` stays set and Play is refused as "already running" until the window is
closed. This is also why `OpenSocketCarriesOneFile` holds: a second file is sent only
after a start that failed, and then on closed sockets. Code that made a second
transmission possible would have to reset the encoder.

Two more observations that no run is spent on, since every use of the code shows them:

* The older `PacketByFEC` in `FEC_Encode`, which the program does not use, empties
  neither list after a group and compares the size with `k` for equality. Its first group
  is its last: packets of the second get numbers that the `k` in their headers has no
  room for, and no FEC packets. For this entry point `fec_stream` therefore says
  something about the first group only.
* The scroll bars have Qt's default range of 0 to 99 and the position is divided by 1000,
  so the loss rate ends at 9.9 %, where the manual has 0 to 100 %.

### Bounds

* `SOCKET_POOL_SIZE` 2 instead of 3: one worker and one other is what the interactions
  need; all per-channel state is separate. Theorems cover every size.
* `fec_k`, `fec_r` 2 and 1 instead of 10 and 2 in the sender, so that two chunks fill a
  group; `FecStream` covers every shape up to 16.
* `SeqModulus` 3 instead of 256: the counter wraps within one transmission.
* Files of one or two chunks, the last one short: a group boundary, and a queue with
  more than one packet.
* `MaxUses` bounds the uses of each control of the window; three switches let a channel
  be enabled, disabled and enabled again, or two be enabled and one disabled.
* `MaxGroups` 3 and `MaxShort` 2 in `fec_stream`: a group after one with a short chunk.
  `MaxFailures` 2 and `MaxCalls` 15: a failure after one that left the lists full, and
  enough calls for three groups of the largest shape.
* `window` has one channel and groups of one packet: the log and the window meet the
  threads in the same way for each channel, and the interplay of channels is the matter
  of the other runs. That no slot acts on another channel is thus not a matter of this
  run but of `WindowTrue`, which is proved for any number of channels. `Bars` are the two ends of the scroll bar.

`FecStream` ends when `MaxGroups` or `MaxCalls` is reached, so deadlock is not checked
there. In `Udpserver` and `ChannelSim` it is: only the destroyed server, and the program
that has ended, may stop.

### Fairness

Strong fairness of the GUI's own steps, of the reader and of each worker. Weak fairness
would let a thread starve at a mutex that a worker of a disabled channel takes and drops
forever (item 4 above); the operating system's scheduler and the mutex implementation
give a thread its turn in the end. Nothing is assumed of the user: no control need ever
be used, and the window need never be closed. `ChannelSim` adds strong fairness of the
event loop's posted calls: Qt makes them each time the loop runs.

`EnabledChannelDrains` and `ReaderFinishes` are about channels that stay enabled while
the server stays running, since the user may always disable or stop.

## 4. The proofs

All theorems hold for every value of the constants that satisfies the assumptions in
the modules. In `Udpserver`: at least one channel, `1 <= fec_r <= fec_k <= 16`, file
names other than the empty string, loss rates within 0 and 1000 thousandths, any set of
failures, any bound on the user. In `ChannelSim`: the positions of a bar are within its
range, and are loss rates the sender knows. In `FecStream`: any set of entry points,
mask types and shapes up to 16, a short chunk shorter than a whole one, any bounds.

| Theorem | Statement |
|---|---|
| `PacketByFECType` | `PacketByFEC` maps a well-typed encoder and chunk to a well-typed encoder with something to send |
| `HeadersTellPayloads` | on a full group with `sequence_number = k`, `EncodeFec` makes `r` packets numbered from `k`, number `k + i` with row `i` of the masks in its header and the xor of just the media packets of that row as its payload |
| `RowsInterleave` | for 13 to 16 media packets, row `i` of `m` is the set of the `j` with `j % m = i` |
| `StreamWellTyped` | `FecStream`: `Spec => []TypeOK` |
| `EncodeFecReady` | `Spec => []EncodeFecDemands` |
| `CountersRight` | `Spec => []CountersMatchWire` |
| `BytesKept` | `Spec => []RepairKeepsBytes` |
| `UlpfecFills` | `Spec => [](api = "SendByUlpfec" => LastPacketIsFilled)` |
| `RebuiltExact` | `Spec => [](f.sequence_number <= 256 => RepairIsExact)` |
| `BurstsRepaired` | `Spec => [](failures = 0 /\ k > 12 => CoveredLossRepaired)` |
| `LossesRepaired` | `Spec => [](failures = 0 => CoveredLossRepaired)`, if `TablesCover` |
| `TypeCorrect` | `Udpserver`: `Spec => []TypeOK` |
| `NoThreadLeft` | `Spec => []NoThreadOutlivesStop` |
| `StopWakes` | `Spec => []StopWakesEveryWorker` |
| `NoWakeupLost` | `Spec => []NoLostWakeup` |
| `LateSends` | `Spec => []AtMostOneLateSend` |
| `FairRoundRobin` | `Spec => []BoundedBypass` |
| `PacketsInOrder` | `Spec => []ChannelOrder` |
| `NothingStale` | `Spec => []NoStalePacket` |
| `NumbersGapFree` | `Spec => []SeqNumbersGapFree`, if no thread hangs in a call |
| `OneFileOnTheWay` | `Spec => []OpenSocketCarriesOneFile` |
| `Implementation` | `Spec => ImplementsLossyChannels` |
| `ProgramImplementsSender` | `SimSpec => Spec`: the program as a whole implements the sender's specification |
| `SenderSafeInProgram` | so the sender's invariants hold in the program |
| `WindowTrue` | `SimSpec => []WindowShowsServer` |
| `LogStaysAlive` | `SimSpec => []NoLogToDeadWindow` |

### The sender

`TypeOK` is not inductive: the type alone admits a reader about to take a packet from an
empty buffer, a worker about to number a packet it does not have, or a join with nothing
in the list. `Inv` in `UdpserverProofs` adds

* `ReaderInv`: what the reader has established at each control point;
* `PacketInv`: where a worker holds a packet and where it does not;
* `GuiInv`: the ranges of the loop indices of the GUI;
* `ThreadInv`: a thread exists exactly if the list has it and it is not joined yet, and
  `is_running` is set only while the list is not empty. `NoThreadLeft` follows from it.

`UdpserverSafetyProofs` builds on `Inv`:

* `StopInv`: once `StopSending` has passed a channel with one of its two wake-ups, that
  channel's worker is not past the test of `is_running` on its way to that sleep, nor
  asleep. The point is that the GUI needs the mutex the worker holds between the two.
* `NoLostWakeup` is inductive given `Inv`.
* `LateInv`: after one late packet the worker is where it must test the channel again
  before it can send, unless the server is stopping.
* `BypassInv`: the number of chunks an enabled channel was passed over plus its distance
  from the round-robin pointer is less than the pool size; and during a search, a
  channel already passed by was not enabled when it was tested.

`UdpserverOrderProofs` first reduces every step to what it does to packets
(`ChannelStep`): nothing, a push at the end of a queue, a worker taking the front packet,
a packet leaving a worker's hands, or a start that empties all channels. On this rest

* `OrderInv`, `ChannelOrder` with `Fresh`: what is queued and held is ordered, later than
  what was sent last, and from the start under way. It is inductive by `ChannelStep`.
* `SizeInv`: a packet on its way has a length that `Serialize` accepts, so that a number
  once given is sent. The shared counter then is ahead of the numbers sent by just the
  workers about to send. The theorem leaves out the failure "stuck", and needs to: a
  worker terminated in `sendto` takes its number with it.
* the refinement in `UdpserverChannelsProofs`: each kind of step of `ChannelStep` is a
  step of `LossyChannels` or leaves its variables as they are. `ThreadInv` gives that
  packets are handed over and sent only while a transmission is on.

`UdpserverFilesProofs` needs the life cycle. A start does not reset the encoder, but
while any socket is open there has been one reader at most; so `FileInv` says that there
is a set of at most one file, the one this reader has, from which everything in the
encoder, the queues and the workers' hands is.

### The program

`BoxInv` is all the sender needs of the window: each slot calls what the sender's
specification allows at that moment. `ShownInv` is
`WindowShowsServer` made to hold while the window is being destroyed too. `LogInv` says that
the log is connected only until the destructor begins; it is the order in
`~Channel_sim` that keeps it.

### The stream

An invariant about every state of the encoder would have to follow it into groups that a
failed `sendto` left with too many packets. The argument instead singles out the groups
that can still be encoded (`Open`: fewer than `k` media packets, no end of file).

* `GroupInv`: in an open group `sequence_number` counts the media packets, and there are
  no FEC packets, neither in the list nor on the wire. Hence `EncodeFec` is only ever
  reached as `HeadersTellPayloads` wants it. A group that is not open never opens again:
  its list has `k` packets or more, and every path that empties it finishes the group or
  is the end of the file.
* `WireInv`: what was sent of a group nothing has spoilt. Numbers stay below 32, so their
  8 bits do not matter.
* `GivenInv`: no piece is given twice, and the media packets of an open group hold the
  pieces given. Distinct pieces cancel nowhere: the pieces that occur in an odd number
  of the payloads are all of them (`OddPieces`). With this, `FecInv`: a FEC packet on the
  wire is the set of the pieces its header names.
* `SeenInv`: the receiver has, misses or has rebuilt every packet, so what a repair uses
  is available.
* `ByteInv`: a packet holds its chunk up to `packet_size`; on the wire, and in every
  repair, there are as many bytes as `packet_size` (`SendByUlpfec`) or as some chunk of
  the group has (`PacketByFEC`). The least of such numbers is such a number again, so a
  chain of repairs loses no more than a single one.
* `MediaInv`: in a group with FEC packets, a media packet holds the piece for its number.
  Here the 8 bits do matter. A group left unfinished by a failed `sendto` goes on growing
  (item 5 in section 3), and its 257th packet has number 0 again: a receiver that lacks
  packet 0 takes the wrong one for it and repairs others with it. TLC finds this violation of
  `RepairIsExact` when `fec_stream` is changed to `SendByUlpfec` with `Shapes` `{<<2, 2>>}`,
  `MaxGroups` 1, `MaxShort` 0, `MaxFailures` 2 and `MaxCalls` 260. `NumbersSuffice`, that
  the packets numbered so far in the group under way are at most 256, excludes just this,
  and is a condition in the theorem's formula. It needs no bound on chunks or failures,
  and it holds in every group that is encoded: an open group has fewer than `k` packets.

`RepairIsExact` says that a rebuilt packet is right, `CoveredLossRepaired` that it is
rebuilt at all. The proof of the second has three parts.

* When is the receiver stuck? If some row has exactly one of the packets still missing,
  it can go on. So it ends with nothing missing if every nonempty part of the loss meets
  some row in a single packet (`Peelable`): no part is a stopping set.
* Which rows does it have? `CoverInv`: while no `sendto` has failed, all media packets and
  a FEC packet for every row of the masks are on the wire before the receiver starts,
  and what is missing or rebuilt since is a run of at most `r` packets. A failed `sendto`
  may leave out FEC packets, so `failures = 0` is needed.
* Are the rows good enough? For more than 12 media packets they are computed;
  `RowsInterleave` follows the bytes from `GeneratePacketMasks` to the bits that
  `EncodeFec` tests, and two packets of a run of up to `r` never have the same remainder.
  This is `BurstsRepaired`, with no hypothesis. Up to 12 packets the rows are constants in
  a table. `TablesCover` says of these that no covered loss has a stopping set in it.
  The assumption in `MCFecStream` makes TLC evaluate it, in `fec_masks` for every shape.

### What is only model-checked

* The liveness properties, which need fairness and `ENABLED`.
* `TablesCover`, the hypothesis of `LossesRepaired`: what the walk over the byte tables
  yields is a matter of evaluation, which TLC does in full for every shape and both
  mask types.

## 5. Not modelled

* The bytes of the headers (`crc32`, `stream_type`, the fields of `videoStruct`); these
  are constants in the code. Lengths are modelled.
* The status bar, the layout of the window and the text of log messages.
* Pacing: the sleeps of the reader and of `SendByUlpfec`, and the latter's totals, which
  are only printed.
* Groups of more than 16 media packets: no caller uses them, and `EncodeFec` asserts it.
* The rest of the older copy in `FEC_Encode/forward_error_correction.cpp`: it is the
  same code as the compiled one, apart from `PacketByFEC`, which is modelled, and
  `Serialize`, which it lacks.
* The receiver and the prebuilt libraries in `udp_with_ulpfec` and `Encodefec`: there is
  no source.
* Vendored code. The repository carries some 4600 files of WebRTC and Abseil under
  `FEC_Encode/include`, 99 % of its lines. The project file `Channel_sim.vcxproj`
  compiles eight files, none of them from there; of the headers the program uses the two
  of the encoder, which are modelled, and helpers for assertions and array views. A
  model of the other files would say nothing about this program. Of the program's own
  code, every file with state or control is modelled.
* Generated code (Qt's moc, uic and rcc output) and build products.

## 6. Plan

Masks, encoder with all its entry points, stream and decoder, sender, window and log, the
abstract sender, the runs, and proofs of every safety property the runs check are done.
What would come next follows changes of the code: a reset of the encoder at a start, or
of `is_running` at the end of a file, changes what `OpenSocketCarriesOneFile` and
`NumbersGapFree` rest on.
