-------------------------- MODULE UdpserverChannels --------------------------
(***************************************************************************)
(* The sender implements LossyChannels.  A channel is its queue with the   *)
(* packet in its worker's hands before it; a transmission is on while the  *)
(* list workerThreads is not empty.                                        *)
(***************************************************************************)
EXTENDS Udpserver

Held(c)   == IF sendPkt[c] = NoPacket THEN << >> ELSE <<sendPkt[c].order>>
Queued(c) == [i \in 1 .. Len(packetQueue[c]) |-> packetQueue[c][i].order]

Abstract == INSTANCE LossyChannels WITH
  on        <- workerThreads > 0,
  handed    <- pushed,
  chan      <- [c \in Channels |-> Held(c) \o Queued(c)],
  delivered <- lastSent

(***************************************************************************)
(* Through all interleavings of the threads, with failures and restarts,   *)
(* every packet goes to one channel, none is sent twice or overtakes       *)
(* another, one taken from the queue while its channel is being disabled   *)
(* keeps its place, and nothing is handed over or sent without a running   *)
(* transmission or carried into the next.                                  *)
(***************************************************************************)
ImplementsLossyChannels == Abstract!Spec
=============================================================================
