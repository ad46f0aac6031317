---------------------------- MODULE MCUdpserver ----------------------------
(* Instances of Udpserver for TLC. *)
EXTENDS UdpserverChannels

\* A whole chunk and a short one: one group for fec_k = 2.
TwoChunks == [p \in Paths |-> readChunkSize + 500]

OneShortChunk == [p \in Paths |-> 500]

\* The whole life of one transmission, with channels switched and a loss rate set.
OneRun == [Play |-> 1, Toggle |-> 3, File |-> 1, Slider |-> 1]

\* Failing and repeated starts.
Restarts == [Play |-> 2, Toggle |-> 2, File |-> 2, Slider |-> 0]

FewToggles == [Play |-> 1, Toggle |-> 3, File |-> 1, Slider |-> 0]
=============================================================================
