---------------------------- MODULE MCChannelSim ----------------------------
(* Instances of ChannelSim for TLC. *)
EXTENDS ChannelSim

OneShortChunk == [p \in Paths |-> 500]

\* Two starts, the second after a failed one.
TwoStarts == [Play |-> 2, Toggle |-> 1, File |-> 2, Slider |-> 1]
=============================================================================
