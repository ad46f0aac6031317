---------------------------- MODULE LossyChannels ----------------------------
(***************************************************************************)
(* What the sender promises, without threads, locks or wake-ups: some      *)
(* first-in first-out channels between the encoder and the network.  While *)
(* a transmission is on, packets are handed to one channel each, and leave *)
(* it at the front: delivered to the network, or dropped.  A transmission  *)
(* begins with all channels empty.                                         *)
(***************************************************************************)
EXTENDS Naturals, Sequences

CONSTANT Channels

VARIABLES
  on,          \* is a transmission on?
  handed,      \* packets handed to the channels so far; they are numbered from 1
  chan,        \* channel -> the numbers of the packets in it
  delivered    \* channel -> number of the last packet delivered, 0 if none

vars == <<on, handed, chan, delivered>>

Empty == [c \in Channels |-> << >>]

Init ==
  /\ on = FALSE
  /\ handed = 0
  /\ chan = Empty
  /\ delivered = [c \in Channels |-> 0]

\* The start may fail; the channels are empty then, too.
Start ==
  /\ ~on
  /\ on' \in BOOLEAN
  /\ chan' = Empty
  /\ UNCHANGED <<handed, delivered>>

Hand(c) ==
  /\ on
  /\ handed' = handed + 1
  /\ chan' = [chan EXCEPT ![c] = Append(@, handed + 1)]
  /\ UNCHANGED <<on, delivered>>

Leave(c) == on /\ chan[c] # << >> /\ chan' = [chan EXCEPT ![c] = Tail(@)]

Deliver(c) ==
  /\ Leave(c)
  /\ delivered' = [delivered EXCEPT ![c] = Head(chan[c])]
  /\ UNCHANGED <<on, handed>>

Drop(c) == Leave(c) /\ UNCHANGED <<on, handed, delivered>>

\* Packets may be left in the channels; none of them is ever delivered.
Stop ==
  /\ on
  /\ on' = FALSE
  /\ UNCHANGED <<handed, chan, delivered>>

Next == Start \/ Stop \/ \E c \in Channels : Hand(c) \/ Deliver(c) \/ Drop(c)

Spec == Init /\ [][Next]_vars
=============================================================================
