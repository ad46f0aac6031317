----------------------- MODULE UdpserverChannelsProofs -----------------------
(***************************************************************************)
(* The sender implements LossyChannels, for every value of the constants:  *)
(* every step of a thread hands a packet to a channel, removes the one at  *)
(* its front, starts or stops a transmission, or leaves the channels as    *)
(* they are.                                                               *)
(***************************************************************************)
EXTENDS UdpserverChannels, UdpserverOrderProofs

\* The content of a channel whose worker holds p and whose queue is q.
Orders(q)  == [i \in 1 .. Len(q) |-> q[i].order]
Line(p, q) == (IF p = NoPacket THEN << >> ELSE <<p.order>>) \o Orders(q)

chanBar == [c \in Channels |-> Held(c) \o Queued(c)]

-----------------------------------------------------------------------------
(* Lines of packets *)

\* The order numbers of a queue are as many as its packets.
LEMMA OrdersType ==
  ASSUME NEW q \in Seq(SendPacketType)
  PROVE  Orders(q) \in Seq(Nat) /\ Len(Orders(q)) = Len(q)
<1>1. \A i \in 1 .. Len(q) : q[i].order \in Nat
  BY OrderType
<1>2. Len(q) \in Nat
  OBVIOUS
<1> QED
  BY <1>1, <1>2 DEF Orders

\* A packet pushed at the end of a queue is at the end of the line.
LEMMA LinePush ==
  ASSUME NEW q \in Seq(SendPacketType), NEW h \in SendPacketType \union {NoPacket},
         NEW p \in SendPacketType
  PROVE  Line(h, Append(q, p)) = Append(Line(h, q), p.order)
<1> DEFINE front == IF h = NoPacket THEN << >> ELSE <<h.order>>
<1>1. front \in Seq(Nat) /\ p.order \in Nat
  BY OrderType
<1>2. Orders(q) \in Seq(Nat) /\ Orders(Append(q, p)) \in Seq(Nat)
  BY OrdersType, AppendProperties
<1>3. Orders(Append(q, p)) = Append(Orders(q), p.order)
  <2>1. Len(q) \in Nat /\ Len(Append(q, p)) = Len(q) + 1
    BY AppendProperties
  <2>2. \A i \in 1 .. Len(q) + 1 : Append(q, p)[i] = IF i = Len(q) + 1 THEN p ELSE q[i]
    BY <2>1, AppendProperties
  <2>3. Len(Append(Orders(q), p.order)) = Len(q) + 1
    BY <1>1, <1>2, OrdersType, AppendProperties
  <2>4. \A i \in 1 .. Len(q) + 1 :
          Append(Orders(q), p.order)[i] = IF i = Len(q) + 1 THEN p.order ELSE q[i].order
    <3>1. \A i \in 1 .. Len(q) : Orders(q)[i] = q[i].order
      BY DEF Orders
    <3> QED
      BY <1>1, <1>2, <2>1, <3>1, OrdersType, AppendProperties
  <2>5. \A i \in 1 .. Len(q) + 1 : Orders(Append(q, p))[i] = Append(Orders(q), p.order)[i]
    BY <2>1, <2>2, <2>4 DEF Orders
  <2>6. Len(Orders(Append(q, p))) = Len(q) + 1
    BY <2>1, OrdersType, AppendProperties
  <2>7. Append(Orders(q), p.order) \in Seq(Nat)
    BY <1>1, <1>2, AppendProperties
  <2> QED
    BY <1>2, <2>3, <2>5, <2>6, <2>7, SeqEqual
<1> HIDE DEF front
<1>4. front \o Append(Orders(q), p.order) = Append(front \o Orders(q), p.order)
  BY <1>1, <1>2, ConcatAssociative, AppendIsConcat, ConcatProperties
<1> QED
  BY <1>3, <1>4 DEF Line, front

\* The front packet of a queue in the worker's hands has the same place in the line.
LEMMA LinePop ==
  ASSUME NEW q \in Seq(SendPacketType), q # << >>
  PROVE  Line(Head(q), Tail(q)) = Line(NoPacket, q)
<1>1. /\ Head(q) \in SendPacketType /\ Tail(q) \in Seq(SendPacketType)
      /\ Len(Tail(q)) = Len(q) - 1 /\ Len(q) \in Nat \ {0}
      /\ \A i \in 1 .. Len(Tail(q)) : Tail(q)[i] = q[i + 1]
      /\ Head(q) = q[1]
  BY HeadTailProperties, EmptySeq
<1> DEFINE rest == Orders(Tail(q))
           one == <<q[1].order>>
           s == one \o rest
<1>2. rest \in Seq(Nat) /\ Len(rest) = Len(q) - 1 /\ q[1].order \in Nat
  BY <1>1, OrdersType, OrderType
<1>3. \A i \in 1 .. Len(q) - 1 : rest[i] = q[i + 1].order
  BY <1>1 DEF Orders
<1>4. Orders(q) \in Seq(Nat) /\ Len(Orders(q)) = Len(q)
  BY OrdersType
<1> HIDE DEF rest
<1>5. s \in Seq(Nat) /\ Len(s) = Len(q)
      /\ \A i \in 1 .. Len(q) : s[i] = IF i = 1 THEN q[1].order ELSE rest[i - 1]
  <2>1. one \in Seq(Nat) /\ Len(one) = 1 /\ one[1] = q[1].order
    BY <1>2
  <2> HIDE DEF one
  <2>2. /\ s \in Seq(Nat) /\ Len(s) = Len(one) + Len(rest)
        /\ \A i \in 1 .. Len(one) + Len(rest) :
             s[i] = IF i <= Len(one) THEN one[i] ELSE rest[i - Len(one)]
    BY <1>2, <2>1, ConcatProperties, Zenon
  <2> QED
    BY <1>1, <1>2, <2>1, <2>2
<1> HIDE DEF s
<1>6. \A i \in 1 .. Len(q) : s[i] = Orders(q)[i]
  BY <1>1, <1>3, <1>5 DEF Orders
<1>7. s = Orders(q)
  BY <1>4, <1>5, <1>6, SeqEqual
<1>8. Line(Head(q), Tail(q)) = s
  BY <1>1, OrderType DEF Line, s, rest, one
<1>9. Line(NoPacket, q) = Orders(q)
  BY <1>4, ConcatEmptySeq DEF Line
<1> QED
  BY <1>7, <1>8, <1>9

\* The packet in the worker's hands is the front of the line.
LEMMA LineLeave ==
  ASSUME NEW q \in Seq(SendPacketType), NEW p \in SendPacketType
  PROVE  /\ Line(p, q) # << >>
         /\ Head(Line(p, q)) = p.order
         /\ Tail(Line(p, q)) = Line(NoPacket, q)
<1>1. Orders(q) \in Seq(Nat) /\ p.order \in Nat /\ p # NoPacket
  BY OrdersType, OrderType
<1>2. Line(p, q) = <<p.order>> \o Orders(q)
  BY <1>1 DEF Line
<1>3. Line(NoPacket, q) = Orders(q)
  BY <1>1, ConcatEmptySeq DEF Line
<1> DEFINE s == <<p.order>> \o Orders(q)
<1>4. /\ s \in Seq(Nat) /\ Len(s) = Len(Orders(q)) + 1 /\ s[1] = p.order
      /\ \A i \in 1 .. Len(Orders(q)) : s[i + 1] = Orders(q)[i]
  BY <1>1, ConcatProperties
<1> HIDE DEF s
<1>5. s # << >> /\ Head(s) = p.order /\ Tail(s) \in Seq(Nat) /\ Len(Tail(s)) = Len(Orders(q))
      /\ \A i \in 1 .. Len(Orders(q)) : Tail(s)[i] = Orders(q)[i]
  BY <1>1, <1>4, HeadTailProperties
<1>6. Tail(s) = Orders(q)
  BY <1>1, <1>5, SeqEqual
<1> QED
  BY <1>2, <1>3, <1>5, <1>6 DEF s
-----------------------------------------------------------------------------
(* The steps *)

\* The mapping, channel by channel.
LEMMA ChanBar ==
  /\ chanBar = [c \in Channels |-> Line(sendPkt[c], packetQueue[c])]
  /\ chanBar' = [c \in Channels |-> Line(sendPkt'[c], packetQueue'[c])]
BY DEF chanBar, Held, Queued, Line, Orders

\* Every step of the sender is a step of LossyChannels or leaves its variables unchanged.
LEMMA RefineStep ==
  ASSUME Inv, Next PROVE [Abstract!Next]_(Abstract!vars)
<1>0. /\ packetQueue \in [Channels -> Seq(SendPacketType)]
      /\ sendPkt \in [Channels -> SendPacketType \union {NoPacket}]
      /\ lastSent \in [Channels -> Nat]
      /\ reader \in ReaderType /\ pushed \in Nat
      /\ workerThreads \in 0 .. SOCKET_POOL_SIZE + 1
  BY DEF Inv, TypeOK
<1> DEFINE On == workerThreads > 0
<1>a. ASSUME UNCHANGED <<On, pushed, chanBar, lastSent>>
      PROVE  [Abstract!Next]_(Abstract!vars)
  BY <1>a DEF Abstract!vars, chanBar
<1>1. CASE Quiet
  <2>1. UNCHANGED <<pushed, lastSent>>
    BY <1>1 DEF Quiet
  <2>2. chanBar' = chanBar
    <3>1. ASSUME NEW c \in Channels
          PROVE  Line(sendPkt'[c], packetQueue'[c]) = Line(sendPkt[c], packetQueue[c])
      <4>1. packetQueue' = packetQueue
        BY <1>1 DEF Quiet
      <4>2. \/ sendPkt'[c] = sendPkt[c]
            \/ /\ sendPkt[c] # NoPacket /\ sendPkt'[c] # NoPacket
               /\ sendPkt'[c].order = sendPkt[c].order
        BY <1>1, SeqKeepsPacket, OrderType DEF Quiet
      <4> QED
        BY <4>1, <4>2 DEF Line
    <3> QED
      BY <3>1, ChanBar
  <2>3. CASE On' = On
    BY <1>a, <2>1, <2>2, <2>3
  <2>4. CASE On' # On
    <3>1. On /\ ~On'
      BY <1>1, <2>4 DEF Quiet
    <3>2. Abstract!Stop
      BY <2>1, <2>2, <3>1 DEF Abstract!Stop, chanBar
    <3> QED
      BY <3>2 DEF Abstract!Next
  <2> QED
    BY <2>3, <2>4
<1>2. CASE StartReader
  <2>1. /\ UNCHANGED <<pushed, lastSent, sendPkt>>
        /\ packetQueue' = [c \in Channels |-> << >>]
    BY <1>2 DEF StartReader, ClearedQueues, workers
  <2>2. ~On /\ On' \in BOOLEAN
    BY <1>2 DEF StartReader, Inv, ThreadInv
  <2>3. ASSUME NEW c \in Channels PROVE Line(sendPkt'[c], packetQueue'[c]) = << >>
    <3>1. wpc[c] = "none"
      BY <1>2, InvThreadsGone DEF StartReader
    <3>2. sendPkt'[c] = NoPacket /\ packetQueue'[c] = << >>
      BY <2>1, <3>1 DEF Inv, PacketInv
    <3>3. Orders(<< >>) = << >>
      BY DEF Orders
    <3> QED
      BY <3>2, <3>3 DEF Line
  <2>4. chanBar' = [c \in Channels |-> << >>]
    BY <2>3, ChanBar
  <2>5. Abstract!Start
    BY <2>1, <2>2, <2>4 DEF Abstract!Start, Abstract!Empty, chanBar
  <2> QED
    BY <2>5 DEF Abstract!Next
<1>3. CASE PushPacket
  <2> DEFINE t == reader.target
             p == SendPacket(Head(fec.buffer_packets), reader.payload, t, pushed + 1)
  <2>1. /\ UNCHANGED <<sendPkt, lastSent, workerThreads>> /\ pushed' = pushed + 1
        /\ packetQueue' = [packetQueue EXCEPT ![t] = Append(@, p)]
        /\ t \in Channels
    BY <1>0, <1>3 DEF PushPacket, PushBack, workers, ReaderAt, ReaderType
  <2>2. p \in SendPacketType /\ p.order = pushed + 1
    BY <1>3, PushedType
  <2>3. On
    <3>1. reader.pc # "none"
      BY <1>3 DEF PushPacket, ReaderAt
    <3> QED
      BY <3>1, ReaderListed
  <2> HIDE DEF p, t
  <2>4. ASSUME NEW c \in Channels
        PROVE  Line(sendPkt'[c], packetQueue'[c]) =
                 IF c = t THEN Append(Line(sendPkt[c], packetQueue[c]), pushed + 1)
                          ELSE Line(sendPkt[c], packetQueue[c])
    <3>1. CASE c = t
      <4>1. packetQueue'[c] = Append(packetQueue[c], p)
        BY <1>0, <2>1, <3>1
      <4>2. Line(sendPkt[c], Append(packetQueue[c], p))
              = Append(Line(sendPkt[c], packetQueue[c]), pushed + 1)
        BY <1>0, <2>2, LinePush
      <4> QED
        BY <2>1, <3>1, <4>1, <4>2
    <3>2. CASE c # t
      BY <1>0, <2>1, <3>2
    <3> QED
      BY <3>1, <3>2
  <2>5. chanBar' = [chanBar EXCEPT ![t] = Append(@, pushed + 1)]
    BY <2>1, <2>4, ChanBar
  <2>6. Abstract!Hand(t)
    BY <2>1, <2>3, <2>5 DEF Abstract!Hand, chanBar
  <2> QED
    BY <2>1, <2>6 DEF Abstract!Next
<1>4. ASSUME NEW d \in Channels, Takes(d) PROVE [Abstract!Next]_(Abstract!vars)
  <2>1. UNCHANGED <<On, pushed, lastSent>>
    BY <1>4 DEF Takes
  <2>2. ASSUME NEW c \in Channels
        PROVE  Line(sendPkt'[c], packetQueue'[c]) = Line(sendPkt[c], packetQueue[c])
    <3>1. CASE c = d
      <4>1. /\ sendPkt'[c] = Head(packetQueue[c]) /\ packetQueue'[c] = Tail(packetQueue[c])
            /\ sendPkt[c] = NoPacket /\ packetQueue[c] # << >>
        BY <1>0, <1>4, <3>1 DEF Takes
      <4> QED
        BY <1>0, <4>1, LinePop
    <3>2. CASE c # d
      BY <1>0, <1>4, <3>2 DEF Takes
    <3> QED
      BY <3>1, <3>2
  <2>3. chanBar' = chanBar
    BY <2>2, ChanBar
  <2> QED
    BY <1>a, <2>1, <2>3
<1>5. ASSUME NEW d \in Channels, Leaves(d) PROVE [Abstract!Next]_(Abstract!vars)
  <2>1. On /\ UNCHANGED <<On, pushed, packetQueue>> /\ sendPkt[d] \in SendPacketType
    BY <1>5 DEF Leaves
  <2>2. /\ Line(sendPkt[d], packetQueue[d]) # << >>
        /\ Head(Line(sendPkt[d], packetQueue[d])) = sendPkt[d].order
        /\ Tail(Line(sendPkt[d], packetQueue[d])) = Line(NoPacket, packetQueue[d])
    BY <1>0, <2>1, LineLeave
  <2>3. ASSUME NEW c \in Channels
        PROVE  Line(sendPkt'[c], packetQueue'[c]) =
                 IF c = d THEN Tail(Line(sendPkt[c], packetQueue[c]))
                          ELSE Line(sendPkt[c], packetQueue[c])
    BY <1>0, <1>5, <2>1, <2>2 DEF Leaves
  <2>4. /\ chanBar' = [chanBar EXCEPT ![d] = Tail(@)]
        /\ chanBar[d] # << >> /\ Head(chanBar[d]) = sendPkt[d].order
    BY <2>2, <2>3, ChanBar
  <2>5. Abstract!Leave(d)
    BY <2>1, <2>4 DEF Abstract!Leave, chanBar
  <2>6. CASE lastSent' = lastSent
    <3>1. Abstract!Drop(d)
      BY <2>1, <2>5, <2>6 DEF Abstract!Drop
    <3> QED
      BY <3>1 DEF Abstract!Next
  <2>7. CASE lastSent' = [lastSent EXCEPT ![d] = sendPkt[d].order]
    <3>1. Abstract!Deliver(d)
      BY <2>1, <2>4, <2>5, <2>7 DEF Abstract!Deliver, chanBar
    <3> QED
      BY <3>1 DEF Abstract!Next
  <2> QED
    BY <1>5, <2>6, <2>7 DEF Leaves
<1> QED
  BY <1>1, <1>2, <1>3, <1>4, <1>5, ChannelStep

\* The sender implements LossyChannels: through all interleavings of its threads, with
\* failures and restarts, each channel is a queue that packets leave at the front only,
\* delivered or dropped, and only while a transmission is on.
THEOREM Implementation == Spec => ImplementsLossyChannels
<1>1. Init => Abstract!Init
  <2> SUFFICES ASSUME Init PROVE Abstract!Init
    OBVIOUS
  <2>1. /\ workerThreads = 0 /\ pushed = 0 /\ lastSent = [c \in Channels |-> 0]
        /\ \A c \in Channels : sendPkt[c] = NoPacket /\ packetQueue[c] = << >>
    BY DEF Init
  <2>2. Line(NoPacket, << >>) = << >>
    BY DEF Line, Orders
  <2>3. chanBar = [c \in Channels |-> << >>]
    BY <2>1, <2>2, ChanBar
  <2> QED
    BY <2>1, <2>3 DEF Abstract!Init, Abstract!Empty, chanBar
<1>2. Inv /\ [Next]_vars => [Abstract!Next]_(Abstract!vars)
  <2>1. UNCHANGED vars => UNCHANGED Abstract!vars
    BY DEF vars, members, lifecycle, stream, workers, history, Abstract!vars, Held, Queued
  <2> QED
    BY <2>1, RefineStep
<1> QED
  BY <1>1, <1>2, InvAlways, PTL DEF Spec, ImplementsLossyChannels, Abstract!Spec
=============================================================================
