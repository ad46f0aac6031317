-------------------------- MODULE ChannelSimProofs --------------------------
(***************************************************************************)
(* The program as a whole: the window drives the sender within the         *)
(* sender's own specification, so that all that is proved of the sender    *)
(* holds in the program; what the window shows is true; and the log does   *)
(* not reach deleted widgets.                                              *)
(***************************************************************************)
EXTENDS ChannelSim, UdpserverSafetyProofs, UdpserverFilesProofs

\* The states of the check boxes, which is all the sender needs of the window.
BoxInv == box \in [Channels -> {0, 1}]

\* What a step of the program is to the window: clicking a box, moving a bar, a step of
\* the end, or nothing.
LEMMA BoxStep == BoxInv /\ [SimNext]_simVars => BoxInv'
<1> SUFFICES ASSUME BoxInv, [SimNext]_simVars PROVE BoxInv'
  OBVIOUS
<1>1. ASSUME NEW c \in Channels, getChannelState(c) PROVE BoxInv'
  <2>1. box[c] \in {0, 1} /\ box' = [box EXCEPT ![c] = 1 - @]
    BY <1>1 DEF BoxInv, getChannelState
  <2> DEFINE b == 1 - box[c]
  <2>2. b \in {0, 1} /\ box' = [box EXCEPT ![c] = b]
    BY <2>1
  <2> HIDE DEF b
  <2> QED
    BY <2>2 DEF BoxInv
<1>2. CASE ~(\E c \in Channels : getChannelState(c))
  <2>1. UNCHANGED box
    BY <1>2
    DEF SimNext, WindowUser, WindowEnd, getLostrate, Readfile, Play, Quit, Destructor,
        DeleteWidgets, DeleteServer, Release, appendLogToUi, GuiStep, ReaderStep, WorkerStep,
        Gone, simVars, winVars, widgets
  <2> QED
    BY <2>1 DEF BoxInv
<1> QED
  BY <1>1, <1>2

\* Every step of the program is a step of the sender, or none.
LEMMA SenderStep == BoxInv /\ [SimNext]_simVars => [Next]_vars
<1> SUFFICES ASSUME BoxInv, [SimNext]_simVars PROVE [Next]_vars
  OBVIOUS
<1>1. ASSUME NEW c \in Channels, getChannelState(c) PROVE Next
  <2>1. box'[c] \in {0, 1}
    <3>1. box[c] \in {0, 1} /\ box'[c] = 1 - box[c]
      BY <1>1 DEF BoxInv, getChannelState
    <3> QED
      BY <3>1
  <2>2. channelStateChange(c, box'[c])
    BY <1>1 DEF getChannelState
  <2>3. \E state \in {0, 1} : channelStateChange(c, state)
    BY <2>1, <2>2, Zenon
  <2> QED
    BY <2>3, Zenon DEF Next, User
<1>2. ASSUME NEW c \in Channels, NEW value \in Bars, getLostrate(c, value) PROVE Next
  <2>1. value \in LossRates /\ setLossRate(c, value)
    BY <1>2, BarsAssumption DEF getLostrate
  <2> QED
    BY <2>1, Zenon DEF Next, User
<1>3. ASSUME NEW p \in Paths \union {""}, Readfile(p) PROVE Next
  BY <1>3, Zenon DEF Readfile, Next, User
<1>4. CASE Play \/ DeleteServer
  BY <1>4, Zenon DEF Play, DeleteServer, Next, User
<1>5. CASE GuiStep \/ ReaderStep \/ \E c \in Channels : WorkerStep(c)
  BY <1>5, Zenon DEF GuiStep, ReaderStep, WorkerStep, Next
<1>6. CASE \/ Quit \/ Destructor \/ DeleteWidgets \/ Release \/ appendLogToUi \/ Gone
           \/ UNCHANGED simVars
  <2>1. UNCHANGED vars
    BY <1>6, Zenon DEF Quit, Destructor, DeleteWidgets, Release, appendLogToUi, Gone, simVars
  <2> QED
    BY <2>1
<1> QED
  BY <1>1, <1>2, <1>3, <1>4, <1>5, <1>6 DEF SimNext, WindowUser, WindowEnd

\* The program implements the specification of the sender: the slots of the window, the
\* order in which main and ~Channel_sim destroy the objects, and the event loop only ever
\* make calls that Udpserver's specification allows.
THEOREM ProgramImplementsSender == SimSpec => Spec
<1>1. SimInit => Init /\ BoxInv
  BY DEF SimInit, BoxInv
<1> QED
  BY <1>1, BoxStep, SenderStep, PTL DEF SimSpec, Spec

\* So all that is proved of the sender alone holds in the program.
THEOREM SenderSafeInProgram ==
  SimSpec => [](/\ TypeOK /\ NoThreadOutlivesStop /\ StopWakesEveryWorker /\ NoLostWakeup
                /\ AtMostOneLateSend /\ BoundedBypass /\ ChannelOrder /\ NoStalePacket
                /\ OpenSocketCarriesOneFile)
BY ProgramImplementsSender, TypeCorrect, NoThreadLeft, StopWakes, NoWakeupLost, LateSends,
   FairRoundRobin, PacketsInOrder, NothingStale, OneFileOnTheWay, PTL

-----------------------------------------------------------------------------
(* What the window shows *)

\* The widgets agree with the sender's settings, not only when the user can act.
ShownInv ==
  /\ enabled \in [Channels -> {0, 1}] /\ lossRate \in [Channels -> 0 .. 1000]
  /\ box = enabled
  /\ bar = lossRate
  /\ label \in [Channels -> {NoLabel} \union 0 .. 1000]
  /\ \A c \in Channels : label[c] # NoLabel => label[c] = lossRate[c]

\* Every step of the program keeps ShownInv.
LEMMA ShownStep == Inv /\ ShownInv /\ [SimNext]_simVars => ShownInv'
<1> SUFFICES ASSUME Inv, ShownInv, [SimNext]_simVars PROVE ShownInv'
  OBVIOUS
<1>0. /\ enabled \in [Channels -> {0, 1}] /\ lossRate \in [Channels -> 0 .. 1000]
      /\ box = enabled /\ bar = lossRate
      /\ label \in [Channels -> {NoLabel} \union 0 .. 1000]
      /\ \A c \in Channels : label[c] # NoLabel => label[c] = lossRate[c]
  BY DEF ShownInv
<1>1. ASSUME UNCHANGED <<box, bar, label, enabled, lossRate>> PROVE ShownInv'
  BY <1>0, <1>1 DEF ShownInv
<1>2. ASSUME NEW c \in Channels, getChannelState(c) PROVE ShownInv'
  <2> DEFINE b == 1 - box[c]
  <2>1. b \in {0, 1}
    BY <1>0
  <2>2. box' = [box EXCEPT ![c] = b] /\ UNCHANGED <<bar, label, lossRate>>
    BY <1>2 DEF getChannelState, channelStateChange
  <2> HIDE DEF b
  <2>3. box'[c] = b
    BY <1>0, <2>2
  <2>4. enabled' = [enabled EXCEPT ![c] = b]
    BY <1>2, <2>3 DEF getChannelState, channelStateChange
  <2>5. box' = enabled' /\ enabled' \in [Channels -> {0, 1}]
    BY <1>0, <2>1, <2>2, <2>4
  <2> QED
    BY <1>0, <2>2, <2>5 DEF ShownInv
<1>3. ASSUME NEW c \in Channels, NEW value \in Bars, getLostrate(c, value) PROVE ShownInv'
  <2>1. value \in 0 .. 1000
    BY BarsAssumption, LossAssumption
  <2>2. /\ bar' = [bar EXCEPT ![c] = value] /\ label' = [label EXCEPT ![c] = value]
        /\ lossRate' = [lossRate EXCEPT ![c] = value] /\ UNCHANGED <<box, enabled>>
    BY <1>3 DEF getLostrate, setLossRate
  <2>3. /\ bar' = lossRate' /\ lossRate' \in [Channels -> 0 .. 1000]
        /\ label' \in [Channels -> {NoLabel} \union 0 .. 1000]
    BY <1>0, <2>1, <2>2
  <2>4. \A d \in Channels : label'[d] # NoLabel => label'[d] = lossRate'[d]
    BY <1>0, <2>2
  <2> QED
    BY <1>0, <2>2, <2>3, <2>4 DEF ShownInv
<1>4. CASE Play \/ DeleteServer \/ \E p \in Paths \union {""} : Readfile(p)
  BY <1>1, <1>4
  DEF Play, DeleteServer, Readfile, StartSending, Close, SetFileName, members, settings, winVars,
      widgets
<1>5. CASE GuiStep \/ ReaderStep
  BY <1>1, <1>5, GuiFrame, ReaderFrame DEF GuiStep, ReaderStep, widgets
<1>6. ASSUME NEW c \in Channels, WorkerStep(c) PROVE ShownInv'
  BY <1>1, <1>6, WorkerFrame DEF WorkerStep, widgets, Inv
<1>7. CASE \/ Quit \/ Destructor \/ DeleteWidgets \/ Release \/ appendLogToUi \/ Gone
           \/ UNCHANGED simVars
  BY <1>1, <1>7
  DEF Quit, Destructor, DeleteWidgets, Release, appendLogToUi, Gone, simVars, winVars, widgets,
      vars, members, settings
<1> QED
  BY <1>2, <1>3, <1>4, <1>5, <1>6, <1>7 DEF SimNext, WindowUser, WindowEnd

\* What the window shows is what the sender does: each check box its channel's state,
\* each bar and label its loss rate.
THEOREM WindowTrue == SimSpec => []WindowShowsServer
<1>1. SimInit => ShownInv
  <2> SUFFICES ASSUME SimInit PROVE ShownInv
    OBVIOUS
  <2>1. /\ enabled = [c \in Channels |-> 0] /\ lossRate = [c \in Channels |-> 0]
        /\ box = [c \in Channels |-> 0] /\ bar = [c \in Channels |-> 0]
        /\ label = [c \in Channels |-> NoLabel]
    BY DEF SimInit, Init
  <2> QED
    BY <2>1 DEF ShownInv
<1>2. ShownInv => WindowShowsServer
  BY DEF ShownInv, WindowShowsServer
<1> QED
  BY <1>1, <1>2, ShownStep, ProgramImplementsSender, InvAlways, PTL DEF SimSpec

-----------------------------------------------------------------------------
(* The log *)

\* The log is disconnected before the first widget is deleted.
LogInv ==
  /\ deadLog = FALSE
  /\ logConnected => window \in {"open", "closed"}

\* Every step of the program keeps LogInv.
LEMMA LogStep == LogInv /\ [SimNext]_simVars => LogInv'
<1> SUFFICES ASSUME LogInv, [SimNext]_simVars PROVE LogInv'
  OBVIOUS
<1>0. ~deadLog /\ (logConnected => window \in {"open", "closed"})
  BY DEF LogInv
<1>1. ASSUME LogFromGui \/ LogFromThread \/ UNCHANGED log, UNCHANGED window PROVE LogInv'
  <2>1. CASE LogFromGui
    <3>1. ~(logConnected /\ window = "deleted")
      BY <1>0
    <3>2. deadLog' = FALSE
      BY <1>0, <2>1, <3>1, Zenon DEF LogFromGui
    <3> QED
      BY <1>0, <1>1, <2>1, <3>2 DEF LogFromGui, LogInv
  <2>2. CASE LogFromThread \/ UNCHANGED log
    <3>1. deadLog' = deadLog /\ logConnected' = logConnected
      BY <2>2 DEF LogFromThread, log
    <3> QED
      BY <1>1, <3>1 DEF LogInv
  <2> QED
    BY <1>1, <2>1, <2>2
<1>2. CASE WindowUser \/ appendLogToUi
  <2>1. CASE Quit \/ appendLogToUi
    BY <2>1 DEF Quit, appendLogToUi, LogInv, log
  <2>2. CASE WindowUser /\ ~Quit
    BY <1>1, <2>2 DEF WindowUser, getChannelState, getLostrate, Readfile, Play
  <2> QED
    BY <1>2, <2>1, <2>2
<1>3. CASE WindowEnd
  BY <1>3
  DEF WindowEnd, Destructor, DeleteWidgets, DeleteServer, Release, LogInv, winVars, log
<1>4. CASE GuiStep \/ ReaderStep \/ \E c \in Channels : WorkerStep(c)
  BY <1>1, <1>4 DEF GuiStep, ReaderStep, WorkerStep
<1>5. CASE Gone \/ UNCHANGED simVars
  BY <1>1, <1>5 DEF Gone, simVars, winVars
<1> QED
  BY <1>2, <1>3, <1>4, <1>5 DEF SimNext

\* The log never reaches a deleted widget, although the sender is deleted after the
\* widgets and logs from all its threads while it stops.
THEOREM LogStaysAlive == SimSpec => []NoLogToDeadWindow
<1>1. SimInit => LogInv
  BY DEF SimInit, LogInv
<1>2. LogInv => NoLogToDeadWindow
  BY DEF LogInv, NoLogToDeadWindow
<1> QED
  BY <1>1, <1>2, LogStep, PTL DEF SimSpec
=============================================================================
