----------------------------- MODULE ChannelSim -----------------------------
(***************************************************************************)
(* The program: the main window (src/Channel_sim/Channel_sim.cpp and its   *)
(* .ui file), the log (LogEmitter.cpp) and main.cpp around the sender.     *)
(*                                                                         *)
(* The window's slots drive Udpserver, in the GUI thread.  All parts log;  *)
(* the log signal is connected to the window's slot appendLogToUi.  It is  *)
(* called at once when the GUI thread logs, and posted to the event loop   *)
(* when another thread does.  The loop stands still while a slot runs.     *)
(* At the end the destructor of the window disconnects the log, then the   *)
(* children are deleted in the order of their creation: the widgets, and   *)
(* after them the sender, whose destructor stops the threads.              *)
(***************************************************************************)
EXTENDS Udpserver

CONSTANT Bars        \* positions of the scroll bars that the user chooses

\* The .ui file sets no range: QAbstractSlider's own.
BarMaximum == 99
NoLabel    == -1     \* no value shown yet

ASSUME BarsAssumption == Bars \subseteq (0 .. BarMaximum) \intersect LossRates

VARIABLES
  window,        \* "open", "closed": exec() has returned, "destroyed": the destructor has
                 \* run, "deleted": so have those of the widgets, "gone"
  box,           \* channel -> state of its check box
  bar,           \* channel -> position of its scroll bar
  label,         \* channel -> loss it shows, in thousandths, or NoLabel
  logConnected,  \* is newLogMessage connected to appendLogToUi?
  posted,        \* are calls of appendLogToUi waiting in the event loop?
  deadLog        \* history: appendLogToUi has run with its text widget deleted

widgets == <<box, bar, label>>
log     == <<logConnected, posted, deadLog>>
winVars == <<window, widgets, log>>
simVars == <<vars, winVars>>

\* main, and the constructor, whose last act is to connect the log.
SimInit ==
  /\ Init
  /\ window = "open"
  /\ box = [c \in Channels |-> 0]
  /\ bar = [c \in Channels |-> 0]
  /\ label = [c \in Channels |-> NoLabel]
  /\ logConnected = TRUE
  /\ posted = FALSE
  /\ deadLog = FALSE

-----------------------------------------------------------------------------
(* customMessageHandler and appendLogToUi *)

\* The GUI thread logs: appendLogToUi runs at once.
LogFromGui ==
  /\ deadLog' = (deadLog \/ (logConnected /\ window = "deleted"))
  /\ UNCHANGED <<logConnected, posted>>

\* mutant: the emitting thread waits until its call has been made
LogFromThreadBlocking ==
  /\ logConnected => ~posted
  /\ posted' = logConnected
  /\ UNCHANGED <<logConnected, deadLog>>

\* Another thread logs: the call is posted to the GUI thread.
LogFromThread ==
  /\ posted' = (posted \/ logConnected)
  /\ UNCHANGED <<logConnected, deadLog>>

\* The event loop makes the posted calls.
appendLogToUi ==
  /\ window = "open" /\ gui.pc = "idle"
  /\ posted
  /\ posted' = FALSE
  /\ UNCHANGED <<vars, window, widgets, logConnected, deadLog>>

-----------------------------------------------------------------------------
(* The slots of the window *)

\* getChannelState_1 .. 3, when the user clicks the check box.
getChannelState(c) ==
  /\ window = "open"
  /\ box' = [box EXCEPT ![c] = 1 - @]
  /\ channelStateChange(c, box'[c])
  /\ LogFromGui
  /\ UNCHANGED <<window, bar, label>>

\* mutant: the sender gets value / 100
getLostrateScaled(c, value) ==
  /\ window = "open"
  /\ value # bar[c]
  /\ bar' = [bar EXCEPT ![c] = value]
  /\ label' = [label EXCEPT ![c] = value]
  /\ setLossRate(c, 10 * value)
  /\ LogFromGui
  /\ UNCHANGED <<window, box>>

\* getLostrate_1 .. 3, when the user moves the scroll bar: value / 10 per cent in the
\* label, value / 1000 to the sender.
getLostrate(c, value) ==
  /\ window = "open"
  /\ value # bar[c]
  /\ bar' = [bar EXCEPT ![c] = value]
  /\ label' = [label EXCEPT ![c] = value]
  /\ setLossRate(c, value)
  /\ LogFromGui
  /\ UNCHANGED <<window, box>>

\* The file dialog; cancelled, it returns the empty name.
Readfile(path) ==
  /\ window = "open"
  /\ SetFileName(path)
  /\ LogFromGui
  /\ UNCHANGED <<window, widgets>>

\* Play_btn.  When StartSending refuses, nothing changes but the status bar.
Play ==
  /\ window = "open"
  /\ StartSending
  /\ IF workerThreads > 0 THEN LogFromGui ELSE UNCHANGED log
  /\ UNCHANGED <<window, widgets>>

-----------------------------------------------------------------------------
(* The end: exec() returns and main destroys the window. *)

Quit ==
  /\ window = "open" /\ gui.pc = "idle"
  /\ window' = "closed"
  /\ UNCHANGED <<vars, widgets, log>>

\* mutant: the log stays connected
DestructorWithoutDisconnect ==
  /\ window = "closed"
  /\ window' = "destroyed"
  /\ UNCHANGED <<vars, widgets, log>>

\* The body of ~Channel_sim.
Destructor ==
  /\ window = "closed"
  /\ window' = "destroyed"
  /\ logConnected' = FALSE
  /\ UNCHANGED <<vars, widgets, posted, deadLog>>

DeleteWidgets ==
  /\ window = "destroyed"
  /\ window' = "deleted"
  /\ UNCHANGED <<vars, widgets, log>>

\* ~Udpserver
DeleteServer ==
  /\ window = "deleted"
  /\ Close
  /\ UNCHANGED winVars

\* ~QObject: calls still posted to the window are discarded.
Release ==
  /\ window = "deleted" /\ gui.pc = "dead"
  /\ window' = "gone"
  /\ posted' = FALSE
  /\ UNCHANGED <<vars, widgets, logConnected, deadLog>>

-----------------------------------------------------------------------------
(* The sender's own steps, with what they log. *)

GuiLogs ==
  \/ gui.pc \in {"clear", "stop", "close"}
  \/ gui.pc = "spawn" /\ gui'.pc # "spawn"
  \/ gui.pc = "stop_q" /\ gui'.pc = "join"
  \/ gui.pc = "join" /\ (gui.i = 1 \/ wpc[gui.i - 2] # "done")

GuiStep ==
  /\ Gui
  /\ IF GuiLogs THEN LogFromGui ELSE UNCHANGED log
  /\ UNCHANGED <<window, widgets>>

ReaderStep ==
  /\ fileReaderTask
  /\ IF reader.pc \in {"path", "open"} \/ reader'.pc = "done" THEN LogFromThread ELSE UNCHANGED log
  /\ UNCHANGED <<window, widgets>>

\* A worker also logs that it starts: its first turn does, and as turns are not told
\* apart any may.
WorkerLogs(c) == wpc[c] = "send" \/ wpc'[c] = "done" \/ (wpc[c] = "loss" /\ wpc'[c] = "top")

WorkerStep(c) ==
  /\ socketWorkerTask(c)
  /\ \/ LogFromThread /\ (WorkerLogs(c) \/ wpc[c] = "top")
     \/ UNCHANGED log /\ ~WorkerLogs(c)
  /\ UNCHANGED <<window, widgets>>

Gone == window = "gone" /\ UNCHANGED simVars

WindowUser ==
  \/ \E c \in Channels : getChannelState(c)
  \/ \E c \in Channels, value \in Bars : getLostrate(c, value)
  \/ \E p \in Paths \union {""} : Readfile(p)
  \/ Play
  \/ Quit

WindowEnd == Destructor \/ DeleteWidgets \/ DeleteServer \/ Release

SimNext ==
  \/ WindowUser \/ WindowEnd \/ appendLogToUi \/ GuiStep \/ ReaderStep
  \/ \E c \in Channels : WorkerStep(c)
  \/ Gone

(***************************************************************************)
(* Fairness.  As for the sender; besides, the event loop makes the posted  *)
(* calls when it runs.                                                     *)
(***************************************************************************)
SimFairness ==
  /\ SF_simVars(appendLogToUi)
  /\ SF_simVars(GuiStep)
  /\ SF_simVars(ReaderStep)
  /\ \A c \in Channels : SF_simVars(WorkerStep(c))

SimSpec     == SimInit /\ [][SimNext]_simVars
FairSimSpec == SimSpec /\ SimFairness

-----------------------------------------------------------------------------

(***************************************************************************)
(* The log never reaches a deleted widget, though the sender is deleted    *)
(* after the text widget and logs while it stops, from all threads.        *)
(***************************************************************************)
NoLogToDeadWindow == ~deadLog

(***************************************************************************)
(* Whenever the user can act, what the window shows is what the sender     *)
(* does: each check box its channel's state, each bar and label its loss   *)
(* rate.                                                                   *)
(***************************************************************************)
WindowShowsServer ==
  window = "open" /\ gui.pc = "idle" =>
    \A c \in Channels :
      /\ box[c] = enabled[c]
      /\ bar[c] = lossRate[c]
      /\ label[c] # NoLabel => label[c] = lossRate[c]

(***************************************************************************)
(* What the threads log is shown while the window is open.  The event loop *)
(* stands still while a start stops the threads of an earlier one; those   *)
(* log on their way out, and must not wait for the loop that waits for     *)
(* them.                                                                   *)
(***************************************************************************)
PostedLogIsShown == posted ~> ~posted \/ window # "open"
=============================================================================
