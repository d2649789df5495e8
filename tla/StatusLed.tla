------------------------------ MODULE StatusLed -----------------------------
(***************************************************************************)
(* The status LEDs of src/app_task.cpp: LedStatusThread shows whether the  *)
(* node is commissioned, PulseGreenOnce blinks the green one after a       *)
(* published sample.  Three threads drive the same three pins: LED, main   *)
(* (one pulse) and Matter (a pulse per sensor work item).  They share the  *)
(* atomic sPulseActive and no lock, and each pin is set by a call of its   *)
(* own, so that every call may be interleaved with the others'.            *)
(*                                                                         *)
(* This is the build with kStatusLedEnabled; in the others no LED thread   *)
(* is created.                                                             *)
(***************************************************************************)
Pulsers == {"main", "matter"}
Colours == {"red", "green", "blue"}

VARIABLES
  led,           \* level of each pin
  sPulseActive,
  commissioned,  \* FabricCount() > 0
  windowOpen,    \* IsCommissioningWindowOpen()
  pulse,         \* where each pulser stands in PulseGreenOnce
  pulsedOnce,    \* the main thread made its pulse
  step,          \* where the LED thread stands
  sawFabric,     \* locals of the LED thread
  sawWindow

network == <<commissioned, windowOpen>>
saw == <<sawFabric, sawWindow>>
pulsing == <<pulse, pulsedOnce>>
vars == <<led, sPulseActive, network, pulsing, step, saw>>

Init ==
  /\ led = [c \in Colours |-> FALSE]
  /\ sPulseActive = FALSE
  /\ commissioned \in BOOLEAN
  /\ windowOpen \in BOOLEAN
  /\ pulse = [t \in Pulsers |-> "idle"]
  /\ pulsedOnce = FALSE
  /\ step = "check"
  /\ sawFabric = FALSE
  /\ sawWindow = FALSE

Set(colour, on) == led' = [led EXCEPT ![colour] = on]

-----------------------------------------------------------------------------
(* PulseGreenOnce; the sleep is the gap before GreenOff.                   *)

StartPulse(t) ==
  /\ pulse[t] = "idle"
  /\ t = "main" => ~pulsedOnce
  /\ pulsedOnce' = (pulsedOnce \/ t = "main")
  /\ sPulseActive' = TRUE
  /\ pulse' = [pulse EXCEPT ![t] = "started"]
  /\ UNCHANGED <<led, network, step, saw>>

GreenOn(t) ==
  /\ pulse[t] = "started"
  /\ Set("green", TRUE)
  /\ pulse' = [pulse EXCEPT ![t] = "shining"]
  /\ UNCHANGED <<sPulseActive, network, pulsedOnce, step, saw>>

\* Mutant: the pulse leaves the LED on.
GreenOffForgotten(t) ==
  /\ pulse[t] = "shining"
  /\ pulse' = [pulse EXCEPT ![t] = "dark"]
  /\ UNCHANGED <<led, sPulseActive, network, pulsedOnce, step, saw>>

GreenOff(t) ==
  /\ pulse[t] = "shining"
  /\ Set("green", FALSE)
  /\ pulse' = [pulse EXCEPT ![t] = "dark"]
  /\ UNCHANGED <<sPulseActive, network, pulsedOnce, step, saw>>

\* Mutant: the flag is not cleared.
EndPulseActive(t) ==
  /\ pulse[t] = "dark"
  /\ pulse' = [pulse EXCEPT ![t] = "idle"]
  /\ UNCHANGED <<led, sPulseActive, network, pulsedOnce, step, saw>>

EndPulse(t) ==
  /\ pulse[t] = "dark"
  /\ sPulseActive' = FALSE
  /\ pulse' = [pulse EXCEPT ![t] = "idle"]
  /\ UNCHANGED <<led, network, pulsedOnce, step, saw>>

-----------------------------------------------------------------------------
(* LedStatusThread.  From "check" it either sleeps on, which leaves it     *)
(* there, or reads the two conditions one after the other and sets the     *)
(* three pins one after the other.                                         *)

FindsNoPulse ==
  /\ step = "check"
  /\ ~sPulseActive
  /\ sawFabric' = commissioned
  /\ step' = "window"
  /\ UNCHANGED <<led, sPulseActive, network, pulsing, sawWindow>>

ReadWindow ==
  /\ step = "window"
  /\ sawWindow' = windowOpen
  /\ step' = "red"
  /\ UNCHANGED <<led, sPulseActive, network, pulsing, sawFabric>>

WantRed == ~sawWindow /\ ~sawFabric
WantBlue == sawWindow

\* Mutant: red for every node without a window.
SetRedUnlessWindow ==
  /\ step = "red"
  /\ Set("red", ~sawWindow)
  /\ step' = "green"
  /\ UNCHANGED <<sPulseActive, network, pulsing, saw>>

SetRed ==
  /\ step = "red"
  /\ Set("red", WantRed)
  /\ step' = "green"
  /\ UNCHANGED <<sPulseActive, network, pulsing, saw>>

\* kEnableHeartbeat is false: green is off in every state of the node.
SetGreen ==
  /\ step = "green"
  /\ Set("green", FALSE)
  /\ step' = "blue"
  /\ UNCHANGED <<sPulseActive, network, pulsing, saw>>

SetBlue ==
  /\ step = "blue"
  /\ Set("blue", WantBlue)
  /\ step' = "check"
  /\ UNCHANGED <<sPulseActive, network, pulsing, saw>>

LedStatusThread == FindsNoPulse \/ ReadWindow \/ SetRed \/ SetGreen \/ SetBlue

\* The Matter thread opens and closes windows and adds and removes fabrics,
\* between its work items.
NetworkChanges ==
  /\ pulse["matter"] = "idle"
  /\ commissioned' \in BOOLEAN
  /\ windowOpen' \in BOOLEAN
  /\ network' # network
  /\ UNCHANGED <<led, sPulseActive, pulsing, step, saw>>

PulseStep(t) == GreenOn(t) \/ GreenOff(t) \/ EndPulse(t)

Next ==
  \/ \E t \in Pulsers : StartPulse(t) \/ PulseStep(t)
  \/ LedStatusThread
  \/ NetworkChanges

Spec == Init /\ [][Next]_vars

\* Every sleep ends, so threads go on.  The LED thread polls the flag every
\* 50 ms while a pulse of 200 ms comes every 60 s: of the polls it makes,
\* infinitely many find no pulse.
Fairness ==
  /\ \A t \in Pulsers : WF_vars(PulseStep(t))
  /\ WF_vars(ReadWindow \/ SetRed \/ SetGreen \/ SetBlue)
  /\ SF_vars(FindsNoPulse)

FairSpec == Spec /\ Fairness

-----------------------------------------------------------------------------
Shining == \E t \in Pulsers : pulse[t] = "shining"

\* No interleaving of the threads leaves a colour behind: green is on during a
\* pulse only, and while the LED thread sleeps, red and blue are never on
\* together and show what it last saw, pulses or not.
NoColourLeftBehind ==
  /\ led["green"] => Shining
  /\ step = "check" => /\ ~(led["red"] /\ led["blue"])
                       /\ led["blue"] => sawWindow
                       /\ led["red"] => ~sawFabric

\* A window that stays open is shown, blue on and red off, also while fabrics
\* come and go.
WindowShown == <>[]windowOpen => <>[](led["blue"] /\ ~led["red"])

\* Whatever a node settles in is shown, however often it pulses: blue for a
\* window, whatever happens to the fabrics, else red without a fabric, else
\* nothing.
StatusShown ==
  /\ WindowShown
  /\ \A w, c \in BOOLEAN :
       <>[](windowOpen = w /\ commissioned = c)
         => <>[](led["blue"] = w /\ led["red"] = (~w /\ ~c))

=============================================================================
