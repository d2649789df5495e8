--------------------------- MODULE StatusLedProofs --------------------------
(***************************************************************************)
(* Proof that no interleaving of the three threads leaves a colour behind. *)
(*                                                                         *)
(* Green is on only if the last pulser to touch it switched it on, and     *)
(* each switches it off before it leaves; only one call of one pulser      *)
(* makes it shine, and any other pulser or the LED thread may switch it    *)
(* off early.  Red and blue belong to the LED thread alone: between its    *)
(* calls they show, each from its own call on, what the thread saw last.   *)
(***************************************************************************)
EXTENDS StatusLed, TLAPS

LedTypeOK ==
  /\ led \in [Colours -> BOOLEAN]
  /\ pulse \in [Pulsers -> {"idle", "started", "shining", "dark"}]
  /\ step \in {"check", "window", "red", "green", "blue"}
  /\ commissioned \in BOOLEAN /\ windowOpen \in BOOLEAN
  /\ sawFabric \in BOOLEAN
  /\ sawWindow \in BOOLEAN

\* Once the LED thread has set a pin, the pin shows what the thread saw.
RedShows == step \in {"green", "blue", "check"} /\ led["red"] => WantRed
BlueShows == step = "check" /\ led["blue"] => sawWindow

LedInv ==
  /\ LedTypeOK
  /\ led["green"] => Shining
  /\ RedShows
  /\ BlueShows


-----------------------------------------------------------------------------
\* A call sets one pin and leaves the others.
LEMMA SetEffect ==
  ASSUME led \in [Colours -> BOOLEAN], NEW colour \in Colours, NEW on \in BOOLEAN,
         Set(colour, on)
  PROVE  /\ led' \in [Colours -> BOOLEAN]
         /\ led'[colour] = on
         /\ \A c \in Colours : c # colour => led'[c] = led[c]
  BY DEF Set

\* No pin is on and no thread is under way when the node starts.
LEMMA InitLedInv == Init => LedInv
  BY DEF Init, LedInv, LedTypeOK, RedShows, BlueShows, WantRed, Colours, Pulsers

\* No call of a pulser touches red or blue, and green is on only while one
\* of them shines.
LEMMA PulseKeeps ==
  ASSUME LedInv, NEW t \in Pulsers, StartPulse(t) \/ PulseStep(t)
  PROVE  LedInv'
<1> USE DEF LedInv, Shining
<1>1. CASE StartPulse(t)
  BY <1>1 DEF StartPulse, LedTypeOK, RedShows, BlueShows, WantRed, saw, network
<1>2. CASE GreenOn(t)
  <2>1. /\ led' \in [Colours -> BOOLEAN] /\ led'["red"] = led["red"]
        /\ led'["blue"] = led["blue"]
    BY <1>2, SetEffect DEF GreenOn, LedTypeOK, Colours
  <2>2. LedTypeOK' /\ pulse'[t] = "shining"
    BY <1>2, <2>1 DEF GreenOn, LedTypeOK, saw, network
  <2> QED BY <1>2, <2>1, <2>2 DEF GreenOn, RedShows, BlueShows, WantRed, saw, network
<1>3. CASE GreenOff(t)
  <2>1. /\ led' \in [Colours -> BOOLEAN] /\ led'["red"] = led["red"]
        /\ led'["blue"] = led["blue"] /\ ~led'["green"]
    BY <1>3, SetEffect DEF GreenOff, LedTypeOK, Colours
  <2>2. LedTypeOK'
    BY <1>3, <2>1 DEF GreenOff, LedTypeOK, saw, network
  <2> QED BY <1>3, <2>1, <2>2 DEF GreenOff, RedShows, BlueShows, WantRed, saw, network
<1>4. CASE EndPulse(t)
  BY <1>4 DEF EndPulse, LedTypeOK, RedShows, BlueShows, WantRed, saw, network
<1> QED BY <1>1, <1>2, <1>3, <1>4 DEF PulseStep

\* Each call of the LED thread makes its pin show what the thread saw, and
\* what it saw changes only before the first of them.
LEMMA LedThreadKeeps ==
  ASSUME LedInv, LedStatusThread
  PROVE  LedInv'
<1> USE DEF LedInv, Shining
<1>1. CASE FindsNoPulse
  BY <1>1 DEF FindsNoPulse, LedTypeOK, RedShows, BlueShows, pulsing, network
<1>2. CASE ReadWindow
  BY <1>2 DEF ReadWindow, LedTypeOK, RedShows, BlueShows, pulsing, network
<1>3. CASE SetRed
  <2>1. /\ led' \in [Colours -> BOOLEAN] /\ led'["red"] = WantRed
        /\ led'["green"] = led["green"]
    BY <1>3, SetEffect DEF SetRed, LedTypeOK, Colours, WantRed
  <2>2. LedTypeOK'
    BY <1>3, <2>1 DEF SetRed, LedTypeOK, saw, pulsing, network
  <2> QED BY <1>3, <2>1, <2>2 DEF SetRed, RedShows, BlueShows, WantRed, saw, pulsing
<1>4. CASE SetGreen
  <2>1. /\ led' \in [Colours -> BOOLEAN] /\ led'["red"] = led["red"] /\ ~led'["green"]
    BY <1>4, SetEffect DEF SetGreen, LedTypeOK, Colours
  <2>2. LedTypeOK'
    BY <1>4, <2>1 DEF SetGreen, LedTypeOK, saw, pulsing, network
  <2> QED BY <1>4, <2>1, <2>2 DEF SetGreen, RedShows, BlueShows, WantRed, saw, pulsing
<1>5. CASE SetBlue
  <2>1. /\ led' \in [Colours -> BOOLEAN] /\ led'["blue"] = sawWindow
        /\ led'["red"] = led["red"] /\ led'["green"] = led["green"]
    BY <1>5, SetEffect DEF SetBlue, LedTypeOK, Colours, WantBlue
  <2>2. LedTypeOK'
    BY <1>5, <2>1 DEF SetBlue, LedTypeOK, saw, pulsing, network
  <2> QED BY <1>5, <2>1, <2>2 DEF SetBlue, RedShows, BlueShows, WantRed, saw, pulsing
<1> QED BY <1>1, <1>2, <1>3, <1>4, <1>5 DEF LedStatusThread

\* The invariant of every behaviour of the three threads.
THEOREM LedInvHolds == Spec => []LedInv
<1>1. LedInv /\ [Next]_vars => LedInv'
  <2> SUFFICES ASSUME LedInv, [Next]_vars PROVE LedInv'
    OBVIOUS
  <2>1. CASE \E t \in Pulsers : StartPulse(t) \/ PulseStep(t)
    BY <2>1, PulseKeeps
  <2>2. CASE LedStatusThread
    BY <2>2, LedThreadKeeps
  <2>3. CASE NetworkChanges \/ UNCHANGED vars
    <3>1. /\ UNCHANGED <<led, pulse, step, saw>>
          /\ commissioned' \in BOOLEAN /\ windowOpen' \in BOOLEAN
      BY <2>3 DEF NetworkChanges, vars, pulsing, network, LedInv, LedTypeOK
    <3> QED BY <3>1 DEF LedInv, LedTypeOK, RedShows, BlueShows, WantRed, Shining, saw
  <2> QED BY <2>1, <2>2, <2>3 DEF Next
<1> QED BY <1>1, InitLedInv, PTL DEF Spec

\* No interleaving of pulses, network changes and the LED thread's calls
\* leaves green on after the pulses, or red and blue on together.
THEOREM NoColourStays == Spec => []NoColourLeftBehind
<1>1. LedInv => NoColourLeftBehind
  BY DEF LedInv, RedShows, BlueShows, WantRed, NoColourLeftBehind
<1> QED BY <1>1, LedInvHolds, PTL

=============================================================================
