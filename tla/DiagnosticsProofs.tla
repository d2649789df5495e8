-------------------------- MODULE DiagnosticsProofs -------------------------
(***************************************************************************)
(* What TLAPS proves of the diagnostics a node keeps in flash.             *)
(*                                                                         *)
(* DiagCounters: for every set of event counters and every bound,          *)
(* whichever of saves and loads may fail.                                  *)
(*                                                                         *)
(* HealthSnapshot: for every interval, poll period and delay, provided     *)
(* that two calls fit in an interval.  Two threads test and set the stamp  *)
(* without a lock.  The argument rests on the main thread, which calls     *)
(* once per boot: until its call has stamped (MainOwes), any stamp is the  *)
(* Matter thread's, and afterwards it may have set the stamp back, by no   *)
(* more than the length of a call, once.  So the Matter thread's snapshots *)
(* keep an interval between them (Spaced), every one of its polls finds or *)
(* leaves a recent stamp (Polled), and what is in flash follows the stamp  *)
(* (Recent) and belongs together (Coherent).                               *)
(***************************************************************************)
EXTENDS DiagCounters, HealthSnapshot, TLAPS

-----------------------------------------------------------------------------
(* The counters.                                                           *)

\* A save changes the one key it names, or nothing.
LEMMA SaveEffect ==
  ASSUME settings \in [Counters -> Nat], NEW c \in Counters, NEW n \in Nat,
         SaveDiagValue(c, n)
  PROVE  /\ settings' \in [Counters -> Nat]
         /\ \A d \in Counters : d # c => settings'[d] = settings[d]
         /\ settings'[c] = n \/ (c \in SaveMayFail /\ settings'[c] = settings[c])
BY DEF SaveDiagValue

\* A step of an erase leaves each key of flash alone or takes it back to an
\* older record or none, and notes that it did.
LEMMA EraseEffect ==
  ASSUME TypeOK, WipeSettings
  PROVE  /\ UNCHANGED <<phase, mDiag, saving, resetreas, reason, happened,
                        upResets, cutBoots, cause, causes>>
         /\ wiping' \in {"no", "erasing", "erased"}
         /\ settings' \in [Counters -> Nat] /\ wiped' \in [Counters -> Nat]
         /\ \A c \in Counters :
              \/ settings'[c] = settings[c] /\ wiped'[c] = wiped[c]
              \/ settings'[c] \in OlderRecords(c) \cup {0} /\ wiped'[c] = happened[c]
         /\ \/ UNCHANGED <<lastReset, reasonWiped>>
            \/ lastReset' \in SUBSET Reasons /\ reasonWiped' = TRUE
<1> USE DEF TypeOK
<1>1. CASE BeginErase \/ EraseFails
  BY <1>1 DEF BeginErase, EraseFails, flash, history
<1>2. ASSUME NEW d \in Counters, EraseCounter(d)
      PROVE  /\ UNCHANGED <<phase, mDiag, saving, resetreas, reason, happened, wiping,
                            upResets, cutBoots, cause, causes, lastReset, reasonWiped>>
             /\ settings' \in [Counters -> Nat] /\ wiped' \in [Counters -> Nat]
             /\ \A c \in Counters :
                  \/ settings'[c] = settings[c] /\ wiped'[c] = wiped[c]
                  \/ settings'[c] \in OlderRecords(c) /\ wiped'[c] = happened[c]
  <2>1. OlderRecords(d) \subseteq Nat
    BY DEF OlderRecords
  <2>2. PICK n \in OlderRecords(d) : settings' = [settings EXCEPT ![d] = n]
    BY <1>2 DEF EraseCounter
  <2>3. wiped' = [wiped EXCEPT ![d] = happened[d]]
    BY <1>2 DEF EraseCounter
  <2>4. UNCHANGED <<phase, mDiag, saving, resetreas, reason, happened, wiping,
                    upResets, cutBoots, cause, causes, lastReset, reasonWiped>>
    BY <1>2 DEF EraseCounter
  <2> QED
    BY <2>1, <2>2, <2>3, <2>4
<1>3. CASE EraseReason
  BY <1>3 DEF EraseReason
<1>4. CASE EraseSettings
  BY <1>4 DEF EraseSettings, Zero
<1> QED
  BY <1>1, <1>2, <1>3, <1>4 DEF WipeSettings

(* The initial state is well typed.                                       *)
LEMMA InitType == Init => TypeOK
<1> SUFFICES ASSUME Init PROVE TypeOK
  OBVIOUS
<1>1. Zero \in [Counters -> Nat] /\ happened \in [Counters -> Nat]
  BY DEF Init, Zero
<1>2. /\ cause \in Reasons \cup {"POWER"}
      /\ resetreas \in SUBSET Reasons /\ causes \in SUBSET Reasons
  BY DEF Init, Reasons
<1> QED
  BY <1>1, <1>2 DEF Init, TypeOK, Phases

(* Resets of any kind keep the types.                                     *)
LEMMA ResetType ==
  ASSUME TypeOK, NEW kind \in Reasons \cup {"POWER"}, Reset(kind)
  PROVE  TypeOK'
<1>1. /\ happened' \in [Counters -> Nat]
      /\ mDiag' \in [Counters -> Nat]
  BY DEF Reset, TypeOK, Zero, Counters
<1>2. upResets' \in Nat /\ cutBoots' \in Nat
  BY DEF Reset, TypeOK
<1>3. resetreas' \in SUBSET Reasons /\ causes' \in SUBSET Reasons
  BY DEF Reset, TypeOK
<1> QED
  BY <1>1, <1>2, <1>3 DEF Reset, TypeOK, Phases, flash

(* Every step keeps the types.                                            *)
LEMMA StepType ==
  ASSUME TypeOK, [Next]_vars
  PROVE  TypeOK'
<1> USE DEF TypeOK
<1>1. CASE ParkInInit
  BY <1>1 DEF ParkInInit, Phases, flash, history
<1>2. CASE LoadDiag
  BY <1>2 DEF LoadDiag, Phases, flash, history
<1>3. CASE ReadAndClearReason
  BY <1>3 DEF ReadAndClearReason, Phases, flash, history
<1>4. CASE SaveBootCount
  <2>1. "boot" \in Counters /\ mDiag["boot"] + 1 \in Nat
    BY DEF Counters
  <2>2. settings' \in [Counters -> Nat]
    BY <1>4, <2>1, SaveEffect DEF SaveBootCount
  <2> QED
    BY <1>4, <2>1, <2>2 DEF SaveBootCount, Phases, history
<1>5. CASE SaveResetReason
  BY <1>5 DEF SaveResetReason, Phases, history
<1>6. CASE SaveWdtResetCount
  <2>1. "wdt_reset" \in Counters /\ mDiag["wdt_reset"] + 1 \in Nat
    BY DEF Counters
  <2>2. settings' \in [Counters -> Nat] /\ mDiag' \in [Counters -> Nat]
    BY <1>6, <2>1, SaveEffect DEF SaveWdtResetCount
  <2> QED
    BY <1>6, <2>2 DEF SaveWdtResetCount, Phases, history
<1>7. ASSUME NEW c \in EventCounters, CountEvent(c) PROVE TypeOK'
  BY <1>7 DEF CountEvent, flash, Counters
<1>8. ASSUME NEW c \in EventCounters, SaveEvent(c) PROVE TypeOK'
  <2>1. c \in Counters /\ mDiag[c] \in Nat
    BY DEF Counters
  <2>2. settings' \in [Counters -> Nat]
    BY <1>8, <2>1, SaveEffect DEF SaveEvent
  <2> QED
    BY <1>8, <2>2 DEF SaveEvent, history
<1>9. CASE \E kind \in Reasons \cup {"POWER"} : Reset(kind)
  BY <1>9, ResetType
<1>10. CASE WipeSettings
  BY <1>10, EraseEffect
<1>11. CASE UNCHANGED vars
  BY <1>11 DEF vars, flash, history
<1> QED
  BY <1>1, <1>2, <1>3, <1>4, <1>5, <1>6, <1>7, <1>8, <1>9, <1>10, <1>11
    DEF Next, DiagOnBoot, PowerCycle, PinReset, WatchdogReset, SoftReset, Reasons

(* Type correctness, for every value of the constants. *)
THEOREM TypeCorrect == Spec => []TypeOK
<1>1. TypeOK /\ [Next]_vars => TypeOK'
  BY StepType
<1> QED
  BY <1>1, InitType, PTL DEF Spec

-----------------------------------------------------------------------------
(* At most once.  Flash alone is not inductive: RAM must not run ahead of  *)
(* what happened either, and a boot or a watchdog reset that will still be *)
(* counted (owed) must be covered by what happened already.                *)

Owed(c) == IF c \notin EventCounters /\ OnItsWay(c) THEN 1 ELSE 0

CountsCovered ==
  \A c \in Counters :
    settings[c] + Owed(c) <= happened[c] /\ mDiag[c] + Owed(c) <= happened[c]

\* Where the bits of RESETREAS are in each phase of the boot.
ReasonFlow ==
  /\ phase \in {"off", "parked", "loaded"} => reason = {}
  /\ phase \notin {"off", "parked", "loaded"} => resetreas = {}
  /\ phase # "up" => saving = {}

CountInv == TypeOK /\ ReasonFlow /\ CountsCovered

(* The counting invariant holds at first power-on.                        *)
LEMMA InitCount == Init => CountInv
<1> SUFFICES ASSUME Init PROVE CountInv
  OBVIOUS
<1>1. TypeOK
  BY InitType
<1>2. ReasonFlow
  BY DEF Init, ReasonFlow
<1>3. ASSUME NEW c \in Counters
      PROVE  settings[c] + Owed(c) <= happened[c] /\ mDiag[c] + Owed(c) <= happened[c]
  <2>1. settings[c] = 0 /\ mDiag[c] = 0
    BY DEF Init, Zero
  <2>2. happened[c] = IF c = "boot" THEN 1 ELSE 0
    BY DEF Init, Zero
  <2>3. c # "boot" => ~OnItsWay(c)
    BY DEF Init, OnItsWay, Reasons
  <2>4. Owed(c) = IF c = "boot" /\ c \notin EventCounters /\ OnItsWay(c) THEN 1 ELSE 0
    BY <2>3 DEF Owed
  <2> QED
    BY <2>1, <2>2, <2>4
<1> QED
  BY <1>1, <1>2, <1>3 DEF CountInv, CountsCovered

(* Every step keeps a reset reason where DiagOnBoot expects it.           *)
LEMMA StepFlow ==
  ASSUME TypeOK, ReasonFlow, [Next]_vars
  PROVE  ReasonFlow'
<1>1. CASE WipeSettings
  BY <1>1, EraseEffect DEF ReasonFlow
<1>2. CASE ~WipeSettings
  BY <1>2 DEF ReasonFlow, TypeOK, Next, ParkInInit, DiagOnBoot, LoadDiag, ReadAndClearReason,
    SaveBootCount, SaveResetReason, SaveWdtResetCount, CountEvent, SaveEvent,
    PowerCycle, PinReset, WatchdogReset, SoftReset, Reset, vars, flash, history
<1> QED
  BY <1>1, <1>2

(* A reset covers the counts in its history.                              *)
LEMMA ResetCovered ==
  ASSUME CountInv, NEW kind \in Reasons \cup {"POWER"}, Reset(kind),
         kind = "DOG" => phase = "up"
  PROVE  CountsCovered'
<1> USE DEF CountInv, TypeOK
<1> SUFFICES ASSUME NEW c \in Counters
             PROVE  /\ settings'[c] + Owed(c)' <= happened'[c]
                    /\ mDiag'[c] + Owed(c)' <= happened'[c]
  BY DEF CountsCovered
<1>1. settings[c] + Owed(c) <= happened[c]
  BY DEF CountsCovered
<1>2. settings'[c] = settings[c] /\ mDiag'[c] = 0
  BY DEF Reset, Zero, flash
<1>3. happened'[c] = happened[c] + (IF c = "boot" \/ (c = "wdt_reset" /\ kind = "DOG")
                                   THEN 1 ELSE 0)
  BY DEF Reset, Counters
<1>4. Owed(c) \in {0, 1} /\ Owed(c)' \in {0, 1}
  BY DEF Owed
<1>5. CASE c = "boot" \/ (c = "wdt_reset" /\ kind = "DOG")
  BY <1>1, <1>2, <1>3, <1>4, <1>5
<1>6. CASE c = "wdt_reset" /\ kind # "DOG"
  <2>1. OnItsWay(c)' => OnItsWay(c)
    BY <1>6 DEF Reset, OnItsWay, ReasonFlow
  <2>2. Owed(c)' <= Owed(c)
    BY <2>1 DEF Owed
  <2> QED
    BY <1>1, <1>2, <1>3, <1>4, <1>6, <2>2
<1>7. CASE c \in EventCounters
  BY <1>1, <1>2, <1>3, <1>7, DiagAssumption DEF Owed
<1> QED
  BY <1>5, <1>6, <1>7 DEF Counters

\* A step that moves no count and puts nothing more on its way.
LEMMA CoveredUnchanged ==
  ASSUME CountInv, \A c \in Counters : c \notin EventCounters /\ OnItsWay(c)' => OnItsWay(c),
         UNCHANGED happened, settings' = settings,
         \A c \in Counters : mDiag'[c] = mDiag[c] \/ mDiag'[c] = 0
                              \/ mDiag'[c] = settings[c]
  PROVE  CountsCovered'
<1> USE DEF CountInv, TypeOK
<1> SUFFICES ASSUME NEW c \in Counters
             PROVE  /\ settings'[c] + Owed(c)' <= happened'[c]
                    /\ mDiag'[c] + Owed(c)' <= happened'[c]
  BY DEF CountsCovered
<1>1. settings[c] + Owed(c) <= happened[c] /\ mDiag[c] + Owed(c) <= happened[c]
  BY DEF CountsCovered
<1>2. Owed(c) \in {0, 1} /\ Owed(c)' \in {0, 1} /\ Owed(c)' <= Owed(c)
  BY DEF Owed
<1> QED
  BY <1>1, <1>2

(* Every step keeps the counting invariant.                               *)
LEMMA StepCount ==
  ASSUME CountInv, [Next]_vars
  PROVE  CountInv'
<1> USE DEF CountInv
<1>0. TypeOK' /\ ReasonFlow'
  BY StepType, StepFlow
<1>1. CASE ParkInInit \/ SaveResetReason \/ UNCHANGED vars
  <2>1. /\ UNCHANGED <<happened, settings, mDiag>>
        /\ \A c \in Counters : c \notin EventCounters /\ OnItsWay(c)' => OnItsWay(c)
    BY <1>1 DEF ParkInInit, SaveResetReason, vars, flash, history, OnItsWay
  <2> QED
    BY <1>0, <2>1, CoveredUnchanged
<1>2. CASE LoadDiag
  <2>1. /\ UNCHANGED <<happened, settings>>
        /\ \A c \in Counters : mDiag'[c] = 0 \/ mDiag'[c] = settings[c]
        /\ \A c \in Counters : c \notin EventCounters /\ OnItsWay(c)' => OnItsWay(c)
    BY <1>2 DEF LoadDiag, flash, history, OnItsWay
  <2> QED
    BY <1>0, <2>1, CoveredUnchanged
<1>3. CASE ReadAndClearReason
  <2>1. /\ UNCHANGED <<happened, settings, mDiag>>
        /\ \A c \in Counters : c \notin EventCounters /\ OnItsWay(c)' => OnItsWay(c)
    BY <1>3 DEF ReadAndClearReason, flash, history, OnItsWay
  <2> QED
    BY <1>0, <2>1, CoveredUnchanged
<1>4. CASE SaveBootCount
  <2> DEFINE b == "boot"
  <2>1. b \in Counters /\ b \notin EventCounters /\ mDiag[b] + 1 \in Nat
    BY DiagAssumption DEF Counters, TypeOK
  <2>2. mDiag[b] + 1 <= happened[b] /\ settings[b] + 1 <= happened[b]
    BY <1>4, <2>1 DEF CountsCovered, Owed, OnItsWay, SaveBootCount
  <2>3. \A c \in Counters : c # b => Owed(c)' = Owed(c)
    BY <1>4 DEF SaveBootCount, Owed, OnItsWay
  <2>4. Owed(b)' = 0
    BY <1>4, <1>0 DEF SaveBootCount, Owed, OnItsWay, ReasonFlow
  <2>5. /\ settings'[b] = mDiag[b] + 1 \/ settings'[b] = settings[b]
        /\ mDiag'[b] = mDiag[b] + 1
        /\ UNCHANGED happened
        /\ \A c \in Counters : c # b => settings'[c] = settings[c] /\ mDiag'[c] = mDiag[c]
    BY <1>4, <2>1, SaveEffect DEF SaveBootCount, TypeOK, history
  <2> HIDE DEF b
  <2>6. CountsCovered'
    BY <1>0, <2>1, <2>2, <2>3, <2>4, <2>5 DEF CountsCovered, TypeOK
  <2> QED
    BY <1>0, <2>6
<1>5. CASE SaveWdtResetCount
  <2> DEFINE w == "wdt_reset"
  <2>1. w \in Counters /\ w \notin EventCounters /\ mDiag[w] + 1 \in Nat
    BY DiagAssumption DEF Counters, TypeOK
  <2>2. \A c \in Counters : c # w => Owed(c)' = Owed(c)
    BY <1>5 DEF SaveWdtResetCount, Owed, OnItsWay
  <2>3. Owed(w)' = 0
    BY <1>5, <1>0 DEF SaveWdtResetCount, Owed, OnItsWay, ReasonFlow
  <2>4. /\ UNCHANGED happened
        /\ \A c \in Counters : c # w => settings'[c] = settings[c] /\ mDiag'[c] = mDiag[c]
    BY <1>5, <2>1, SaveEffect DEF SaveWdtResetCount, TypeOK, history
  <2>5. settings'[w] <= happened[w] /\ mDiag'[w] <= happened[w]
    <3>1. CASE "DOG" \in reason
      <4>1. Owed(w) = 1
        BY <1>5, <2>1, <3>1 DEF SaveWdtResetCount, Owed, OnItsWay
      <4>2. mDiag[w] + 1 <= happened[w] /\ settings[w] + 1 <= happened[w]
        BY <2>1, <4>1 DEF CountsCovered
      <4>3. /\ settings'[w] = mDiag[w] + 1 \/ settings'[w] = settings[w]
            /\ mDiag'[w] = mDiag[w] + 1
        BY <1>5, <2>1, <3>1, SaveEffect DEF SaveWdtResetCount, TypeOK
      <4> QED
        BY <2>1, <4>2, <4>3 DEF TypeOK
    <3>2. CASE "DOG" \notin reason
      <4>1. settings'[w] = settings[w] /\ mDiag'[w] = mDiag[w]
        BY <1>5, <3>2 DEF SaveWdtResetCount
      <4>2. Owed(w) \in {0, 1}
        BY DEF Owed
      <4> QED
        BY <2>1, <4>1, <4>2 DEF CountsCovered, TypeOK
    <3> QED
      BY <3>1, <3>2
  <2> HIDE DEF w
  <2>6. CountsCovered'
    BY <1>0, <2>1, <2>2, <2>3, <2>4, <2>5 DEF CountsCovered, TypeOK
  <2> QED
    BY <1>0, <2>6
<1>6. ASSUME NEW e \in EventCounters, CountEvent(e) PROVE CountInv'
  <2>1. \A c \in Counters : Owed(c)' = Owed(c)
    BY <1>6 DEF CountEvent, Owed, OnItsWay
  <2>2. \A c \in Counters : /\ settings'[c] = settings[c]
                            /\ mDiag'[c] = mDiag[c] + (IF c = e THEN 1 ELSE 0)
                            /\ happened'[c] = happened[c] + (IF c = e THEN 1 ELSE 0)
    BY <1>6 DEF CountEvent, flash, TypeOK
  <2>3. \A c \in Counters : Owed(c) \in {0, 1}
    BY DEF Owed
  <2>4. CountsCovered'
    BY <1>0, <2>1, <2>2, <2>3 DEF CountsCovered, TypeOK
  <2> QED
    BY <1>0, <2>4
<1>7. ASSUME NEW e \in EventCounters, SaveEvent(e) PROVE CountInv'
  <2>1. \A c \in Counters : Owed(c)' = Owed(c) /\ Owed(c) \in {0, 1}
    BY <1>7 DEF SaveEvent, Owed, OnItsWay
  <2>2. e \in Counters /\ mDiag[e] \in Nat
    BY DEF Counters, TypeOK
  <2>3. \A c \in Counters : settings'[c] = settings[c] \/ settings'[c] = mDiag[c]
    BY <1>7, <2>2, SaveEffect DEF SaveEvent, TypeOK
  <2>4. UNCHANGED <<mDiag, happened>>
    BY <1>7 DEF SaveEvent, history
  <2>5. CountsCovered'
    BY <1>0, <2>1, <2>3, <2>4 DEF CountsCovered, TypeOK
  <2> QED
    BY <1>0, <2>5
<1>8. CASE PowerCycle \/ PinReset \/ WatchdogReset \/ SoftReset
  BY <1>0, <1>8, ResetCovered DEF PowerCycle, PinReset, WatchdogReset, SoftReset, Reasons
<1>9. CASE WipeSettings
  <2>1. /\ UNCHANGED <<mDiag, happened>>
        /\ \A c \in Counters : settings'[c] \in OlderRecords(c) \cup {0, settings[c]}
    BY <1>9, EraseEffect
  <2>2. \A c \in Counters : Owed(c)' = Owed(c) /\ Owed(c) \in {0, 1}
    BY <1>9, EraseEffect DEF Owed, OnItsWay
  <2>3. ASSUME NEW c \in Counters
        PROVE  settings'[c] + Owed(c) <= happened[c] /\ mDiag[c] + Owed(c) <= happened[c]
    <3>1. settings[c] + Owed(c) <= happened[c] /\ mDiag[c] + Owed(c) <= happened[c]
      BY DEF CountsCovered
    <3>2. /\ settings[c] \in Nat /\ mDiag[c] \in Nat /\ happened[c] \in Nat
          /\ Owed(c) \in {0, 1}
      BY <2>2 DEF TypeOK
    <3>3. OnItsWay(c) \/ Owed(c) = 0
      BY DEF Owed
    <3>4. CASE settings'[c] \in OlderRecords(c) /\ c \in LoadMayFail
      BY <3>1, <3>2, <3>3, <3>4 DEF OlderRecords
    <3>5. CASE settings'[c] \in OlderRecords(c) /\ c \notin LoadMayFail
      BY <3>1, <3>2, <3>5 DEF OlderRecords
    <3>6. CASE settings'[c] \in {0, settings[c]}
      BY <3>1, <3>2, <3>6
    <3> QED
      BY <2>1, <3>4, <3>5, <3>6
  <2>4. CountsCovered'
    BY <2>1, <2>2, <2>3 DEF CountsCovered
  <2> QED
    BY <1>0, <2>4
<1> QED
  BY <1>1, <1>2, <1>3, <1>4, <1>5, <1>6, <1>7, <1>8, <1>9 DEF Next, DiagOnBoot

(* No persisted count ever exceeds what happened, for every set of event   *)
(* counters and bounds, whatever fails.                                    *)
THEOREM AtMostOnce == Spec => []NeverOvercounts
<1>1. CountInv /\ [Next]_vars => CountInv'
  BY StepCount
<1>2. CountInv => NeverOvercounts
  <2> SUFFICES ASSUME CountInv, NEW c \in Counters PROVE settings[c] <= happened[c]
    BY DEF NeverOvercounts
  <2>1. Owed(c) \in {0, 1}
    BY DEF Owed
  <2> QED
    BY <2>1 DEF CountInv, CountsCovered, TypeOK
<1> QED
  BY <1>1, <1>2, InitCount, PTL DEF Spec

-----------------------------------------------------------------------------
(* Of a counter whose loads work, flash is never ahead of the RAM copy     *)
(* that overwrites it, and those counters implement the durable tally      *)
(* even if saves fail and whatever is wiped.                               *)

FlashBehindRam ==
  phase \notin {"off", "parked"} => \A c \in Loadable : settings[c] <= mDiag[c]

(* With loads that work, flash never runs ahead of RAM.                   *)
LEMMA StepBehind ==
  ASSUME TypeOK, FlashBehindRam, [Next]_vars
  PROVE  FlashBehindRam'
<1> USE DEF TypeOK, Loadable
<1>0. TypeOK'
  BY StepType
<1>1. CASE ParkInInit \/ SaveResetReason \/ ReadAndClearReason \/ UNCHANGED vars
  BY <1>1 DEF ParkInInit, SaveResetReason, ReadAndClearReason, vars, flash, history,
    FlashBehindRam
<1>2. CASE LoadDiag
  <2>1. \A c \in Loadable : mDiag'[c] = settings[c] /\ settings'[c] = settings[c]
    BY <1>2 DEF LoadDiag, flash
  <2> QED
    BY <2>1 DEF FlashBehindRam
<1>3. CASE SaveBootCount
  <2>1. "boot" \in Counters /\ mDiag["boot"] + 1 \in Nat
    BY DEF Counters
  <2>2. \A c \in Counters : mDiag[c] <= mDiag'[c]
                           /\ (settings'[c] = mDiag'[c] \/ settings'[c] = settings[c])
    <3>1. ASSUME NEW c \in Counters, c # "boot"
          PROVE  mDiag'[c] = mDiag[c] /\ settings'[c] = settings[c]
      BY <1>3, <2>1, <3>1, SaveEffect DEF SaveBootCount
    <3>2. \/ mDiag'["boot"] = mDiag["boot"] + 1
             /\ settings'["boot"] \in {mDiag["boot"] + 1, settings["boot"]}
          \/ mDiag'["boot"] = mDiag["boot"] /\ settings'["boot"] = settings["boot"]
      BY <1>3, <2>1, SaveEffect DEF SaveBootCount
    <3> QED
      BY <2>1, <3>1, <3>2
  <2>3. \A c \in Loadable : settings[c] <= mDiag[c]
    BY <1>3 DEF SaveBootCount, FlashBehindRam
  <2> QED
    BY <1>0, <2>2, <2>3 DEF FlashBehindRam
<1>4. CASE SaveWdtResetCount
  <2>1. "wdt_reset" \in Counters /\ mDiag["wdt_reset"] + 1 \in Nat
    BY DEF Counters
  <2>2. \A c \in Counters : mDiag[c] <= mDiag'[c]
                           /\ (settings'[c] = mDiag'[c] \/ settings'[c] = settings[c])
    <3>1. ASSUME NEW c \in Counters, c # "wdt_reset"
          PROVE  mDiag'[c] = mDiag[c] /\ settings'[c] = settings[c]
      BY <1>4, <2>1, <3>1, SaveEffect DEF SaveWdtResetCount
    <3>2. \/ mDiag'["wdt_reset"] = mDiag["wdt_reset"] + 1
             /\ settings'["wdt_reset"] \in {mDiag["wdt_reset"] + 1, settings["wdt_reset"]}
          \/ /\ mDiag'["wdt_reset"] = mDiag["wdt_reset"]
             /\ settings'["wdt_reset"] = settings["wdt_reset"]
      BY <1>4, <2>1, SaveEffect DEF SaveWdtResetCount
    <3> QED
      BY <2>1, <3>1, <3>2
  <2>3. \A c \in Loadable : settings[c] <= mDiag[c]
    BY <1>4 DEF SaveWdtResetCount, FlashBehindRam
  <2> QED
    BY <1>0, <2>2, <2>3 DEF FlashBehindRam
<1>5. ASSUME NEW e \in EventCounters, CountEvent(e) PROVE FlashBehindRam'
  <2>1. \A c \in Loadable : settings[c] <= mDiag[c]
    BY <1>5 DEF CountEvent, FlashBehindRam
  <2>2. \A c \in Counters : settings'[c] = settings[c] /\ mDiag[c] <= mDiag'[c]
    BY <1>5 DEF CountEvent, flash
  <2> QED
    BY <1>0, <2>1, <2>2 DEF FlashBehindRam
<1>6. ASSUME NEW e \in EventCounters, SaveEvent(e) PROVE FlashBehindRam'
  <2>1. e \in Counters /\ mDiag[e] \in Nat
    BY DEF Counters
  <2>2. \A c \in Counters : settings'[c] = settings[c] \/ settings'[c] = mDiag[c]
    BY <1>6, <2>1, SaveEffect DEF SaveEvent
  <2>3. UNCHANGED <<phase, mDiag>>
    BY <1>6 DEF SaveEvent
  <2> QED
    BY <2>2, <2>3 DEF FlashBehindRam
<1>7. CASE \E kind \in Reasons \cup {"POWER"} : Reset(kind)
  BY <1>7 DEF Reset, FlashBehindRam
<1>8. CASE WipeSettings
  <2>1. UNCHANGED <<phase, mDiag>>
    BY <1>8, EraseEffect
  <2>2. ASSUME NEW c \in Loadable PROVE settings'[c] <= settings[c]
    <3>1. settings'[c] \in OlderRecords(c) \cup {0, settings[c]}
      BY <1>8, EraseEffect
    <3>2. settings[c] \in Nat /\ OlderRecords(c) = 0..settings[c]
      BY DEF OlderRecords
    <3> QED
      BY <3>1, <3>2
  <2>3. ASSUME NEW c \in Loadable, settings[c] <= mDiag[c] PROVE settings'[c] <= mDiag'[c]
    <3>1. settings[c] \in Nat /\ settings'[c] \in Nat /\ mDiag[c] \in Nat
      BY <1>0
    <3> QED
      BY <2>1, <2>2, <2>3, <3>1
  <2> QED
    BY <2>1, <2>3 DEF FlashBehindRam
<1> QED
  BY <1>1, <1>2, <1>3, <1>4, <1>5, <1>6, <1>7, <1>8
    DEF Next, DiagOnBoot, PowerCycle, PinReset, WatchdogReset, SoftReset, Reasons

TallyVars ==
  <<[c \in Loadable |-> happened[c]], [c \in Loadable |-> settings[c]], wiping = "erasing">>

\* Saving n of c, or failing to, is a Record or a stutter of the tally.
LEMMA SaveRecords ==
  ASSUME TypeOK, NEW c \in Counters, NEW n \in Nat, SaveDiagValue(c, n),
         c \in Loadable => settings[c] <= n, n <= happened[c], UNCHANGED <<happened, wiping>>
  PROVE  [Tally!Next]_TallyVars
<1>1. CASE settings' = [settings EXCEPT ![c] = n] /\ c \in Loadable
  <2>1. n \in settings[c]..happened[c]
    BY <1>1 DEF TypeOK
  <2>2. Tally!Record(c, n)
    <3>1. [d \in Loadable |-> settings'[d]]
            = [[d \in Loadable |-> settings[d]] EXCEPT ![c] = n]
      BY <1>1 DEF TypeOK, Loadable
    <3> QED
      BY <3>1 DEF Tally!Record
  <2> QED
    BY <1>1, <2>1, <2>2 DEF Tally!Next
<1>2. CASE settings' = [settings EXCEPT ![c] = n] /\ c \notin Loadable
  <2>1. [d \in Loadable |-> settings'[d]] = [d \in Loadable |-> settings[d]]
    BY <1>2 DEF TypeOK, Loadable
  <2> QED
    BY <2>1 DEF TallyVars
<1>3. CASE UNCHANGED settings
  BY <1>3 DEF TallyVars
<1> QED
  BY <1>1, <1>2, <1>3 DEF SaveDiagValue

(* Counting what happened, of any set of counters, happens in the tally,   *)
(* whether or not it ends an erase.                                        *)
LEMMA HappenTally ==
  ASSUME TypeOK, NEW C \in SUBSET Counters, UNCHANGED settings, happened' \in [Counters -> Nat],
         \A c \in Counters : happened'[c] = happened[c] + (IF c \in C THEN 1 ELSE 0),
         wiping' \in {wiping, "no"}
  PROVE  Tally!Next
<1> DEFINE D == C \cap Loadable
<1>1. [c \in Loadable |-> happened'[c]]
        = [c \in Loadable |-> [d \in Loadable |-> happened[d]][c] + (IF c \in D THEN 1 ELSE 0)]
  BY DEF Loadable
<1>2. Tally!Happen(D)
  <2>1. (wiping = "erasing")' \in {(wiping = "erasing"), FALSE}
    OBVIOUS
  <2> QED
    BY <1>1, <2>1 DEF Tally!Happen
<1>3. D \in SUBSET Loadable
  OBVIOUS
<1> QED
  BY <1>2, <1>3 DEF Tally!Next

(* Every step is a step of DurableTally, or a stutter.                    *)
LEMMA StepTally ==
  ASSUME CountInv, FlashBehindRam, [Next]_vars
  PROVE  [Tally!Next]_TallyVars
<1> USE DEF CountInv
<1>0. TypeOK'
  BY StepType
<1>1. CASE ParkInInit \/ LoadDiag \/ ReadAndClearReason \/ SaveResetReason \/ UNCHANGED vars
  BY <1>1 DEF ParkInInit, LoadDiag, ReadAndClearReason, SaveResetReason, vars, flash,
    history, TallyVars
<1>2. CASE SaveBootCount
  <2>1. "boot" \in Counters /\ "boot" \notin EventCounters /\ mDiag["boot"] + 1 \in Nat
    BY DiagAssumption DEF Counters, TypeOK
  <2>2. mDiag["boot"] + 1 <= happened["boot"]
    BY <1>2, <2>1 DEF CountsCovered, Owed, OnItsWay, SaveBootCount
  <2>3. "boot" \in Loadable => settings["boot"] <= mDiag["boot"] + 1
    BY <1>2, <2>1 DEF FlashBehindRam, SaveBootCount, TypeOK
  <2>4. SaveDiagValue("boot", mDiag["boot"] + 1) /\ UNCHANGED <<happened, wiping>>
    BY <1>2 DEF SaveBootCount, history
  <2> QED
    BY <2>1, <2>2, <2>3, <2>4, SaveRecords
<1>3. CASE SaveWdtResetCount
  <2>1. "wdt_reset" \in Counters /\ "wdt_reset" \notin EventCounters
        /\ mDiag["wdt_reset"] + 1 \in Nat
    BY DiagAssumption DEF Counters, TypeOK
  <2>2. CASE "DOG" \in reason
    <3>1. mDiag["wdt_reset"] + 1 <= happened["wdt_reset"]
      BY <1>3, <2>1, <2>2 DEF CountsCovered, Owed, OnItsWay, SaveWdtResetCount
    <3>2. "wdt_reset" \in Loadable => settings["wdt_reset"] <= mDiag["wdt_reset"] + 1
      BY <1>3, <2>1 DEF FlashBehindRam, SaveWdtResetCount, TypeOK
    <3>3. SaveDiagValue("wdt_reset", mDiag["wdt_reset"] + 1) /\ UNCHANGED <<happened, wiping>>
      BY <1>3, <2>2 DEF SaveWdtResetCount, history
    <3> QED
      BY <2>1, <3>1, <3>2, <3>3, SaveRecords
  <2>3. CASE "DOG" \notin reason
    BY <1>3, <2>3 DEF SaveWdtResetCount, history, TallyVars
  <2> QED
    BY <2>2, <2>3
<1>4. ASSUME NEW e \in EventCounters, CountEvent(e) PROVE [Tally!Next]_TallyVars
  <2>1. \A c \in Counters : happened'[c] = happened[c] + (IF c \in {e} THEN 1 ELSE 0)
    BY <1>4 DEF CountEvent, TypeOK, Counters
  <2>2. happened' \in [Counters -> Nat] /\ UNCHANGED <<settings, wiping>>
        /\ {e} \in SUBSET Counters
    BY <1>0, <1>4 DEF CountEvent, flash, TypeOK, Counters
  <2> QED
    BY <2>1, <2>2, HappenTally
<1>5. ASSUME NEW e \in EventCounters, SaveEvent(e) PROVE [Tally!Next]_TallyVars
  <2>1. e \in Counters /\ mDiag[e] \in Nat
    BY DEF Counters, TypeOK
  <2>2. Owed(e) = 0
    BY DEF Owed
  <2>3. mDiag[e] <= happened[e]
    BY <2>1, <2>2 DEF CountsCovered, TypeOK
  <2>4. e \in Loadable => settings[e] <= mDiag[e]
    BY <1>5, <2>1 DEF SaveEvent, ReasonFlow, FlashBehindRam
  <2>5. SaveDiagValue(e, mDiag[e]) /\ UNCHANGED <<happened, wiping>>
    BY <1>5 DEF SaveEvent, history
  <2> QED
    BY <2>1, <2>3, <2>4, <2>5, SaveRecords
<1>6. ASSUME NEW kind \in Reasons \cup {"POWER"}, Reset(kind) PROVE [Tally!Next]_TallyVars
  <2> DEFINE C == {"boot"} \cup (IF kind = "DOG" THEN {"wdt_reset"} ELSE {})
  <2>1. C \in SUBSET Counters
    BY DEF Counters
  <2>2. \A c \in Counters : happened'[c] = happened[c] + (IF c \in C THEN 1 ELSE 0)
    BY <1>6 DEF Reset, TypeOK, Counters
  <2>3. UNCHANGED settings /\ happened' \in [Counters -> Nat] /\ wiping' = "no"
    BY <1>0, <1>6 DEF Reset, flash, TypeOK
  <2> HIDE DEF C
  <2> QED
    BY <2>1, <2>2, <2>3, HappenTally
<1>7. CASE BeginErase
  <2>1. Tally!BeginWipe
    BY <1>7 DEF BeginErase, flash, history, Tally!BeginWipe
  <2> QED
    BY <2>1 DEF Tally!Next
<1>8. ASSUME NEW d \in Counters, EraseCounter(d) PROVE [Tally!Next]_TallyVars
  <2>1. PICK n \in OlderRecords(d) : settings' = [settings EXCEPT ![d] = n]
    BY <1>8 DEF EraseCounter
  <2>2. UNCHANGED <<happened, wiping>> /\ wiping = "erasing"
    BY <1>8 DEF EraseCounter
  <2>3. CASE d \in Loadable
    <3>1. n \in 0..settings[d]
      BY <2>1, <2>3 DEF OlderRecords, Loadable
    <3>2. [c \in Loadable |-> settings'[c]]
            = [[c \in Loadable |-> settings[c]] EXCEPT ![d] = n]
      BY <2>1, <2>3 DEF TypeOK, Loadable
    <3>3. Tally!TakeBack(d, n)
      BY <2>2, <3>2 DEF Tally!TakeBack
    <3>4. n \in 0..[c \in Loadable |-> settings[c]][d]
      BY <2>3, <3>1
    <3> QED
      BY <2>3, <3>3, <3>4 DEF Tally!Next
  <2>4. CASE d \notin Loadable
    <3>1. [c \in Loadable |-> settings'[c]] = [c \in Loadable |-> settings[c]]
      BY <2>1, <2>4 DEF TypeOK, Loadable
    <3> QED
      BY <2>2, <3>1 DEF TallyVars
  <2> QED
    BY <2>3, <2>4
<1>9. CASE EraseReason
  BY <1>9 DEF EraseReason, TallyVars
<1>10. CASE EraseFails
  <2>1. Tally!GiveUp
    BY <1>10 DEF EraseFails, flash, history, Tally!GiveUp
  <2> QED
    BY <2>1 DEF Tally!Next
<1>11. CASE EraseSettings
  <2>1. [c \in Loadable |-> settings'[c]] = [c \in Loadable |-> 0] /\ UNCHANGED happened
    BY <1>11 DEF EraseSettings, Zero, Loadable
  <2>2. wiping = "erasing" /\ (wiping = "erasing")' = FALSE
    BY <1>11 DEF EraseSettings
  <2> QED
    BY <2>1, <2>2 DEF Tally!Next, Tally!Wipe
<1> QED
  BY <1>1, <1>2, <1>3, <1>4, <1>5, <1>6, <1>7, <1>8, <1>9, <1>10, <1>11
    DEF Next, DiagOnBoot, WipeSettings, PowerCycle, PinReset, WatchdogReset, SoftReset, Reasons

(* The counters whose loads work implement the durable tally, for every    *)
(* set of counters and every bound, whatever saves fail, and whether an    *)
(* erase succeeds, fails half-way or is cut by a reset.                    *)
THEOREM ImplementsTally == Spec => TallySpec
<1>1. Init => CountInv /\ FlashBehindRam
  BY InitCount DEF Init, FlashBehindRam
<1>2. CountInv /\ FlashBehindRam /\ [Next]_vars => CountInv' /\ FlashBehindRam'
  BY StepCount, StepBehind DEF CountInv
<1>3. Init => Tally!Init
  BY InitType DEF Init, TypeOK, Tally!Init, Zero, Loadable
<1>4. CountInv /\ FlashBehindRam /\ [Next]_vars => [Tally!Next]_TallyVars
  BY StepTally
<1> QED
  BY <1>1, <1>2, <1>3, <1>4, PTL DEF Spec, TallySpec, Tally!Spec, TallyVars

-----------------------------------------------------------------------------
(* Of a key that never fails, RAM is ahead of flash by the save in         *)
(* progress at least, and the loss is bounded by the resets.               *)

Bit(P) == IF P THEN 1 ELSE 0

Sure == Counters \ (SaveMayFail \cup LoadMayFail)

InSync ==
  phase \notin {"off", "parked"} =>
    \A c \in Sure : mDiag[c] >= settings[c] + Bit(c \in saving)

\* What flash may lack for good.
Excused(c) == wiped[c] + (IF c \in EventCounters THEN upResets ELSE cutBoots)

LossInv == TypeOK /\ ReasonFlow /\ InSync /\ LossBound

(* Every step keeps the loss of each such counter within its bound.       *)
LEMMA StepLoss ==
  ASSUME LossInv, [Next]_vars
  PROVE  LossInv'
<1>0. TypeOK /\ TypeOK' /\ ReasonFlow /\ ReasonFlow'
  BY StepType, StepFlow DEF LossInv
<1> SUFFICES ASSUME NEW c \in Sure
             PROVE  /\ phase' \notin {"off", "parked"} =>
                         mDiag'[c] >= settings'[c] + Bit(c \in saving')
                    /\ happened'[c] <= settings'[c] + Excused(c)' + Bit(OnItsWay(c))'
  <2>1. Sure = Counters \ (SaveMayFail \cup LoadMayFail)
    BY DEF Sure
  <2>2. InSync'
    BY DEF InSync, Bit
  <2>3. ASSUME NEW d \in Sure
        PROVE  happened'[d] <= settings'[d] + wiped'[d]
                 + (IF d \in EventCounters THEN upResets' ELSE cutBoots')
                 + (IF OnItsWay(d)' THEN 1 ELSE 0)
    BY <1>0, <2>1 DEF Excused, Bit, TypeOK
  <2> QED
    BY <1>0, <2>1, <2>2, <2>3 DEF LossInv, LossBound
<1>s. c \in Counters /\ c \notin SaveMayFail /\ c \notin LoadMayFail
  BY DEF Sure
<1>t. /\ settings[c] \in Nat /\ mDiag[c] \in Nat /\ happened[c] \in Nat
      /\ settings'[c] \in Nat /\ mDiag'[c] \in Nat /\ happened'[c] \in Nat
      /\ wiped[c] \in Nat /\ Excused(c) \in Nat /\ Excused(c)' \in Nat
      /\ Bit(OnItsWay(c)) \in {0, 1} /\ Bit(OnItsWay(c))' \in {0, 1}
  BY <1>0, <1>s DEF TypeOK, Excused, Bit
<1>a. happened[c] <= settings[c] + Excused(c) + Bit(OnItsWay(c))
  BY <1>0, <1>s DEF LossInv, LossBound, Excused, Bit, TypeOK
<1>b. phase \notin {"off", "parked"} => mDiag[c] >= settings[c] + Bit(c \in saving)
  BY DEF LossInv, InSync
<1>q. ASSUME happened'[c] = happened[c], settings'[c] = settings[c], wiped' = wiped,
             upResets' = upResets, cutBoots' = cutBoots, OnItsWay(c)' <=> OnItsWay(c)
      PROVE  happened'[c] <= settings'[c] + Excused(c)' + Bit(OnItsWay(c))'
  <2>1. Excused(c)' = Excused(c) /\ Bit(OnItsWay(c))' = Bit(OnItsWay(c))
    BY <1>q DEF Excused, Bit
  <2> QED
    BY <1>a, <1>q, <2>1
<1>1. CASE ParkInInit \/ SaveResetReason \/ ReadAndClearReason \/ UNCHANGED vars
  <2>1. /\ UNCHANGED <<happened, settings, mDiag, saving, wiped, upResets, cutBoots>>
        /\ phase' \notin {"off", "parked"} => phase \notin {"off", "parked"}
    BY <1>1 DEF ParkInInit, SaveResetReason, ReadAndClearReason, vars, flash, history
  <2>2. OnItsWay(c)' <=> OnItsWay(c)
    BY <1>0, <1>1 DEF ParkInInit, SaveResetReason, ReadAndClearReason, vars, flash, history,
      OnItsWay, ReasonFlow
  <2> QED
    BY <1>b, <1>q, <2>1, <2>2
<1>2. CASE LoadDiag
  <2>1. /\ UNCHANGED <<happened, settings, saving, wiped, upResets, cutBoots>>
        /\ mDiag'[c] = settings[c] /\ saving = {}
    BY <1>0, <1>2, <1>s DEF LoadDiag, flash, history, ReasonFlow
  <2>2. OnItsWay(c)' <=> OnItsWay(c)
    BY <1>2 DEF LoadDiag, OnItsWay
  <2> QED
    BY <1>q, <1>t, <2>1, <2>2 DEF Bit
<1>3. CASE SaveBootCount
  <2>1. /\ UNCHANGED <<happened, saving, wiped, upResets, cutBoots>>
        /\ saving = {} /\ phase = "cleared"
    BY <1>0, <1>3 DEF SaveBootCount, history, ReasonFlow
  <2>2. CASE c = "boot"
    <3>1. settings'[c] = mDiag[c] + 1 /\ mDiag'[c] = mDiag[c] + 1
      BY <1>0, <1>3, <1>s, <1>t, <2>2, SaveEffect DEF SaveBootCount, TypeOK
    <3>2. Excused(c)' = Excused(c)
      BY <2>1 DEF Excused
    <3> QED
      BY <1>a, <1>b, <1>t, <2>1, <3>1, <3>2 DEF Bit
  <2>3. CASE c # "boot"
    <3>1. settings'[c] = settings[c] /\ mDiag'[c] = mDiag[c]
      <4>1. "boot" \in Counters /\ mDiag["boot"] + 1 \in Nat
        BY <1>0 DEF Counters, TypeOK
      <4> QED
        BY <1>0, <1>3, <1>s, <2>3, <4>1, SaveEffect DEF SaveBootCount, TypeOK
    <3>2. OnItsWay(c)' <=> OnItsWay(c)
      BY <1>3, <2>3 DEF SaveBootCount, OnItsWay
    <3> QED
      BY <1>b, <1>q, <2>1, <3>1, <3>2
  <2> QED
    BY <2>2, <2>3
<1>4. CASE SaveWdtResetCount
  <2>1. /\ UNCHANGED <<happened, saving, wiped, upResets, cutBoots>>
        /\ saving = {} /\ resetreas = {} /\ phase = "reason_saved"
    BY <1>0, <1>4 DEF SaveWdtResetCount, history, ReasonFlow
  <2>2. CASE c = "wdt_reset" /\ "DOG" \in reason
    <3>1. settings'[c] = mDiag[c] + 1 /\ mDiag'[c] = mDiag[c] + 1
      BY <1>0, <1>4, <1>s, <1>t, <2>2, SaveEffect DEF SaveWdtResetCount, TypeOK
    <3>2. Excused(c)' = Excused(c)
      BY <2>1 DEF Excused
    <3> QED
      BY <1>a, <1>b, <1>t, <2>1, <3>1, <3>2 DEF Bit
  <2>3. CASE ~(c = "wdt_reset" /\ "DOG" \in reason)
    <3>1. settings'[c] = settings[c] /\ mDiag'[c] = mDiag[c]
      <4>1. "wdt_reset" \in Counters /\ mDiag["wdt_reset"] + 1 \in Nat
        BY <1>0 DEF Counters, TypeOK
      <4>2. CASE "DOG" \in reason
        BY <1>0, <1>4, <1>s, <2>3, <4>1, <4>2, SaveEffect DEF SaveWdtResetCount, TypeOK
      <4>3. CASE "DOG" \notin reason
        BY <1>4, <4>3 DEF SaveWdtResetCount
      <4> QED
        BY <4>2, <4>3
    <3>2. OnItsWay(c)' <=> OnItsWay(c)
      BY <1>4, <2>1, <2>3 DEF SaveWdtResetCount, OnItsWay
    <3> QED
      BY <1>b, <1>q, <2>1, <3>1, <3>2
  <2> QED
    BY <2>2, <2>3
<1>5. ASSUME NEW e \in EventCounters, CountEvent(e)
      PROVE  /\ phase' \notin {"off", "parked"} =>
                  mDiag'[c] >= settings'[c] + Bit(c \in saving')
             /\ happened'[c] <= settings'[c] + Excused(c)' + Bit(OnItsWay(c))'
  <2>1. /\ UNCHANGED <<phase, settings, wiped, upResets, cutBoots>>
        /\ saving' = saving \cup {e} /\ e \notin saving /\ phase = "up"
        /\ mDiag'[c] = mDiag[c] + Bit(c = e)
        /\ happened'[c] = happened[c] + Bit(c = e)
    BY <1>0, <1>5, <1>s DEF CountEvent, flash, TypeOK, Bit
  <2>2. CASE c = e
    <3>1. Excused(c)' = Excused(c)
      BY <2>1 DEF Excused
    <3>2. ~OnItsWay(c) /\ OnItsWay(c)'
      BY <1>5, <2>1, <2>2, DiagAssumption DEF OnItsWay
    <3> QED
      BY <1>a, <1>b, <1>t, <2>1, <2>2, <3>1, <3>2 DEF Bit
  <2>3. CASE c # e
    <3>1. OnItsWay(c)' <=> OnItsWay(c)
      BY <1>5, <2>1, <2>3 DEF CountEvent, OnItsWay
    <3>2. mDiag'[c] = mDiag[c] /\ happened'[c] = happened[c] /\ (c \in saving' <=> c \in saving)
      BY <1>t, <2>1, <2>3 DEF Bit
    <3> QED
      BY <1>b, <1>q, <2>1, <3>1, <3>2
  <2> QED
    BY <2>2, <2>3
<1>6. ASSUME NEW e \in EventCounters, SaveEvent(e)
      PROVE  /\ phase' \notin {"off", "parked"} =>
                  mDiag'[c] >= settings'[c] + Bit(c \in saving')
             /\ happened'[c] <= settings'[c] + Excused(c)' + Bit(OnItsWay(c))'
  <2>1. e \in Counters /\ mDiag[e] \in Nat /\ phase = "up"
    BY <1>0, <1>6 DEF Counters, TypeOK, SaveEvent, ReasonFlow
  <2>2. /\ UNCHANGED <<phase, mDiag, happened, wiped, upResets, cutBoots>>
        /\ saving' = saving \ {e} /\ e \in saving
    BY <1>6 DEF SaveEvent, history
  <2>3. CASE c = e
    <3>1. settings'[c] = mDiag[c]
      BY <1>0, <1>6, <1>s, <2>1, <2>3, SaveEffect DEF SaveEvent, TypeOK
    <3>2. Excused(c)' = Excused(c)
      BY <2>2 DEF Excused
    <3> QED
      BY <1>a, <1>b, <1>t, <2>1, <2>2, <2>3, <3>1, <3>2 DEF Bit
  <2>4. CASE c # e
    <3>1. settings'[c] = settings[c]
      BY <1>0, <1>6, <1>s, <2>1, <2>4, SaveEffect DEF SaveEvent, TypeOK
    <3>2. (OnItsWay(c)' <=> OnItsWay(c)) /\ (c \in saving' <=> c \in saving)
      BY <1>6, <2>2, <2>4 DEF SaveEvent, OnItsWay
    <3> QED
      BY <1>b, <1>q, <2>2, <3>1, <3>2
  <2> QED
    BY <2>3, <2>4
<1>7. ASSUME NEW kind \in Reasons \cup {"POWER"}, Reset(kind), kind = "DOG" => phase = "up"
      PROVE  /\ phase' = "off"
             /\ happened'[c] <= settings'[c] + Excused(c)' + Bit(OnItsWay(c))'
  <2> DEFINE counted == c = "boot" \/ (c = "wdt_reset" /\ kind = "DOG")
  <2>1. phase' = "off"
    BY <1>7 DEF Reset
  <2>2. settings'[c] = settings[c] /\ happened'[c] = happened[c] + Bit(counted)
    BY <1>0, <1>7, <1>s DEF Reset, flash, TypeOK, Counters, Bit
  <2>3. /\ phase = "up" => upResets' = upResets + 1 /\ cutBoots' = cutBoots
        /\ phase # "up" => cutBoots' = cutBoots + 1 /\ upResets' = upResets
        /\ wiped' = wiped
    BY <1>7 DEF Reset
  <2>4. counted => OnItsWay(c)'
    BY <1>7 DEF Reset, OnItsWay
  <2>5. Bit(counted) <= Bit(OnItsWay(c))' /\ Bit(counted) \in {0, 1}
    BY <2>4 DEF Bit
  <2>6. CASE c \in EventCounters /\ phase = "up"
    <3>1. Excused(c)' = Excused(c) + 1
      BY <1>0, <1>s, <2>3, <2>6 DEF Excused, TypeOK
    <3> QED
      BY <1>a, <1>t, <2>1, <2>2, <2>5, <3>1
  <2>7. CASE c \in EventCounters /\ phase # "up"
    <3>1. Excused(c)' = Excused(c)
      BY <2>3, <2>7 DEF Excused
    <3>2. ~OnItsWay(c)
      BY <1>0, <2>7, DiagAssumption DEF OnItsWay, ReasonFlow
    <3>3. Bit(OnItsWay(c)) = 0
      BY <3>2 DEF Bit
    <3> QED
      BY <1>a, <1>t, <2>1, <2>2, <2>5, <3>1, <3>3
  <2>8. CASE c \notin EventCounters /\ phase # "up"
    <3>1. Excused(c)' = Excused(c) + 1
      BY <1>0, <1>s, <2>3, <2>8 DEF Excused, TypeOK
    <3> QED
      BY <1>a, <1>t, <2>1, <2>2, <2>5, <3>1
  <2>9. CASE c \notin EventCounters /\ phase = "up"
    <3>1. Excused(c)' = Excused(c)
      BY <2>3, <2>9 DEF Excused
    <3>2. ~OnItsWay(c)
      BY <1>0, <2>9 DEF OnItsWay, TypeOK
    <3>3. Bit(OnItsWay(c)) = 0
      BY <3>2 DEF Bit
    <3> QED
      BY <1>a, <1>t, <2>1, <2>2, <2>5, <3>1, <3>3
  <2> QED
    BY <2>6, <2>7, <2>8, <2>9
<1>8. CASE WipeSettings
  <2>1. UNCHANGED <<phase, mDiag, saving, resetreas, reason, happened, upResets, cutBoots>>
    BY <1>0, <1>8, EraseEffect
  <2>2. \/ settings'[c] = settings[c] /\ wiped'[c] = wiped[c]
        \/ settings'[c] <= settings[c] /\ wiped'[c] = happened[c]
    BY <1>0, <1>8, <1>s, <1>t, EraseEffect DEF OlderRecords
  <2>3. OnItsWay(c)' <=> OnItsWay(c)
    BY <2>1 DEF OnItsWay
  <2>4. Bit(c \in saving) \in {0, 1}
    BY DEF Bit
  <2>5. CASE settings'[c] = settings[c] /\ wiped'[c] = wiped[c]
    <3>1. Excused(c)' = Excused(c) /\ Bit(OnItsWay(c))' = Bit(OnItsWay(c))
      BY <2>1, <2>3, <2>5 DEF Excused, Bit
    <3> QED
      BY <1>a, <1>b, <2>1, <2>5, <3>1
  <2>6. CASE settings'[c] <= settings[c] /\ wiped'[c] = happened[c]
    <3>1. Excused(c)' >= happened[c]
      BY <1>0, <1>t, <2>1, <2>6 DEF Excused, TypeOK
    <3> QED
      BY <1>b, <1>t, <2>1, <2>4, <2>6, <3>1
  <2> QED
    BY <2>2, <2>5, <2>6
<1>9. CASE \E kind \in Reasons \cup {"POWER"} :
             Reset(kind) /\ (kind = "DOG" => phase = "up")
  BY <1>7, <1>9
<1> QED
  BY <1>1, <1>2, <1>3, <1>4, <1>5, <1>6, <1>8, <1>9
    DEF Next, DiagOnBoot, PowerCycle, PinReset, WatchdogReset, SoftReset, Reasons

(* What a counter of reliable keys can still lose is bounded by the        *)
(* resets, for every set of event counters and every bound, wiped or not.  *)
THEOREM LossBounded == Spec => []LossBound
<1>1. Init => LossInv
  <2> SUFFICES ASSUME Init PROVE LossInv
    OBVIOUS
  <2>1. TypeOK /\ ReasonFlow
    BY InitCount DEF CountInv
  <2>2. InSync
    BY DEF Init, InSync
  <2>3. ASSUME NEW c \in Counters
        PROVE  happened[c] <= settings[c] + wiped[c]
                              + (IF c \in EventCounters THEN upResets ELSE cutBoots)
                              + (IF OnItsWay(c) THEN 1 ELSE 0)
    <3>1. c = "boot" => OnItsWay(c)
      BY DEF Init, OnItsWay
    <3> QED
      BY <3>1 DEF Init, Zero
  <2> QED
    BY <2>1, <2>2, <2>3 DEF LossInv, LossBound
<1>2. LossInv /\ [Next]_vars => LossInv'
  BY StepLoss
<1> QED
  BY <1>1, <1>2, PTL DEF Spec, LossInv

-----------------------------------------------------------------------------
(* The reset reason.  Before it reaches flash it is in the register, then  *)
(* in the local of DiagOnBoot, and each in its turn explains the boot.     *)

Explains(R) == R \subseteq causes /\ (cause # "POWER" => cause \in R)

ExplainInv ==
  /\ TypeOK /\ ReasonFlow
  /\ phase \in {"off", "parked", "loaded"} => Explains(resetreas)
  /\ phase \in {"cleared", "boot_saved"} => Explains(reason)
  /\ phase \in {"reason_saved", "up"} /\ ~reasonWiped /\ "last_reset" \notin SaveMayFail
       => Explains(lastReset)

(* Every step hands the reason on.                                        *)
LEMMA StepExplain ==
  ASSUME ExplainInv, [Next]_vars
  PROVE  ExplainInv'
<1> USE DEF Explains
<1>0. TypeOK /\ TypeOK' /\ ReasonFlow /\ ReasonFlow'
  BY StepType, StepFlow DEF ExplainInv
<1>1. CASE DiagOnBoot \/ ParkInInit \/ UNCHANGED vars
  BY <1>0, <1>1 DEF ExplainInv, DiagOnBoot, ParkInInit, LoadDiag, ReadAndClearReason,
    SaveBootCount, SaveResetReason, SaveWdtResetCount, vars, flash, history
<1>2. ASSUME NEW e \in EventCounters, CountEvent(e) \/ SaveEvent(e) PROVE ExplainInv'
  BY <1>0, <1>2 DEF ExplainInv, CountEvent, SaveEvent, flash, history
<1>3. ASSUME NEW kind \in Reasons \cup {"POWER"}, Reset(kind) PROVE ExplainInv'
  <2>1. phase' = "off" /\ cause' = kind
    BY <1>3 DEF Reset
  <2>2. CASE kind = "POWER"
    BY <1>0, <1>3, <2>1, <2>2 DEF ExplainInv, Reset
  <2>3. CASE kind # "POWER" /\ phase = "up"
    <3>1. resetreas' = {kind} /\ causes' = {kind}
      BY <1>0, <1>3, <2>3 DEF Reset, ReasonFlow
    <3> QED
      BY <1>0, <2>1, <3>1 DEF ExplainInv
  <2>4. CASE kind # "POWER" /\ phase # "up"
    <3>1. resetreas' = resetreas \cup {kind} /\ causes' = causes \cup {kind}
      BY <1>3, <2>4 DEF Reset
    <3>2. resetreas \subseteq causes
      BY <1>0, <2>4 DEF ExplainInv, ReasonFlow, TypeOK, Phases
    <3> QED
      BY <1>0, <2>1, <3>1, <3>2 DEF ExplainInv
  <2> QED
    BY <2>2, <2>3, <2>4
<1>4. CASE WipeSettings
  BY <1>0, <1>4, EraseEffect DEF ExplainInv
<1> QED
  BY <1>1, <1>2, <1>3, <1>4
    DEF Next, PowerCycle, PinReset, WatchdogReset, SoftReset, Reasons

(* The reset reason a boot leaves in flash is its own, for every bound,    *)
(* if the key can be saved: whatever resets cut the boots before it.       *)
THEOREM ReasonExplained == Spec => []LastResetExplained
<1>1. Init => ExplainInv
  <2> SUFFICES ASSUME Init PROVE ExplainInv
    OBVIOUS
  <2>1. TypeOK /\ ReasonFlow
    BY InitCount DEF CountInv
  <2> QED
    BY <2>1 DEF ExplainInv, Explains, Init, Reasons
<1>2. ExplainInv /\ [Next]_vars => ExplainInv'
  BY StepExplain
<1>3. ExplainInv => LastResetExplained
  BY DEF ExplainInv, Explains, LastResetExplained
<1> QED
  BY <1>1, <1>2, <1>3, PTL DEF Spec

-----------------------------------------------------------------------------
(* The health snapshot.                                                    *)

\* The main thread may still stamp: its one call has not come, or not got there.
MainOwes == ~mainDone \/ pc["main"] \in {"test", "stamp"}

\* At least as many snapshots as the Matter thread has stamped.
MatterStamps == IF MainOwes THEN snapshots ELSE snapshots - 1

Writing(t) == pc[t] = "uptime"

\* The clock: a poll is served or lost in time, a call ends in time.
Clocks ==
  /\ 1 <= uptime
  /\ due <= uptime + PollPeriod
  /\ uptime <= due + Latency
  /\ mLastHealthSnapshotMs <= uptime
  /\ lastLost <= uptime
  /\ pc["main"] # "idle" => mainDone
  /\ \A t \in Threads : pc[t] # "idle" =>
       1 <= nowMs[t] /\ nowMs[t] <= uptime /\ uptime <= nowMs[t] + WriteTime
  /\ pc["matter"] # "idle" =>
       due <= nowMs["matter"] + PollPeriod \/ due <= lastLost + PollPeriod

\* A stamp is as old as the call that made it, and only the main thread can
\* put one over a stamp of the Matter thread.
Stamped ==
  /\ mLastHealthSnapshotMs = 0 <=> snapshots = 0
  /\ \A t \in Threads : pc[t] \in {"uptime", "role"} =>
       mLastHealthSnapshotMs # 0 /\ nowMs[t] <= mLastHealthSnapshotMs + WriteTime
  /\ MainOwes /\ Writing("matter") => mLastHealthSnapshotMs = nowMs["matter"]

\* The snapshots of the Matter thread are an interval apart, although the
\* main thread may set the stamp back by up to a call in between.
Spaced ==
  /\ mLastHealthSnapshotMs # 0 =>
       1 + MatterStamps * Interval <= mLastHealthSnapshotMs + Interval
  /\ pc["matter"] = "stamp" => 1 + MatterStamps * Interval <= nowMs["matter"]
  /\ pc["main"] = "stamp" =>
       \/ mLastHealthSnapshotMs = 0
       \/ mLastHealthSnapshotMs + Interval <= nowMs["main"]
       \/ /\ mLastHealthSnapshotMs # 0
          /\ 1 + MatterStamps * Interval <= nowMs["main"] + Interval
          /\ nowMs["main"] <= mLastHealthSnapshotMs + WriteTime
          /\ pc["matter"] # "stamp"

\* Every poll that is not lost finds a stamp of the last interval or leaves
\* one: the next is due within a period of a lost one, or of such a stamp.
Polled ==
  /\ pc["matter"] = "idle" =>
       \/ due <= lastLost + PollPeriod
       \/ /\ mLastHealthSnapshotMs # 0
          /\ due < mLastHealthSnapshotMs + PollPeriod + Interval
  /\ pc["matter"] \in {"test", "stamp"} =>
       \/ nowMs["matter"] <= lastLost + PollPeriod + Latency
       \/ /\ mLastHealthSnapshotMs # 0
          /\ nowMs["matter"] < mLastHealthSnapshotMs + PollPeriod + Latency + Interval

\* The saved uptime follows the stamp; while one is on its way to flash, what
\* is there is at most an interval, a late poll and a call older.
UptimeFollows ==
  /\ mLastHealthSnapshotMs # 0 /\ (\A t \in Threads : ~Writing(t)) =>
       /\ savedUptime <= uptime
       /\ mLastHealthSnapshotMs <= savedUptime + WriteTime
       /\ MainOwes => mLastHealthSnapshotMs <= savedUptime
  /\ \A t \in Threads :
       pc[t] \in {"stamp", "uptime"} /\ nowMs[t] > lastLost + PollPeriod + Latency + WriteTime =>
         /\ mLastHealthSnapshotMs # 0
         /\ savedUptime <= uptime
         /\ nowMs[t] <= savedUptime + Interval + PollPeriod + Latency + WriteTime

Recent == ~saveFailed => UptimeFollows

\* Whoever is about to save the role started no later than a call after the
\* uptime was read that is saved beside it.
RoleFollows ==
  /\ \A t \in Threads : pc[t] = "role" =>
       nowMs[t] <= savedUptime + WriteTime /\ savedUptime <= uptime
  /\ (\A t \in Threads : pc[t] \notin {"uptime", "role"}) /\ snapshots > 0 =>
       savedUptime <= savedRoleAt /\ savedRoleAt <= savedUptime + 2 * WriteTime

Coherent == ~saveFailed => RoleFollows

SnapshotInv ==
  SnapshotTypeOK /\ Clocks /\ Stamped /\ Spaced /\ Polled /\ Recent /\ Coherent

-----------------------------------------------------------------------------
(* The function is called on two threads.                                  *)
LEMMA TwoThreads == \A t \in Threads : t = "main" \/ t = "matter"
BY DEF Threads

(* A boot starts out in the invariant, whatever is in flash.               *)
LEMMA BootInv ==
  ASSUME SnapshotTypeOK', uptime' = 1, due' = PollPeriod, mainDone' = FALSE,
         pc' = [t \in Threads |-> "idle"], mLastHealthSnapshotMs' = 0,
         snapshots' = 0, lastLost' = 0
  PROVE  SnapshotInv'
<1>1. \A t \in Threads : pc'[t] = "idle"
  OBVIOUS
<1>2. pc'["main"] = "idle" /\ pc'["matter"] = "idle"
  BY <1>1 DEF Threads
<1>3. Clocks'
  BY <1>1, <1>2, SnapshotAssumption DEF Clocks
<1>4. Stamped' /\ Recent' /\ Coherent'
  BY <1>1, <1>2 DEF Stamped, Recent, UptimeFollows, Coherent, RoleFollows, Writing
<1>5. Spaced' /\ Polled'
  BY <1>2, SnapshotAssumption DEF Spaced, Polled
<1> QED
  BY <1>3, <1>4, <1>5 DEF SnapshotInv

-----------------------------------------------------------------------------
(* Declarations.                                                           *)
LEMMA InitSnapshotTypeOK == SnapshotInit => SnapshotTypeOK
<1> SUFFICES ASSUME SnapshotInit PROVE SnapshotTypeOK
  OBVIOUS
<1>1. mainDone \in BOOLEAN /\ saveFailed \in BOOLEAN
  BY DEF SnapshotInit
<1>2. /\ pc \in [Threads -> {"idle", "test", "stamp", "uptime", "role"}]
      /\ nowMs \in [Threads -> Nat]
  BY DEF SnapshotInit
<1>3. due \in Nat
  BY SnapshotAssumption DEF SnapshotInit
<1> QED
  BY <1>1, <1>2, <1>3 DEF SnapshotInit, SnapshotTypeOK

(* Every step keeps the types.                                             *)
LEMMA NextSnapshotTypeOK ==
  SnapshotTypeOK /\ [SnapshotNext]_snapshotVars => SnapshotTypeOK'
<1> SUFFICES ASSUME SnapshotTypeOK, [SnapshotNext]_snapshotVars PROVE SnapshotTypeOK'
  OBVIOUS
<1> USE SnapshotAssumption DEF SnapshotTypeOK, record, calls, timer
<1>1. CASE MainCalls
  BY <1>1 DEF MainCalls, Enter
<1>2. CASE WorkItemCalls
  <2>1. pc' \in [Threads -> {"idle", "test", "stamp", "uptime", "role"}]
        /\ nowMs' \in [Threads -> Nat]
    BY <1>2 DEF WorkItemCalls, Enter
  <2>2. due' \in Nat /\ mLastThreadRole' \in Roles
    BY <1>2 DEF WorkItemCalls
  <2> QED
    BY <1>2, <2>1, <2>2 DEF WorkItemCalls
<1>3. CASE SensorWorkItemCalls
  BY <1>3 DEF SensorWorkItemCalls, Enter
<1>4. ASSUME NEW t \in Threads, Test(t) PROVE SnapshotTypeOK'
  BY <1>4 DEF Test, Return
<1>5. ASSUME NEW t \in Threads, Stamp(t) PROVE SnapshotTypeOK'
  BY <1>5 DEF Stamp
<1>6. ASSUME NEW t \in Threads, SaveUptime(t) PROVE SnapshotTypeOK'
  BY <1>6 DEF SaveUptime
<1>7. ASSUME NEW t \in Threads, SaveRole(t) PROVE SnapshotTypeOK'
  BY <1>7 DEF SaveRole, Return
<1>8. CASE ResetNode
  BY <1>8 DEF ResetNode, Boot
<1>9. CASE Tick
  BY <1>9 DEF Tick
<1>10. CASE LoseWork
  BY <1>10 DEF LoseWork
<1>11. CASE EraseRecord
  BY <1>11 DEF EraseRecord
<1>12. CASE UNCHANGED snapshotVars
  BY <1>12 DEF snapshotVars
<1> QED
  BY <1>1, <1>2, <1>3, <1>4, <1>5, <1>6, <1>7, <1>8, <1>9, <1>10, <1>11, <1>12
     DEF SnapshotNext, MaybeLogAndPersistHealthSnapshot

-----------------------------------------------------------------------------
(* The clock and the stamp.                                                *)
LEMMA ClocksStep ==
  ASSUME SnapshotTypeOK, SnapshotTypeOK', Clocks,
         [SnapshotNext]_snapshotVars, ~ResetNode
  PROVE  Clocks'
<1> USE SnapshotAssumption, TwoThreads DEF SnapshotTypeOK, Clocks, record, calls, timer
<1>1. CASE MainCalls
  BY <1>1 DEF MainCalls, Enter
<1>2. CASE WorkItemCalls
  <2>1. /\ UNCHANGED <<uptime, lastLost, mLastHealthSnapshotMs, mainDone>>
        /\ due' = due + PollPeriod /\ due <= uptime
    BY <1>2 DEF WorkItemCalls
  <2>2. /\ pc'["main"] = pc["main"] /\ nowMs'["main"] = nowMs["main"]
        /\ pc'["matter"] = "test" /\ nowMs'["matter"] = uptime
    BY <1>2 DEF WorkItemCalls, Enter, Threads
  <2> QED
    BY <2>1, <2>2
<1>3. CASE SensorWorkItemCalls
  BY <1>3 DEF SensorWorkItemCalls, Enter
<1>4. ASSUME NEW t \in Threads, Test(t) PROVE Clocks'
  <2>1. UNCHANGED <<uptime, due, lastLost, mLastHealthSnapshotMs, mainDone>>
    BY <1>4 DEF Test
  <2>2. \A s \in Threads : pc'[s] # "idle" => pc[s] # "idle" /\ nowMs'[s] = nowMs[s]
    BY <1>4 DEF Test, Return
  <2>3. "main" \in Threads /\ "matter" \in Threads
    BY DEF Threads
  <2> QED
    BY <2>1, <2>2, <2>3
<1>5. ASSUME NEW t \in Threads, Stamp(t) PROVE Clocks'
  BY <1>5 DEF Stamp
<1>6. ASSUME NEW t \in Threads, SaveUptime(t) PROVE Clocks'
  BY <1>6 DEF SaveUptime
<1>7. ASSUME NEW t \in Threads, SaveRole(t) PROVE Clocks'
  BY <1>7 DEF SaveRole, Return
<1>8. CASE Tick
  BY <1>8 DEF Tick
<1>9. CASE LoseWork
  <2>1. /\ due <= uptime /\ due' = due + PollPeriod /\ lastLost' = uptime
        /\ UNCHANGED <<uptime, mainDone, pc, nowMs, mLastHealthSnapshotMs>>
    BY <1>9 DEF LoseWork
  <2> QED
    BY <2>1
<1>10. CASE EraseRecord
  BY <1>10 DEF EraseRecord
<1>11. CASE UNCHANGED snapshotVars
  BY <1>11 DEF snapshotVars
<1> QED
  BY <1>1, <1>2, <1>3, <1>4, <1>5, <1>6, <1>7, <1>8, <1>9, <1>10, <1>11
     DEF SnapshotNext, MaybeLogAndPersistHealthSnapshot

-----------------------------------------------------------------------------
(* What each step does to the thread that takes it and to the other.        *)
OthersStay(t) ==
  \A s \in Threads \ {t} : pc'[s] = pc[s] /\ nowMs'[s] = nowMs[s]

(* Entering the function reads the clock.                                   *)
LEMMA EnterEffect ==
  ASSUME SnapshotTypeOK, NEW t \in Threads, Enter(t)
  PROVE  pc[t] = "idle" /\ pc'[t] = "test" /\ nowMs'[t] = uptime /\ OthersStay(t)
BY DEF SnapshotTypeOK, Enter, OthersStay

(* The test of the stamp goes on to set it or returns; nothing is written. *)
LEMMA TestEffect ==
  ASSUME SnapshotTypeOK, NEW t \in Threads, Test(t)
  PROVE  /\ pc[t] = "test"
         /\ OthersStay(t)
         /\ \/ TooSoon(t) /\ pc'[t] = "idle"
            \/ ~TooSoon(t) /\ pc'[t] = "stamp" /\ nowMs'[t] = nowMs[t]
         /\ UNCHANGED <<uptime, timer, mainDone, mLastHealthSnapshotMs, savedUptime,
                        savedRoleAt, snapshots, saveFailed>>
BY DEF SnapshotTypeOK, Test, Return, OthersStay, record

(* Setting the stamp counts a snapshot and leaves flash as it is.           *)
LEMMA StampEffect ==
  ASSUME SnapshotTypeOK, NEW t \in Threads, Stamp(t)
  PROVE  /\ pc[t] = "stamp" /\ pc'[t] = "uptime" /\ nowMs'[t] = nowMs[t]
         /\ OthersStay(t)
         /\ mLastHealthSnapshotMs' = nowMs[t]
         /\ snapshots' = snapshots + 1
         /\ UNCHANGED <<uptime, timer, mainDone, savedUptime, savedRoleAt, saveFailed>>
BY DEF SnapshotTypeOK, Stamp, OthersStay, record

(* The first save writes the time of the call, or fails and says so.        *)
LEMMA SaveUptimeEffect ==
  ASSUME SnapshotTypeOK, NEW t \in Threads, SaveUptime(t)
  PROVE  /\ pc[t] = "uptime" /\ pc'[t] = "role" /\ nowMs'[t] = nowMs[t]
         /\ OthersStay(t)
         /\ ~saveFailed' => ~saveFailed /\ savedUptime' = nowMs[t]
         /\ UNCHANGED <<uptime, timer, mainDone, mLastHealthSnapshotMs, savedRoleAt, snapshots>>
<1>1. /\ pc[t] = "uptime" /\ pc'[t] = "role" /\ nowMs'[t] = nowMs[t]
      /\ OthersStay(t)
      /\ UNCHANGED <<uptime, timer, mainDone, mLastHealthSnapshotMs, savedRoleAt, snapshots>>
  BY DEF SnapshotTypeOK, SaveUptime, OthersStay
<1>2. ~saveFailed' => ~saveFailed /\ savedUptime' = nowMs[t]
  BY Zenon DEF SaveUptime
<1> QED
  BY <1>1, <1>2

(* The second save writes the role as it is read now, or fails.             *)
LEMMA SaveRoleEffect ==
  ASSUME SnapshotTypeOK, NEW t \in Threads, SaveRole(t)
  PROVE  /\ pc[t] = "role" /\ pc'[t] = "idle"
         /\ OthersStay(t)
         /\ ~saveFailed' => ~saveFailed /\ savedRoleAt' = uptime
         /\ UNCHANGED <<uptime, timer, mainDone, mLastHealthSnapshotMs, savedUptime, snapshots>>
<1>1. /\ pc[t] = "role" /\ pc'[t] = "idle"
      /\ OthersStay(t)
      /\ UNCHANGED <<uptime, timer, mainDone, mLastHealthSnapshotMs, savedUptime, snapshots>>
  BY DEF SnapshotTypeOK, SaveRole, Return, OthersStay
<1>2. ~saveFailed' => ~saveFailed /\ savedRoleAt' = uptime
  BY Zenon DEF SaveRole
<1> QED
  BY <1>1, <1>2

(* The three ways into the function, and the steps that leave it alone.     *)
LEMMA CallEffect ==
  ASSUME SnapshotTypeOK, MainCalls \/ WorkItemCalls \/ SensorWorkItemCalls
  PROVE  /\ UNCHANGED <<uptime, lastLost, mLastHealthSnapshotMs, savedUptime, savedRoleAt,
                        snapshots, saveFailed>>
         /\ \/ Enter("main") /\ ~mainDone /\ mainDone' /\ due' = due
            \/ Enter("matter") /\ mainDone' = mainDone /\ due' \in {due, due + PollPeriod}
BY DEF MainCalls, WorkItemCalls, SensorWorkItemCalls, record, timer

(* The clock ticks, a work item is lost, or nothing happens: no call moves. *)
Quiet == Tick \/ LoseWork \/ UNCHANGED snapshotVars

LEMMA QuietEffect ==
  ASSUME Quiet
  PROVE  UNCHANGED <<mainDone, pc, nowMs, mLastHealthSnapshotMs, savedUptime,
                     savedRoleAt, snapshots, saveFailed>>
BY DEF Quiet, Tick, LoseWork, snapshotVars, record, calls

(* Only a lost work item moves the timer in between, and it moves it on     *)
(* from the moment it is lost.                                              *)
LEMMA QuietTimer ==
  ASSUME SnapshotTypeOK, Clocks, Quiet
  PROVE  \/ UNCHANGED <<due, lastLost>>
         \/ due' = due + PollPeriod /\ due <= uptime /\ lastLost' = uptime
BY DEF Quiet, Tick, LoseWork, snapshotVars, timer, SnapshotTypeOK

(* An erase takes the record and nothing else, and is remembered.           *)
LEMMA EraseRecordEffect ==
  ASSUME EraseRecord
  PROVE  /\ saveFailed'
         /\ UNCHANGED <<uptime, due, lastLost, mainDone, pc, nowMs, mLastHealthSnapshotMs,
                        snapshots>>
BY DEF EraseRecord, timer, calls

(* What a step other than a reset can be.                                  *)
LEMMA StepCases ==
  ASSUME [SnapshotNext]_snapshotVars, ~ResetNode
  PROVE  \/ MainCalls \/ WorkItemCalls \/ SensorWorkItemCalls
         \/ \E t \in Threads : Test(t)
         \/ \E t \in Threads : Stamp(t)
         \/ \E t \in Threads : SaveUptime(t)
         \/ \E t \in Threads : SaveRole(t)
         \/ EraseRecord
         \/ Quiet
BY DEF SnapshotNext, MaybeLogAndPersistHealthSnapshot, Quiet

-----------------------------------------------------------------------------
(* The stamp belongs to a call, its own or one a call older.                *)
LEMMA StampedStep ==
  ASSUME SnapshotTypeOK, SnapshotTypeOK', Clocks, Stamped,
         [SnapshotNext]_snapshotVars, ~ResetNode
  PROVE  Stamped'
<1> USE SnapshotAssumption, TwoThreads
    DEF SnapshotTypeOK, Clocks, Stamped, MainOwes, Writing, OthersStay
<1>0. "main" \in Threads /\ "matter" \in Threads
  BY DEF Threads
<1>1. CASE MainCalls \/ WorkItemCalls \/ SensorWorkItemCalls
  BY <1>0, <1>1, CallEffect, EnterEffect
<1>2. ASSUME NEW t \in Threads, Test(t) PROVE Stamped'
  BY <1>0, <1>2, TestEffect
<1>3. ASSUME NEW t \in Threads, Stamp(t) PROVE Stamped'
  BY <1>0, <1>3, StampEffect
<1>4. ASSUME NEW t \in Threads, SaveUptime(t) PROVE Stamped'
  BY <1>0, <1>4, SaveUptimeEffect
<1>5. ASSUME NEW t \in Threads, SaveRole(t) PROVE Stamped'
  BY <1>0, <1>5, SaveRoleEffect
<1>6. CASE Quiet
  BY <1>6, QuietEffect
<1>7. CASE EraseRecord
  BY <1>7, EraseRecordEffect
<1> QED
  BY <1>1, <1>2, <1>3, <1>4, <1>5, <1>6, <1>7, StepCases

(* The saved role belongs to the saved uptime.                              *)
LEMMA CoherentStep ==
  ASSUME SnapshotTypeOK, SnapshotTypeOK', Clocks, Clocks', RoleFollows,
         [SnapshotNext]_snapshotVars, ~ResetNode, ~saveFailed'
  PROVE  RoleFollows'
<1>0. "main" \in Threads /\ "matter" \in Threads
  BY DEF Threads
<1>t. /\ uptime \in Nat /\ savedUptime \in Nat /\ savedRoleAt \in Nat /\ snapshots \in Nat
      /\ WriteTime \in Nat
      /\ \A s \in Threads : nowMs[s] \in Nat
  BY SnapshotAssumption DEF SnapshotTypeOK
<1> USE DEF RoleFollows, OthersStay
<1>1. CASE MainCalls \/ WorkItemCalls \/ SensorWorkItemCalls
  <2>1. ASSUME NEW t \in Threads, Enter(t) PROVE RoleFollows'
    BY <1>0, <1>1, <1>t, <2>1, CallEffect, EnterEffect
  <2> QED
    BY <1>0, <1>1, <2>1, CallEffect
<1>2. ASSUME NEW t \in Threads, Test(t) PROVE RoleFollows'
  BY <1>2, <1>t, TestEffect
<1>3. ASSUME NEW t \in Threads, Stamp(t) PROVE RoleFollows'
  BY <1>3, <1>t, StampEffect
<1>4. ASSUME NEW t \in Threads, SaveUptime(t) PROVE RoleFollows'
  <2>1. /\ pc[t] = "uptime" /\ pc'[t] = "role" /\ nowMs'[t] = nowMs[t]
        /\ OthersStay(t)
        /\ savedUptime' = nowMs[t]
        /\ UNCHANGED uptime
    BY <1>4, SaveUptimeEffect
  <2>2. \A s \in Threads : pc'[s] = "role" => nowMs'[s] <= nowMs[t] + WriteTime
    BY <1>t, <2>1 DEF Clocks
  <2>3. nowMs[t] <= uptime
    BY <2>1 DEF Clocks
  <2> QED
    BY <1>t, <2>1, <2>2, <2>3
<1>5. ASSUME NEW t \in Threads, SaveRole(t) PROVE RoleFollows'
  <2>1. /\ pc[t] = "role" /\ pc'[t] = "idle"
        /\ OthersStay(t)
        /\ savedRoleAt' = uptime
        /\ UNCHANGED <<uptime, savedUptime>>
    BY <1>5, SaveRoleEffect
  <2>2. nowMs[t] <= savedUptime + WriteTime /\ savedUptime <= uptime
    BY <2>1
  <2>3. uptime <= savedUptime + 2 * WriteTime
    BY <1>t, <2>1, <2>2 DEF Clocks
  <2> QED
    BY <1>t, <2>1, <2>2, <2>3
<1>6. CASE Quiet
  <2>1. uptime <= uptime' /\ uptime' \in Nat
    BY <1>6, <1>t DEF Quiet, Tick, LoseWork, snapshotVars
  <2> QED
    BY <1>6, <1>t, <2>1, QuietEffect
<1>7. ~EraseRecord
  BY EraseRecordEffect
<1> QED
  BY <1>1, <1>2, <1>3, <1>4, <1>5, <1>6, <1>7, StepCases

-----------------------------------------------------------------------------
(* A call that passes the test finds no call between its stamp and its      *)
(* return in the other thread: that one stamped too recently.               *)
LEMMA PassesAlone ==
  ASSUME SnapshotTypeOK, Clocks, Stamped, NEW t \in Threads, pc[t] = "test", ~TooSoon(t)
  PROVE  \A s \in Threads : pc[s] \notin {"uptime", "role"}
<1> SUFFICES ASSUME NEW s \in Threads, pc[s] \in {"uptime", "role"} PROVE FALSE
  OBVIOUS
<1>1. /\ uptime \in Nat /\ nowMs[s] \in Nat /\ nowMs[t] \in Nat
      /\ mLastHealthSnapshotMs \in Nat
      /\ WriteTime \in Nat /\ Interval \in Nat
  BY SnapshotAssumption DEF SnapshotTypeOK
<1>2. mLastHealthSnapshotMs # 0 /\ nowMs[s] <= mLastHealthSnapshotMs + WriteTime
  BY DEF Stamped
<1>3. nowMs[t] <= uptime /\ uptime <= nowMs[s] + WriteTime
  BY DEF Clocks
<1>4. nowMs[t] - mLastHealthSnapshotMs < Interval
  BY <1>1, <1>2, <1>3, WritesAreShort
<1> QED
  BY <1>2, <1>4 DEF TooSoon

(* Products with the number of stamps, for the solver of linear arithmetic. *)
LEMMA OneMoreInterval ==
  ASSUME NEW n \in Int, NEW i \in Int
  PROVE  n * i \in Int /\ (n + 1) * i = n * i + i /\ (n - 1) * i = n * i - i
OBVIOUS

(* The Matter thread's snapshots keep their distance.                       *)
LEMMA SpacedStep ==
  ASSUME SnapshotTypeOK, SnapshotTypeOK', Clocks, Stamped, Spaced,
         [SnapshotNext]_snapshotVars, ~ResetNode
  PROVE  Spaced'
<1>0. "main" \in Threads /\ "matter" \in Threads
  BY DEF Threads
<1>t. /\ uptime \in Nat /\ snapshots \in Nat /\ mLastHealthSnapshotMs \in Nat
      /\ WriteTime \in Nat /\ Interval \in Nat
      /\ MatterStamps \in Int
      /\ \A s \in Threads : nowMs[s] \in Nat
  BY SnapshotAssumption DEF SnapshotTypeOK, MatterStamps
<1>m. /\ MatterStamps * Interval \in Int
      /\ (MatterStamps + 1) * Interval = MatterStamps * Interval + Interval
      /\ (MatterStamps - 1) * Interval = MatterStamps * Interval - Interval
  BY <1>t, OneMoreInterval
<1>z. mLastHealthSnapshotMs = 0 => MatterStamps * Interval <= 0
  <2>1. mLastHealthSnapshotMs = 0 => MatterStamps = 0 \/ MatterStamps = -1
    BY <1>t DEF Stamped, MatterStamps
  <2> QED
    BY <1>t, <2>1
<1> USE DEF Spaced, OthersStay
<1>1. CASE MainCalls \/ WorkItemCalls \/ SensorWorkItemCalls
  <2>1. CASE Enter("main") /\ ~mainDone
    <3>1. MainOwes /\ MainOwes'
      BY <1>0, <2>1, EnterEffect DEF MainOwes
    <3>2. MatterStamps' = MatterStamps
      BY <1>1, <3>1, CallEffect DEF MatterStamps
    <3> QED
      BY <1>0, <1>1, <2>1, <3>2, CallEffect, EnterEffect
  <2>2. CASE Enter("matter") /\ mainDone' = mainDone
    <3>1. MainOwes' = MainOwes
      BY <1>0, <2>2, EnterEffect DEF MainOwes
    <3>2. MatterStamps' = MatterStamps
      BY <1>1, <3>1, CallEffect DEF MatterStamps
    <3> QED
      BY <1>0, <1>1, <2>2, <3>2, CallEffect, EnterEffect
  <2> QED
    BY <1>1, <2>1, <2>2, CallEffect
<1>2. ASSUME NEW t \in Threads, Test(t) PROVE Spaced'
  <2>1. pc[t] = "test" /\ OthersStay(t) /\ UNCHANGED <<mLastHealthSnapshotMs, snapshots, mainDone>>
    BY <1>2, TestEffect
  <2>2. CASE TooSoon(t) /\ pc'[t] = "idle"
    <3>1. MatterStamps' \in {MatterStamps, MatterStamps - 1}
      <4>1. MainOwes' => MainOwes
        BY <1>0, <2>1, <2>2, TwoThreads DEF MainOwes
      <4> QED
        BY <1>t, <2>1, <4>1 DEF MatterStamps
    <3>2. MatterStamps' * Interval \in Int /\ MatterStamps' * Interval <= MatterStamps * Interval
      <4>1. CASE MatterStamps' = MatterStamps
        BY <1>m, <4>1
      <4>2. CASE MatterStamps' = MatterStamps - 1
        <5>1. MatterStamps' * Interval = MatterStamps * Interval - Interval
          BY <1>m, <4>2, Zenon
        <5> QED
          BY <1>t, <1>m, <5>1
      <4> QED
        BY <3>1, <4>1, <4>2
    <3>3. MatterStamps' = MatterStamps \/ t = "main"
      <4>1. t = "matter" => MainOwes' = MainOwes
        BY <1>0, <2>1, <2>2 DEF MainOwes
      <4> QED
        BY <2>1, <4>1, TwoThreads DEF MatterStamps
    <3>4. pc'["main"] = "stamp" => MatterStamps' = MatterStamps
      BY <2>2, <3>3
    <3> QED
      BY <1>0, <1>t, <1>m, <2>1, <2>2, <3>2, <3>4
  <2>3. CASE ~TooSoon(t) /\ pc'[t] = "stamp" /\ nowMs'[t] = nowMs[t]
    <3>1. MatterStamps' = MatterStamps
      <4>1. MainOwes' = MainOwes
        BY <1>0, <2>1, <2>3, TwoThreads DEF MainOwes
      <4> QED
        BY <2>1, <4>1 DEF MatterStamps
    <3>2. mLastHealthSnapshotMs = 0 \/ mLastHealthSnapshotMs + Interval <= nowMs[t]
      BY <1>t, <2>3 DEF TooSoon
    <3>3. 1 <= nowMs[t]
      BY <2>1 DEF Clocks
    <3>4. CASE t = "main"
      BY <1>0, <1>t, <2>1, <2>3, <3>1, <3>2, <3>4
    <3>5. CASE t = "matter"
      <4>1. 1 + MatterStamps * Interval <= nowMs["matter"]
        BY <1>t, <1>m, <1>z, <3>2, <3>3, <3>5
      <4>2. pc["main"] = "stamp" =>
              mLastHealthSnapshotMs = 0 \/ mLastHealthSnapshotMs + Interval <= nowMs["main"]
        <5>1. SUFFICES ASSUME pc["main"] = "stamp", mLastHealthSnapshotMs # 0,
                              nowMs["main"] <= mLastHealthSnapshotMs + WriteTime
                       PROVE  FALSE
          OBVIOUS
        <5>2. nowMs["matter"] <= uptime /\ uptime <= nowMs["main"] + WriteTime
          BY <1>0, <2>1, <3>5, <5>1 DEF Clocks
        <5> QED
          BY <1>0, <1>t, <3>2, <3>5, <5>1, <5>2, WritesAreShort
      <4> QED
        BY <1>0, <1>t, <2>1, <2>3, <3>1, <3>5, <4>1, <4>2
    <3> QED
      BY <3>4, <3>5, TwoThreads
  <2> QED
    BY <1>2, <2>2, <2>3, TestEffect
<1>3. ASSUME NEW t \in Threads, Stamp(t) PROVE Spaced'
  <2>1. /\ pc[t] = "stamp" /\ pc'[t] = "uptime" /\ OthersStay(t)
        /\ mLastHealthSnapshotMs' = nowMs[t]
        /\ snapshots' = snapshots + 1
        /\ UNCHANGED mainDone
    BY <1>3, StampEffect
  <2>2. 1 <= nowMs[t] /\ nowMs[t] <= uptime
    BY <2>1 DEF Clocks
  <2>3. CASE t = "main"
    <3>1. MatterStamps' = MatterStamps
      <4>1. MainOwes /\ ~MainOwes'
        BY <2>1, <2>3 DEF MainOwes, Clocks
      <4> QED
        BY <1>t, <2>1, <4>1 DEF MatterStamps
    <3>2. 1 + MatterStamps * Interval <= nowMs["main"] + Interval
      BY <1>0, <1>t, <1>m, <1>z, <2>1, <2>2, <2>3
    <3> QED
      BY <1>0, <2>1, <2>3, <3>1, <3>2
  <2>4. CASE t = "matter"
    <3>1. MatterStamps' = MatterStamps + 1
      <4>1. MainOwes' = MainOwes
        BY <1>0, <2>1, <2>4 DEF MainOwes
      <4> QED
        BY <1>t, <2>1, <4>1 DEF MatterStamps
    <3>2. 1 + MatterStamps * Interval <= nowMs["matter"]
      BY <2>1, <2>4
    <3>3. pc["main"] = "stamp" =>
            /\ 1 + (MatterStamps + 1) * Interval <= nowMs["main"] + Interval
            /\ nowMs["main"] <= nowMs["matter"] + WriteTime
      <4>1. SUFFICES ASSUME pc["main"] = "stamp"
                     PROVE  /\ 1 + MatterStamps * Interval <= nowMs["main"]
                            /\ nowMs["main"] <= nowMs["matter"] + WriteTime
        BY <1>0, <1>t, <1>m
      <4>2. 1 <= nowMs["main"] /\ nowMs["main"] <= uptime /\ uptime <= nowMs["matter"] + WriteTime
        BY <1>0, <2>1, <2>4, <4>1 DEF Clocks
      <4>3. mLastHealthSnapshotMs = 0 \/ mLastHealthSnapshotMs + Interval <= nowMs["main"]
        BY <2>1, <2>4, <4>1
      <4> QED
        BY <1>0, <1>t, <1>m, <1>z, <4>2, <4>3
    <3> QED
      BY <1>0, <1>t, <1>m, <2>1, <2>2, <2>4, <3>1, <3>2, <3>3
  <2> QED
    BY <2>3, <2>4, TwoThreads
<1>4. ASSUME NEW t \in Threads, SaveUptime(t) \/ SaveRole(t) PROVE Spaced'
  <2>1. /\ pc[t] \in {"uptime", "role"} /\ pc'[t] \in {"role", "idle"} /\ OthersStay(t)
        /\ UNCHANGED <<mLastHealthSnapshotMs, snapshots, mainDone>>
    BY <1>4, SaveUptimeEffect, SaveRoleEffect
  <2>2. MatterStamps' = MatterStamps
    <3>1. MainOwes' = MainOwes
      BY <1>0, <2>1, TwoThreads DEF MainOwes
    <3> QED
      BY <2>1, <3>1 DEF MatterStamps
  <2> QED
    BY <1>0, <2>1, <2>2, TwoThreads
<1>5. CASE Quiet
  <2>1. MatterStamps' = MatterStamps
    BY <1>5, QuietEffect DEF MatterStamps, MainOwes
  <2> QED
    BY <1>5, <2>1, QuietEffect
<1>6. CASE EraseRecord
  <2>1. MatterStamps' = MatterStamps
    BY <1>6, EraseRecordEffect DEF MatterStamps, MainOwes
  <2> QED
    BY <1>6, <2>1, EraseRecordEffect
<1> QED
  BY <1>1, <1>2, <1>3, <1>4, <1>5, <1>6, StepCases

-----------------------------------------------------------------------------
(* Every poll finds a recent stamp or leaves one.                           *)
LEMMA PolledStep ==
  ASSUME SnapshotTypeOK, SnapshotTypeOK', Clocks, Clocks', Stamped, Stamped', Polled,
         [SnapshotNext]_snapshotVars, ~ResetNode
  PROVE  Polled'
<1>0. "main" \in Threads /\ "matter" \in Threads
  BY DEF Threads
<1>t. /\ uptime \in Nat /\ due \in Nat /\ lastLost \in Nat /\ mLastHealthSnapshotMs \in Nat
      /\ WriteTime \in Nat /\ Interval \in Nat /\ PollPeriod \in Nat /\ Latency \in Nat
      /\ nowMs["main"] \in Nat /\ nowMs["matter"] \in Nat
      /\ WriteTime < Interval
  BY <1>0, SnapshotAssumption, WritesAreShort DEF SnapshotTypeOK
<1> USE DEF Polled, OthersStay
<1>1. CASE MainCalls \/ WorkItemCalls \/ SensorWorkItemCalls
  <2>1. CASE Enter("main") /\ due' = due
    BY <1>0, <1>1, <2>1, CallEffect, EnterEffect
  <2>2. CASE Enter("matter")
    <3>1. pc["matter"] = "idle" /\ pc'["matter"] = "test" /\ nowMs'["matter"] = uptime
      BY <1>0, <2>2, EnterEffect
    <3>2. uptime <= due + Latency
      BY DEF Clocks
    <3> QED
      BY <1>1, <1>t, <3>1, <3>2, CallEffect
  <2> QED
    BY <1>1, <2>1, <2>2, CallEffect
<1>2. ASSUME NEW t \in Threads, Test(t) PROVE Polled'
  <2>1. /\ pc[t] = "test" /\ OthersStay(t) /\ UNCHANGED <<mLastHealthSnapshotMs, due, lastLost>>
        /\ \/ TooSoon(t) /\ pc'[t] = "idle"
           \/ pc'[t] = "stamp" /\ nowMs'[t] = nowMs[t]
    BY <1>2, TestEffect DEF timer
  <2>2. CASE t = "main"
    BY <1>0, <2>1, <2>2
  <2>3. CASE t = "matter"
    <3>1. due <= nowMs["matter"] + PollPeriod \/ due <= lastLost + PollPeriod
      BY <2>1, <2>3 DEF Clocks
    <3>2. TooSoon(t) =>
            \/ due <= lastLost + PollPeriod
            \/ /\ mLastHealthSnapshotMs # 0
               /\ due < mLastHealthSnapshotMs + PollPeriod + Interval
      BY <1>t, <2>3, <3>1 DEF TooSoon
    <3> QED
      BY <2>1, <2>3, <3>2
  <2> QED
    BY <2>2, <2>3, TwoThreads
<1>3. ASSUME NEW t \in Threads, Stamp(t) PROVE Polled'
  <2>1. /\ pc[t] = "stamp" /\ pc'[t] = "uptime" /\ OthersStay(t)
        /\ mLastHealthSnapshotMs' = nowMs[t]
        /\ UNCHANGED <<due, lastLost>>
    BY <1>3, StampEffect DEF timer
  <2>2. 1 <= nowMs[t] /\ uptime <= nowMs[t] + WriteTime
    BY <2>1 DEF Clocks
  <2>3. CASE t = "matter"
    BY <2>1, <2>3
  <2>4. CASE t = "main"
    <3>1. due <= uptime + PollPeriod
      BY DEF Clocks
    <3>2. pc["matter"] # "idle" => nowMs["matter"] <= uptime
      BY <1>0 DEF Clocks
    <3> QED
      BY <1>0, <1>t, <2>1, <2>2, <2>4, <3>1, <3>2
  <2> QED
    BY <2>3, <2>4, TwoThreads
<1>4. ASSUME NEW t \in Threads, SaveUptime(t) PROVE Polled'
  <2>1. /\ pc[t] = "uptime" /\ pc'[t] = "role" /\ OthersStay(t)
        /\ UNCHANGED <<mLastHealthSnapshotMs, due, lastLost>>
    BY <1>4, SaveUptimeEffect DEF timer
  <2> QED
    BY <1>0, <2>1, TwoThreads
<1>5. ASSUME NEW t \in Threads, SaveRole(t) PROVE Polled'
  <2>1. /\ pc[t] = "role" /\ pc'[t] = "idle" /\ OthersStay(t)
        /\ UNCHANGED <<mLastHealthSnapshotMs, due, lastLost>>
    BY <1>5, SaveRoleEffect DEF timer
  <2>2. CASE t = "main"
    BY <1>0, <2>1, <2>2
  <2>3. CASE t = "matter"
    <3>1. due <= nowMs["matter"] + PollPeriod \/ due <= lastLost + PollPeriod
      BY <2>1, <2>3 DEF Clocks
    <3>2. /\ mLastHealthSnapshotMs # 0
          /\ nowMs["matter"] <= mLastHealthSnapshotMs + WriteTime
      BY <2>1, <2>3, <1>0 DEF Stamped
    <3> QED
      BY <1>t, <2>1, <2>3, <3>1, <3>2
  <2> QED
    BY <2>2, <2>3, TwoThreads
<1>6. CASE Quiet
  <2>1. \/ UNCHANGED <<due, lastLost>>
        \/ due' = due + PollPeriod /\ due <= uptime /\ lastLost' = uptime
    BY <1>6, QuietTimer
  <2>2. lastLost <= uptime
    BY DEF Clocks
  <2> QED
    BY <1>6, <1>t, <2>1, <2>2, QuietEffect
<1>7. CASE EraseRecord
  BY <1>7, EraseRecordEffect
<1> QED
  BY <1>1, <1>2, <1>3, <1>4, <1>5, <1>6, <1>7, StepCases

-----------------------------------------------------------------------------
(* A call that passes the test finds a record in flash that is at most an   *)
(* interval, a late poll and a call old, unless the node is younger.        *)
LEMMA PassesRecent ==
  ASSUME SnapshotTypeOK, Clocks, Stamped, Polled, UptimeFollows,
         NEW t \in Threads, pc[t] = "test", ~TooSoon(t),
         nowMs[t] > lastLost + PollPeriod + Latency + WriteTime
  PROVE  /\ mLastHealthSnapshotMs # 0
         /\ savedUptime <= uptime
         /\ nowMs[t] <= savedUptime + Interval + PollPeriod + Latency + WriteTime
<1>0. "main" \in Threads /\ "matter" \in Threads
  BY DEF Threads
<1>t. /\ uptime \in Nat /\ due \in Nat /\ lastLost \in Nat /\ mLastHealthSnapshotMs \in Nat
      /\ savedUptime \in Nat
      /\ WriteTime \in Nat /\ Interval \in Nat /\ PollPeriod \in Nat /\ Latency \in Nat
      /\ nowMs[t] \in Nat /\ nowMs["matter"] \in Nat
  BY <1>0, SnapshotAssumption DEF SnapshotTypeOK
<1>1. \A s \in Threads : pc[s] \notin {"uptime", "role"}
  BY PassesAlone
<1>2. pc["matter"] \in {"idle", "test", "stamp"}
  BY <1>0, <1>1 DEF SnapshotTypeOK
<1>3. nowMs[t] <= uptime /\ uptime <= due + Latency
  BY DEF Clocks
<1>4. pc["matter"] # "idle" => uptime <= nowMs["matter"] + WriteTime
  BY <1>0 DEF Clocks
<1>5. mLastHealthSnapshotMs # 0
  BY <1>2, <1>3, <1>4, <1>t DEF Polled
<1>6. /\ savedUptime <= uptime
      /\ mLastHealthSnapshotMs <= savedUptime + WriteTime
      /\ MainOwes => mLastHealthSnapshotMs <= savedUptime
  BY <1>1, <1>5 DEF UptimeFollows, Writing
<1>7. CASE t = "matter"
  BY <1>5, <1>6, <1>7, <1>t DEF Polled
<1>8. CASE t = "main"
  <2>1. mLastHealthSnapshotMs <= savedUptime
    BY <1>6, <1>8 DEF MainOwes
  <2>2. CASE pc["matter"] = "idle"
    BY <1>3, <1>5, <1>6, <1>8, <1>t, <2>1, <2>2 DEF Polled
  <2>3. CASE pc["matter"] \in {"test", "stamp"}
    BY <1>3, <1>4, <1>5, <1>6, <1>8, <1>t, <2>1, <2>3 DEF Polled
  <2> QED
    BY <1>2, <2>2, <2>3
<1> QED
  BY <1>7, <1>8, TwoThreads

(* The saved uptime follows the stamp, as long as no write fails.           *)
LEMMA RecentStep ==
  ASSUME SnapshotTypeOK, SnapshotTypeOK', Clocks, Clocks', Stamped, Stamped', Polled,
         UptimeFollows, [SnapshotNext]_snapshotVars, ~ResetNode, ~saveFailed'
  PROVE  UptimeFollows'
<1>0. "main" \in Threads /\ "matter" \in Threads
  BY DEF Threads
<1>t. /\ uptime \in Nat /\ lastLost \in Nat /\ mLastHealthSnapshotMs \in Nat /\ savedUptime \in Nat
      /\ WriteTime \in Nat /\ Interval \in Nat /\ PollPeriod \in Nat /\ Latency \in Nat
      /\ \A s \in Threads : nowMs[s] \in Nat
  BY SnapshotAssumption DEF SnapshotTypeOK
<1> USE DEF UptimeFollows, Writing, OthersStay
<1>1. CASE MainCalls \/ WorkItemCalls \/ SensorWorkItemCalls
  <2>1. ASSUME NEW t \in Threads, Enter(t),
               \/ t = "main" /\ ~mainDone
               \/ t = "matter" /\ mainDone' = mainDone
        PROVE  UptimeFollows'
    <3>1. pc[t] = "idle" /\ pc'[t] = "test" /\ OthersStay(t)
      BY <2>1, EnterEffect
    <3>2. MainOwes' => MainOwes
      BY <1>0, <2>1, <3>1, TwoThreads DEF MainOwes
    <3>3. UNCHANGED <<uptime, lastLost, mLastHealthSnapshotMs, savedUptime>>
      BY <1>1, CallEffect
    <3> QED
      BY <3>1, <3>2, <3>3
  <2> QED
    BY <1>0, <1>1, <2>1, CallEffect
<1>2. ASSUME NEW t \in Threads, Test(t) PROVE UptimeFollows'
  <2>1. /\ pc[t] = "test" /\ OthersStay(t)
        /\ UNCHANGED <<uptime, lastLost, mainDone, mLastHealthSnapshotMs, savedUptime>>
    BY <1>2, TestEffect DEF timer
  <2>2. CASE TooSoon(t) /\ pc'[t] = "idle"
    <3>1. MainOwes' => MainOwes
      BY <1>0, <2>1, <2>2, TwoThreads DEF MainOwes
    <3> QED
      BY <2>1, <2>2, <3>1
  <2>3. CASE ~TooSoon(t) /\ pc'[t] = "stamp" /\ nowMs'[t] = nowMs[t]
    <3>1. MainOwes' => MainOwes
      BY <1>0, <2>1, <2>3, TwoThreads DEF MainOwes
    <3>2. nowMs[t] > lastLost + PollPeriod + Latency + WriteTime =>
            /\ mLastHealthSnapshotMs # 0
            /\ savedUptime <= uptime
            /\ nowMs[t] <= savedUptime + Interval + PollPeriod + Latency + WriteTime
      BY <2>1, <2>3, PassesRecent
    <3> QED
      BY <2>1, <2>3, <3>1, <3>2
  <2> QED
    BY <1>2, <2>2, <2>3, TestEffect
<1>3. ASSUME NEW t \in Threads, Stamp(t) PROVE UptimeFollows'
  <2>1. /\ pc[t] = "stamp" /\ pc'[t] = "uptime" /\ nowMs'[t] = nowMs[t] /\ OthersStay(t)
        /\ mLastHealthSnapshotMs' = nowMs[t]
        /\ UNCHANGED <<uptime, lastLost, savedUptime>>
    BY <1>3, StampEffect DEF timer
  <2>2. nowMs[t] # 0
    BY <1>t, <2>1 DEF Clocks
  <2> QED
    BY <2>1, <2>2
<1>4. ASSUME NEW t \in Threads, SaveUptime(t) PROVE UptimeFollows'
  <2>1. /\ pc[t] = "uptime" /\ pc'[t] = "role" /\ nowMs'[t] = nowMs[t] /\ OthersStay(t)
        /\ savedUptime' = nowMs[t]
        /\ UNCHANGED <<uptime, lastLost, mainDone, mLastHealthSnapshotMs>>
    BY <1>4, SaveUptimeEffect DEF timer
  <2>2. nowMs[t] <= uptime /\ uptime <= nowMs[t] + WriteTime
    BY <2>1 DEF Clocks
  <2>3. mLastHealthSnapshotMs # 0 /\ mLastHealthSnapshotMs <= uptime
    BY <2>1 DEF Stamped, Clocks
  <2>4. MainOwes' => MainOwes /\ t = "matter"
    BY <1>0, <2>1, TwoThreads DEF MainOwes, Clocks
  <2>5. MainOwes' => mLastHealthSnapshotMs = nowMs[t]
    BY <2>1, <2>4 DEF Stamped
  <2>6. \A s \in Threads : pc'[s] # "idle" => nowMs'[s] <= uptime
    BY <2>1 DEF Clocks
  <2>7. \A s \in Threads : pc'[s] \in {"stamp", "uptime"} =>
          nowMs'[s] <= nowMs[t] + Interval + PollPeriod + Latency + WriteTime
    BY <1>t, <2>1, <2>2, <2>6
  <2> QED
    BY <1>t, <2>1, <2>2, <2>3, <2>5, <2>7
<1>5. ASSUME NEW t \in Threads, SaveRole(t) PROVE UptimeFollows'
  <2>1. /\ pc[t] = "role" /\ pc'[t] = "idle" /\ OthersStay(t)
        /\ UNCHANGED <<uptime, lastLost, mainDone, mLastHealthSnapshotMs, savedUptime>>
    BY <1>5, SaveRoleEffect DEF timer
  <2>2. MainOwes' => MainOwes
    BY <1>0, <2>1, TwoThreads DEF MainOwes
  <2> QED
    BY <2>1, <2>2
<1>6. CASE Quiet
  <2>1. uptime <= uptime' /\ uptime' \in Nat
    BY <1>6, <1>t DEF Quiet, Tick, LoseWork, snapshotVars
  <2>4. lastLost <= lastLost' /\ lastLost' \in Nat
    BY <1>6, <1>t, QuietTimer DEF Clocks
  <2>2. MainOwes' = MainOwes
    BY <1>6, QuietEffect DEF MainOwes
  <2>3. UNCHANGED <<pc, nowMs, mLastHealthSnapshotMs, savedUptime>>
    BY <1>6, QuietEffect
  <2> QED
    BY <1>t, <2>1, <2>2, <2>3, <2>4
<1>7. ~EraseRecord
  BY EraseRecordEffect
<1> QED
  BY <1>1, <1>2, <1>3, <1>4, <1>5, <1>6, <1>7, StepCases

-----------------------------------------------------------------------------
(* A step keeps the result of a failed write until the next reset.          *)
LEMMA FailureStays ==
  ASSUME SnapshotTypeOK, [SnapshotNext]_snapshotVars, ~ResetNode, ~saveFailed'
  PROVE  ~saveFailed
<1>1. CASE MainCalls \/ WorkItemCalls \/ SensorWorkItemCalls
  BY <1>1, Zenon DEF MainCalls, WorkItemCalls, SensorWorkItemCalls
<1>2. ASSUME NEW t \in Threads, Test(t) \/ Stamp(t) PROVE ~saveFailed
  BY <1>2, Zenon DEF Test, Stamp
<1>3. ASSUME NEW t \in Threads, SaveUptime(t) \/ SaveRole(t) PROVE ~saveFailed
  BY <1>3, Zenon DEF SaveUptime, SaveRole
<1>4. CASE Quiet
  BY <1>4, Zenon DEF Quiet, Tick, LoseWork, snapshotVars
<1>5. ~EraseRecord
  BY EraseRecordEffect
<1> QED
  BY <1>1, <1>2, <1>3, <1>4, <1>5, StepCases

(* A node that has never run satisfies the invariant.                      *)
LEMMA InitSnapshotInv == SnapshotInit => SnapshotInv
<1> SUFFICES ASSUME SnapshotInit PROVE SnapshotInv
  OBVIOUS
<1>1. /\ \A t \in Threads : pc[t] = "idle"
      /\ pc["main"] = "idle" /\ pc["matter"] = "idle"
  BY DEF SnapshotInit, Threads
<1>2. /\ uptime = 1 /\ due = PollPeriod /\ lastLost = 0
      /\ mLastHealthSnapshotMs = 0 /\ snapshots = 0
  BY DEF SnapshotInit
<1>3. Clocks
  BY <1>1, <1>2, SnapshotAssumption DEF Clocks
<1>4. Stamped /\ Recent /\ Coherent
  BY <1>1, <1>2 DEF Stamped, Recent, UptimeFollows, Coherent, RoleFollows, Writing
<1>5. Spaced /\ Polled
  BY <1>1, <1>2, SnapshotAssumption DEF Spaced, Polled
<1> QED
  BY <1>3, <1>4, <1>5, InitSnapshotTypeOK DEF SnapshotInv

(* So does every node after any step, the parts resting on one another.    *)
LEMMA NextSnapshotInv == SnapshotInv /\ [SnapshotNext]_snapshotVars => SnapshotInv'
<1> SUFFICES ASSUME SnapshotInv, [SnapshotNext]_snapshotVars PROVE SnapshotInv'
  OBVIOUS
<1> USE DEF SnapshotInv
<1>1. SnapshotTypeOK'
  BY NextSnapshotTypeOK
<1>2. CASE ResetNode
  BY <1>1, <1>2, BootInv DEF ResetNode, Boot
<1>3. CASE ~ResetNode
  <2>1. Clocks'
    BY <1>1, <1>3, ClocksStep
  <2>2. Stamped'
    BY <1>1, <1>3, StampedStep
  <2>3. Spaced'
    BY <1>1, <1>3, SpacedStep
  <2>4. Polled'
    BY <1>1, <1>3, <2>1, <2>2, PolledStep
  <2>5. Recent'
    BY <1>1, <1>3, <2>1, <2>2, FailureStays, RecentStep DEF Recent
  <2>6. Coherent'
    BY <1>1, <1>3, <2>1, FailureStays, CoherentStep DEF Coherent
  <2> QED
    BY <1>1, <2>1, <2>2, <2>3, <2>4, <2>5, <2>6
<1> QED
  BY <1>2, <1>3

(* The invariant of every behaviour of MaybeLogAndPersistHealthSnapshot on  *)
(* two threads, whatever fails and whenever the node resets.                *)
THEOREM SnapshotInvariant == SnapshotSpec => []SnapshotInv
BY InitSnapshotInv, NextSnapshotInv, PTL DEF SnapshotSpec

(* Type correctness: no step leaves the program counters, times or roles.   *)
THEOREM SnapshotTypeCorrect == SnapshotSpec => []SnapshotTypeOK
<1>1. SnapshotInv => SnapshotTypeOK
  BY DEF SnapshotInv
<1> QED
  BY <1>1, SnapshotInvariant, PTL

(* Flash wear: the two threads together write one snapshot an interval, and *)
(* two more, although neither locks the stamp it tests and sets.            *)
THEOREM FlashSpared == SnapshotSpec => []SnapshotBudget
<1>1. SnapshotInv => SnapshotBudget
  <2> SUFFICES ASSUME SnapshotInv PROVE snapshots <= 2 + uptime \div Interval
    BY DEF SnapshotBudget
  <2>1. /\ uptime \in Nat /\ snapshots \in Nat /\ mLastHealthSnapshotMs \in Nat
        /\ Interval \in Nat /\ Interval > 0 /\ MatterStamps \in Int
        /\ uptime \div Interval \in Nat
    BY SnapshotAssumption DEF SnapshotInv, SnapshotTypeOK, MatterStamps
  <2>2. CASE mLastHealthSnapshotMs = 0
    BY <2>1, <2>2 DEF SnapshotInv, Stamped
  <2>3. CASE mLastHealthSnapshotMs # 0
    <3>1. 1 + MatterStamps * Interval <= mLastHealthSnapshotMs + Interval
      BY <2>3 DEF SnapshotInv, Spaced
    <3>2. mLastHealthSnapshotMs <= uptime
      BY DEF SnapshotInv, Clocks
    <3>3. (MatterStamps - 1) * Interval < uptime
      BY <2>1, <3>1, <3>2, OneMoreInterval
    <3>4. MatterStamps - 1 <= uptime \div Interval
      BY <2>1, <3>3
    <3>5. snapshots <= MatterStamps + 1
      BY <2>1 DEF MatterStamps
    <3> QED
      BY <2>1, <3>4, <3>5
  <2> QED
    BY <2>2, <2>3
<1> QED
  BY <1>1, SnapshotInvariant, PTL

(* Unless a write failed, a node that has lived longer than a late poll and *)
(* two calls, since its boot or since the last work item it lost, leaves an *)
(* uptime in flash that is no more than an interval and that much behind    *)
(* its last moment, whenever the reset comes.                               *)
THEOREM UptimeIsRecent == SnapshotSpec => []SavedUptimeRecent
<1>1. SnapshotInv => SavedUptimeRecent
  <2> SUFFICES ASSUME SnapshotInv PROVE SavedUptimeRecent
    OBVIOUS
  <2>n. /\ uptime \in Nat /\ lastLost \in Nat /\ savedUptime \in Nat
        /\ WriteTime \in Nat /\ Interval \in Nat /\ PollPeriod \in Nat /\ Latency \in Nat
    BY SnapshotAssumption DEF SnapshotInv, SnapshotTypeOK
  <2> SUFFICES ASSUME ~saveFailed,
                      uptime > lastLost + PollPeriod + Latency + 2 * WriteTime
               PROVE  /\ snapshots > 0
                      /\ savedUptime >= uptime
                           - (Interval + PollPeriod + Latency + 2 * WriteTime)
                      /\ savedUptime <= uptime
    BY <2>n DEF SavedUptimeRecent
  <2>0. "main" \in Threads /\ "matter" \in Threads
    BY DEF Threads
  <2>t. /\ uptime \in Nat /\ due \in Nat /\ lastLost \in Nat /\ mLastHealthSnapshotMs \in Nat
        /\ savedUptime \in Nat /\ snapshots \in Nat
        /\ WriteTime \in Nat /\ Interval \in Nat /\ PollPeriod \in Nat /\ Latency \in Nat
        /\ \A s \in Threads : nowMs[s] \in Nat
        /\ WriteTime < Interval
    BY SnapshotAssumption, WritesAreShort DEF SnapshotInv, SnapshotTypeOK
  <2>1. ASSUME NEW t \in Threads, Writing(t)
        PROVE  /\ mLastHealthSnapshotMs # 0
               /\ savedUptime <= uptime
               /\ uptime <= savedUptime + Interval + PollPeriod + Latency + 2 * WriteTime
    <3>1. uptime <= nowMs[t] + WriteTime
      BY <2>1 DEF SnapshotInv, Clocks, Writing
    <3>2. nowMs[t] > lastLost + PollPeriod + Latency + WriteTime
      BY <2>t, <3>1
    <3>3. /\ mLastHealthSnapshotMs # 0
          /\ savedUptime <= uptime
          /\ nowMs[t] <= savedUptime + Interval + PollPeriod + Latency + WriteTime
      BY <2>1, <3>2 DEF SnapshotInv, Recent, UptimeFollows, Writing
    <3> QED
      BY <2>t, <3>1, <3>3
  <2>2. ASSUME \A t \in Threads : ~Writing(t)
        PROVE  /\ mLastHealthSnapshotMs # 0
               /\ savedUptime <= uptime
               /\ uptime <= savedUptime + Interval + PollPeriod + Latency + 2 * WriteTime
    <3>1. pc["matter"] \in {"idle", "test", "stamp", "role"}
      BY <2>0, <2>2 DEF SnapshotInv, SnapshotTypeOK, Writing
    <3>2. /\ uptime <= due + Latency
          /\ pc["matter"] # "idle" => uptime <= nowMs["matter"] + WriteTime
      BY <2>0 DEF SnapshotInv, Clocks
    <3>3. /\ mLastHealthSnapshotMs # 0
          /\ uptime <= mLastHealthSnapshotMs + Interval + PollPeriod + Latency + WriteTime
      <4>1. CASE pc["matter"] = "idle"
        BY <2>t, <3>2, <4>1 DEF SnapshotInv, Polled
      <4>2. CASE pc["matter"] \in {"test", "stamp"}
        BY <2>t, <2>0, <3>2, <4>2 DEF SnapshotInv, Polled
      <4>3. CASE pc["matter"] = "role"
        <5>1. /\ mLastHealthSnapshotMs # 0
              /\ nowMs["matter"] <= mLastHealthSnapshotMs + WriteTime
          BY <2>0, <4>3 DEF SnapshotInv, Stamped
        <5> QED
          BY <2>0, <2>t, <3>2, <4>3, <5>1
      <4> QED
        BY <3>1, <4>1, <4>2, <4>3
    <3>4. savedUptime <= uptime /\ mLastHealthSnapshotMs <= savedUptime + WriteTime
      BY <2>2, <3>3 DEF SnapshotInv, Recent, UptimeFollows
    <3> QED
      BY <2>t, <3>3, <3>4
  <2>3. snapshots > 0 <=> mLastHealthSnapshotMs # 0
    BY <2>t DEF SnapshotInv, Stamped
  <2> QED
    BY <2>1, <2>2, <2>3, <2>t
<1> QED
  BY <1>1, SnapshotInvariant, PTL

(* Unless a write failed, the two values found after a reset between calls  *)
(* belong together, whichever thread wrote which of them last.              *)
THEOREM RecordIsCoherent == SnapshotSpec => []RecordCoherent
<1>1. SnapshotInv => RecordCoherent
  BY DEF SnapshotInv, Coherent, RoleFollows, RecordCoherent, Idle
<1> QED
  BY <1>1, SnapshotInvariant, PTL

=============================================================================
