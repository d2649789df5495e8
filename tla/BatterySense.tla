---------------------------- MODULE BatterySense ----------------------------
(***************************************************************************)
(* ReadBatteryVolts and InitBatterySense (src/app_task.cpp) as a protocol  *)
(* on shared hardware: an enable pin that makes the divider draw current   *)
(* from the battery while it is low, and an ADC whose set-up is tried once *)
(* per boot.                                                               *)
(*                                                                         *)
(* Two threads call it: main once, after it started the timers, and the    *)
(* Matter thread from every sensor work item.  Nothing but the length of   *)
(* the sensor interval keeps the two apart: a reading may start while      *)
(* another one runs.                                                       *)
(***************************************************************************)
EXTENDS Integers

CONSTANTS
  Threads,     \* the threads that read the battery
  Once,        \* those of them that do so once per boot
  SampleCount, \* kBatterySampleCount
  MaxFailures  \* bound: the failure count explored

ASSUME SenseAssumption ==
  /\ Once \subseteq Threads
  /\ SampleCount \in Nat \ {0}
  /\ MaxFailures \in Nat

VARIABLES
  pin,          \* level of kVbatEnablePin
  sInit,
  sReady,
  pc,           \* where each thread stands
  samples,      \* ADC reads done in the thread's reading
  adcFailures,  \* mDiagAdcFailureCount
  readOnce,     \* threads of Once that have read in this boot
  diagnosticMode,  \* kEnableDiagnosticMode: the build counts failures
  \* History, read by the properties only:
  countAtStart, \* adcFailures when the thread's reading began
  overlap       \* the reading that began last found another one under way

latch == <<sInit, sReady>>
history == <<countAtStart, overlap>>
vars == <<pin, latch, pc, samples, adcFailures, readOnce, diagnosticMode, history>>

Steps == {"idle", "latch", "set_up", "deselect", "channel", "enable", "sample",
          "count", "release", "placeholder"}

At(step) == {t \in Threads : pc[t] = step}
Reading(t) == pc[t] # "idle"
SettingUp(t) == pc[t] \in {"set_up", "deselect", "channel"}

Go(t, step) == pc' = [pc EXCEPT ![t] = step]

Init ==
  /\ pin = "floating"
  /\ sInit = FALSE
  /\ sReady = FALSE
  /\ pc = [t \in Threads |-> "idle"]
  /\ samples = [t \in Threads |-> 0]
  /\ adcFailures = 0
  /\ readOnce = {}
  /\ diagnosticMode \in BOOLEAN
  /\ countAtStart = [t \in Threads |-> 0]
  /\ overlap = FALSE

-----------------------------------------------------------------------------
(* A thread enters ReadBatteryVolts and tests the latch.  One that finds   *)
(* the set-up begun but not finished takes it for failed; two that test it *)
(* before either has set it both set the ADC up.                           *)

MayRead(t) ==
  /\ ~Reading(t)
  /\ t \notin readOnce

Begin(t) ==
  /\ MayRead(t)
  /\ IF ~sInit THEN Go(t, "latch")
     ELSE Go(t, IF sReady THEN "enable" ELSE "placeholder")

StartReading(t) ==
  /\ Begin(t)
  /\ samples' = [samples EXCEPT ![t] = 0]
  /\ countAtStart' = [countAtStart EXCEPT ![t] = adcFailures]
  /\ overlap' = \E u \in Threads : Reading(u)
  /\ readOnce' = IF t \in Once THEN readOnce \cup {t} ELSE readOnce
  /\ UNCHANGED <<pin, latch, adcFailures, diagnosticMode>>

SetLatch(t) ==
  /\ pc[t] = "latch"
  /\ sInit' = TRUE
  /\ Go(t, "set_up")
  /\ UNCHANGED <<pin, sReady, samples, adcFailures, readOnce, diagnosticMode, history>>

-----------------------------------------------------------------------------
(* InitBatterySense past the latch.  GPIO_OUTPUT_INACTIVE is the low level *)
(* of a pin that has no GPIO_ACTIVE_LOW flag: configuring the pin turns    *)
(* the divider on, and the next call turns it off.                         *)

SetUpFails(t) ==
  /\ pc[t] = "set_up"
  /\ Go(t, "placeholder")
  /\ UNCHANGED <<pin, latch, samples, adcFailures, readOnce, diagnosticMode, history>>

ConfigurePin(t) ==
  /\ pc[t] = "set_up"
  /\ pin' = "low"
  /\ Go(t, "deselect")
  /\ UNCHANGED <<latch, samples, adcFailures, readOnce, diagnosticMode, history>>

\* Mutant: the pin is left as it was configured.
DeselectForgotten(t) ==
  /\ pc[t] = "deselect"
  /\ Go(t, "channel")
  /\ UNCHANGED <<pin, latch, samples, adcFailures, readOnce, diagnosticMode, history>>

Deselect(t) ==
  /\ pc[t] = "deselect"
  /\ pin' = "high"
  /\ Go(t, "channel")
  /\ UNCHANGED <<latch, samples, adcFailures, readOnce, diagnosticMode, history>>

SetUpChannel(t) ==
  /\ pc[t] = "channel"
  /\ \/ sReady' = TRUE /\ Go(t, "enable")
     \/ UNCHANGED sReady /\ Go(t, "placeholder")
  /\ UNCHANGED <<pin, sInit, samples, adcFailures, readOnce, diagnosticMode, history>>

-----------------------------------------------------------------------------
(* ReadBatteryVolts with a working ADC.                                    *)

\* Mutant: the pin is driven as if it were active-high.
EnableActiveHigh(t) ==
  /\ pc[t] = "enable"
  /\ pin' = "high"
  /\ Go(t, "sample")
  /\ UNCHANGED <<latch, samples, adcFailures, readOnce, diagnosticMode, history>>

Enable(t) ==
  /\ pc[t] = "enable"
  /\ pin' = "low"
  /\ Go(t, "sample")
  /\ UNCHANGED <<latch, samples, adcFailures, readOnce, diagnosticMode, history>>

Sample(t) ==
  /\ pc[t] = "sample"
  /\ samples' = [samples EXCEPT ![t] = @ + 1]
  /\ Go(t, IF samples[t] + 1 < SampleCount THEN "sample" ELSE "release")
  /\ UNCHANGED <<pin, latch, adcFailures, readOnce, diagnosticMode, history>>

\* Mutant: the error path returns without driving the pin.
SampleFailsEnabled(t) ==
  /\ pc[t] = "sample"
  /\ adcFailures < MaxFailures
  /\ Go(t, "count")
  /\ UNCHANGED <<pin, latch, samples, adcFailures, readOnce, diagnosticMode, history>>

SampleFails(t) ==
  /\ pc[t] = "sample"
  /\ adcFailures < MaxFailures
  /\ pin' = "high"
  /\ Go(t, "count")
  /\ UNCHANGED <<latch, samples, adcFailures, readOnce, diagnosticMode, history>>

\* Mutant: the failure is not counted.
CountFailureNot(t) ==
  /\ pc[t] = "count"
  /\ Go(t, "placeholder")
  /\ UNCHANGED <<pin, latch, samples, adcFailures, readOnce, diagnosticMode, history>>

\* DiagOnAdcReadFailure: a build without the diagnostics returns at once.
CountFailure(t) ==
  /\ pc[t] = "count"
  /\ adcFailures' = IF diagnosticMode THEN adcFailures + 1 ELSE adcFailures
  /\ Go(t, "placeholder")
  /\ UNCHANGED <<pin, latch, samples, readOnce, diagnosticMode, history>>

Release(t) ==
  /\ pc[t] = "release"
  /\ pin' = "high"
  /\ Go(t, "idle")
  /\ UNCHANGED <<latch, samples, adcFailures, readOnce, diagnosticMode, history>>

ReadBatteryVoltsPlaceholder(t) ==
  /\ pc[t] = "placeholder"
  /\ Go(t, "idle")
  /\ UNCHANGED <<pin, latch, samples, adcFailures, readOnce, diagnosticMode, history>>

\* A reset at any point: the statics are zero again and the pin is an input.
\* What a diagnostic build then finds of the count in flash is DiagCounters'.
Reset ==
  /\ pin' = "floating"
  /\ sInit' = FALSE
  /\ sReady' = FALSE
  /\ pc' = [t \in Threads |-> "idle"]
  /\ samples' = [t \in Threads |-> 0]
  /\ readOnce' = {}
  /\ adcFailures' \in IF diagnosticMode THEN 0..MaxFailures ELSE {0}
  /\ countAtStart' = [t \in Threads |-> 0]
  /\ overlap' = FALSE
  /\ UNCHANGED diagnosticMode

ReadingStep(t) ==
  \/ SetLatch(t) \/ SetUpFails(t) \/ ConfigurePin(t) \/ Deselect(t) \/ SetUpChannel(t)
  \/ Enable(t) \/ Sample(t) \/ SampleFails(t) \/ CountFailure(t)
  \/ Release(t) \/ ReadBatteryVoltsPlaceholder(t)

Next ==
  \/ \E t \in Threads : StartReading(t) \/ ReadingStep(t)
  \/ Reset

Spec == Init /\ [][Next]_vars

\* Every call of the driver returns and the scheduler runs every thread: a
\* reading that began goes on.
Fairness == \A t \in Threads : WF_vars(ReadingStep(t))

FairSpec == Spec /\ Fairness

-----------------------------------------------------------------------------
TypeOK ==
  /\ pin \in {"floating", "low", "high"}
  /\ sInit \in BOOLEAN
  /\ sReady \in BOOLEAN
  /\ pc \in [Threads -> Steps]
  /\ samples \in [Threads -> 0..SampleCount]
  /\ adcFailures \in Nat
  /\ readOnce \subseteq Once
  /\ diagnosticMode \in BOOLEAN
  /\ countAtStart \in [Threads -> Nat]
  /\ overlap \in BOOLEAN

\* The divider draws current only while some thread is between the call
\* that turned it on and the one that turns it off, also when readings
\* overlap and when the ADC fails: nothing leaves it on until the next
\* reading a sensor interval later.
DividerOffBetweenReadings ==
  pin = "low" => At("deselect") \cup At("sample") \cup At("release") # {}

\* A thread that samples does so with the divider on: a reading is never of
\* a floating input.  A reading that overlaps another cannot promise this,
\* but no reading after it is harmed.
SampledWithDividerOn ==
  ~overlap => (At("sample") \cup At("release") # {} => pin = "low")

\* In a diagnostic build, once the ADC is set up, the placeholder voltage is
\* published only by a reading that counted a failure of its own.  A set-up
\* that failed, which no counter shows, is final for the boot.  A build
\* without the diagnostics publishes the placeholder of a failed read with
\* nothing counted: there the count rests.
PlaceholderExplained ==
  ~overlap => \A t \in At("placeholder") :
    /\ sInit
    /\ sReady /\ diagnosticMode => adcFailures = countAtStart[t] + 1
    /\ ~(sReady /\ diagnosticMode) => adcFailures = countAtStart[t]

\* A voltage is computed from as many samples as it is divided by.
FullAverage == \A t \in At("release") : samples[t] = SampleCount

\* A reading that turned the divider on turns it off again, whatever fails.
DividerReleased == (pin = "low") ~> (pin # "low")

=============================================================================
