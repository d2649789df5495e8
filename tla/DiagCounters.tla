---------------------------- MODULE DiagCounters ----------------------------
(***************************************************************************)
(* The persistent diagnostic counters of a diagnostic build                *)
(* (CONFIG_TINYENV_DIAGNOSTIC_MODE): the RAM copies of AppTask, the keys   *)
(* under tinyenv/diag in flash, and the RESETREAS register that tells one  *)
(* boot why the last one ended (src/app_task.cpp, src/shell_commands.cpp). *)
(*                                                                         *)
(* A reset of any kind may come between any two flash writes.  Saves and   *)
(* loads may fail, and no caller looks at their result.  Which keys can    *)
(* fail is a parameter: a run or a theorem has all, some or none of them.  *)
(* The erase of wipe_settings goes page by page: it may fail or be cut by  *)
(* a reset with some keys gone and others not.                             *)
(***************************************************************************)
EXTENDS Naturals, FiniteSets

CONSTANTS
  EventCounters,  \* Thread detach and reattach, sensor and ADC failures
  SaveMayFail,    \* the keys for which settings_save_one may fail
  LoadMayFail,    \* those that settings_load_subtree_direct may fail to read
  ShellEnabled,   \* the wipe_settings command is built in and used
  MaxHappened,    \* bound: how often each event happens
  MaxResets       \* bound: resets explored

ASSUME DiagAssumption ==
  /\ {"boot", "wdt_reset", "last_reset"} \cap EventCounters = {}
  /\ SaveMayFail \subseteq EventCounters \cup {"boot", "wdt_reset", "last_reset"}
  /\ LoadMayFail \subseteq EventCounters \cup {"boot", "wdt_reset"}
  /\ ShellEnabled \in BOOLEAN

Counters == EventCounters \cup {"boot", "wdt_reset"}

\* Bits of RESETREAS; a power-on reset has none.
Reasons == {"DOG", "SREQ", "RESETPIN"}

(* Where the main thread is.  "off" is before PrepareServer returns; from  *)
(* "loaded" on, it is inside DiagOnBoot, named for its last effect.        *)
Phases == {"off", "parked", "loaded", "cleared", "boot_saved", "reason_saved", "up"}

VARIABLES
  phase,
  mDiag,      \* the mDiag...Count members
  settings,   \* the counters in flash
  saving,     \* counters incremented in RAM whose save has not returned
  resetreas,  \* the RESETREAS register
  reason,     \* the local resetreas of DiagOnBoot
  lastReset,  \* tinyenv/diag/last_reset_reas in flash
  wiping,     \* wipe_settings: "no", "erasing", or "erased" and not rebooted yet
  \* History:
  happened,   \* how often what a counter counts really happened
  wiped,      \* happened when an erase last got at the counter
  reasonWiped,  \* an erase got at lastReset since the boot saved it
  upResets,   \* resets that found the device up
  cutBoots,   \* resets that cut a boot short
  cause,      \* why the last reset came
  causes      \* the causes since the device was last up or powered on

flash == <<settings, lastReset>>
history == <<happened, wiped, reasonWiped, upResets, cutBoots, cause, causes>>
vars == <<phase, mDiag, settings, saving, resetreas, reason, lastReset, wiping, history>>

Zero == [c \in Counters |-> 0]

Init ==
  /\ phase = "off"
  /\ mDiag = Zero
  /\ settings = Zero
  /\ saving = {}
  /\ cause \in {"POWER", "RESETPIN"}
  /\ resetreas = {cause} \cap Reasons
  /\ reason = {}
  /\ lastReset = {}
  /\ wiping = "no"
  /\ happened = [Zero EXCEPT !["boot"] = 1]
  /\ wiped = Zero
  /\ reasonWiped = FALSE
  /\ upResets = 0
  /\ cutBoots = 0
  /\ causes = resetreas

\* SaveDiagValue(c, n), whose result every caller throws away.
SaveDiagValue(c, n) ==
  \/ settings' = [settings EXCEPT ![c] = n]
  \/ c \in SaveMayFail /\ UNCHANGED settings

-----------------------------------------------------------------------------
(* DiagOnBoot, one step per effect a reset can separate from the next.     *)

\* PrepareServer fails and main returns.
ParkInInit ==
  /\ phase = "off"
  /\ phase' = "parked"
  /\ UNCHANGED <<mDiag, flash, saving, resetreas, reason, wiping, history>>

\* Mutant: the branches of DiagLoadCb for the events store the boot count.
LoadDiagCopyPaste ==
  /\ phase = "off"
  /\ phase' = "loaded"
  /\ mDiag' = [c \in Counters |-> IF c \in EventCounters THEN settings["boot"] ELSE settings[c]]
  /\ UNCHANGED <<flash, saving, resetreas, reason, wiping, history>>

\* DiagLoadCb leaves the zero of DiagLoadContext for a key it cannot read.
LoadDiag ==
  /\ phase = "off"
  /\ phase' = "loaded"
  /\ \E unread \in SUBSET LoadMayFail :
       mDiag' = [c \in Counters |-> IF c \in unread THEN 0 ELSE settings[c]]
  /\ UNCHANGED <<flash, saving, resetreas, reason, wiping, history>>

\* Mutant: RESETREAS, which the hardware accumulates, is not cleared.
ReadAndKeepReason ==
  /\ phase = "loaded"
  /\ phase' = "cleared"
  /\ reason' = resetreas
  /\ UNCHANGED <<mDiag, flash, saving, resetreas, wiping, history>>

ReadAndClearReason ==
  /\ phase = "loaded"
  /\ phase' = "cleared"
  /\ reason' = resetreas
  /\ resetreas' = {}
  /\ UNCHANGED <<mDiag, flash, saving, wiping, history>>

SaveBootCount ==
  /\ phase = "cleared"
  /\ phase' = "boot_saved"
  /\ mDiag' = [mDiag EXCEPT !["boot"] = @ + 1]
  /\ SaveDiagValue("boot", mDiag["boot"] + 1)
  /\ UNCHANGED <<lastReset, saving, resetreas, reason, wiping, history>>

SaveResetReason ==
  /\ phase = "boot_saved"
  /\ phase' = "reason_saved"
  /\ lastReset' \in {reason} \cup (IF "last_reset" \in SaveMayFail THEN {lastReset} ELSE {})
  /\ reasonWiped' = FALSE
  /\ UNCHANGED <<mDiag, settings, saving, resetreas, reason, wiping, happened, wiped,
                 upResets, cutBoots, cause, causes>>

SaveWdtResetCount ==
  /\ phase = "reason_saved"
  /\ phase' = "up"
  /\ \/ /\ "DOG" \in reason
        /\ mDiag' = [mDiag EXCEPT !["wdt_reset"] = @ + 1]
        /\ SaveDiagValue("wdt_reset", mDiag["wdt_reset"] + 1)
     \/ "DOG" \notin reason /\ UNCHANGED <<mDiag, settings>>
  /\ UNCHANGED <<lastReset, saving, resetreas, reason, wiping, history>>

DiagOnBoot ==
  \/ LoadDiag
  \/ ReadAndClearReason
  \/ SaveBootCount
  \/ SaveResetReason
  \/ SaveWdtResetCount

-----------------------------------------------------------------------------
(* DiagOnThreadDetached and its three siblings.                            *)

\* The event and the increment in RAM ...
CountEvent(c) ==
  /\ phase = "up"
  /\ c \notin saving
  /\ happened[c] < MaxHappened
  /\ happened' = [happened EXCEPT ![c] = @ + 1]
  /\ mDiag' = [mDiag EXCEPT ![c] = @ + 1]
  /\ saving' = saving \cup {c}
  /\ UNCHANGED <<phase, flash, resetreas, reason, wiping, wiped, reasonWiped,
                 upResets, cutBoots, cause, causes>>

\* Mutant: saves the count from before the increment.
SaveOldEvent(c) ==
  /\ c \in saving
  /\ saving' = saving \ {c}
  /\ SaveDiagValue(c, mDiag[c] - 1)
  /\ UNCHANGED <<phase, mDiag, lastReset, resetreas, reason, wiping, history>>

\* ... and its save.
SaveEvent(c) ==
  /\ c \in saving
  /\ saving' = saving \ {c}
  /\ SaveDiagValue(c, mDiag[c])
  /\ UNCHANGED <<phase, mDiag, lastReset, resetreas, reason, wiping, history>>

-----------------------------------------------------------------------------
(* Resets.  RAM goes; RESETREAS accumulates until it is cleared or the     *)
(* power fails.                                                            *)

Reset(kind) ==
  /\ upResets + cutBoots < MaxResets
  /\ phase' = "off"
  /\ mDiag' = Zero
  /\ saving' = {}
  /\ reason' = {}
  /\ wiping' = "no"
  /\ resetreas' = IF kind = "POWER" THEN {} ELSE resetreas \cup {kind}
  /\ happened' = [happened EXCEPT !["boot"] = @ + 1,
                                  !["wdt_reset"] = @ + (IF kind = "DOG" THEN 1 ELSE 0)]
  /\ IF phase = "up"
     THEN upResets' = upResets + 1 /\ UNCHANGED cutBoots
     ELSE cutBoots' = cutBoots + 1 /\ UNCHANGED upResets
  /\ cause' = kind
  /\ causes' = IF kind = "POWER" THEN {}
               ELSE (IF phase = "up" THEN {} ELSE causes) \cup {kind}
  /\ UNCHANGED <<flash, wiped, reasonWiped>>

PowerCycle == Reset("POWER")

PinReset == Reset("RESETPIN")

\* DiagInitWatchdog has armed it by the end of the boot.
WatchdogReset == phase = "up" /\ Reset("DOG")

\* sys_reboot, by the supervisor or the stack, or by the wipe command.
SoftReset == (phase = "up" \/ wiping = "erased") /\ Reset("SREQ")

-----------------------------------------------------------------------------
(* wipe_settings: the partition is erased, and only 100 ms later does the  *)
(* device reboot.  RAM and the other threads know nothing of it.           *)

\* What has happened and is still on its way to flash.
OnItsWay(c) ==
  \/ c = "boot" /\ phase \in {"off", "parked", "loaded", "cleared"}
  \/ c = "wdt_reset" /\ phase # "up" /\ "DOG" \in resetreas \cup reason
  \/ c \in saving

\* What the settings backend finds of a counter once some pages are gone: an
\* older record or none.  The records of a counter that always loads only
\* grew; one that once failed to load may have an older, higher one.
OlderRecords(c) ==
  IF c \in LoadMayFail
  THEN {n \in 0..happened[c] : OnItsWay(c) => n < happened[c]}
  ELSE 0..settings[c]

BeginErase ==
  /\ ShellEnabled
  /\ wiping = "no"
  /\ wiping' = "erasing"
  /\ UNCHANGED <<phase, mDiag, flash, saving, resetreas, reason, history>>

EraseCounter(c) ==
  /\ wiping = "erasing"
  /\ \E n \in OlderRecords(c) : settings' = [settings EXCEPT ![c] = n]
  /\ wiped' = [wiped EXCEPT ![c] = happened[c]]
  /\ UNCHANGED <<phase, mDiag, lastReset, saving, resetreas, reason, wiping,
                 happened, reasonWiped, upResets, cutBoots, cause, causes>>

EraseReason ==
  /\ wiping = "erasing"
  /\ lastReset' \in SUBSET Reasons
  /\ reasonWiped' = TRUE
  /\ UNCHANGED <<phase, mDiag, settings, saving, resetreas, reason, wiping,
                 happened, wiped, upResets, cutBoots, cause, causes>>

\* The command returns its error, and the device runs on.
EraseFails ==
  /\ wiping = "erasing"
  /\ wiping' = "no"
  /\ UNCHANGED <<phase, mDiag, flash, saving, resetreas, reason, history>>

EraseSettings ==
  /\ wiping = "erasing"
  /\ wiping' = "erased"
  /\ settings' = Zero
  /\ lastReset' = {}
  /\ wiped' = happened
  /\ reasonWiped' = TRUE
  /\ UNCHANGED <<phase, mDiag, saving, resetreas, reason,
                 happened, upResets, cutBoots, cause, causes>>

WipeSettings ==
  \/ BeginErase
  \/ \E c \in Counters : EraseCounter(c)
  \/ EraseReason
  \/ EraseFails
  \/ EraseSettings

Next ==
  \/ ParkInInit
  \/ DiagOnBoot
  \/ \E c \in EventCounters : CountEvent(c) \/ SaveEvent(c)
  \/ PowerCycle
  \/ PinReset
  \/ WatchdogReset
  \/ SoftReset
  \/ WipeSettings

Spec == Init /\ [][Next]_vars

-----------------------------------------------------------------------------
(* Properties.                                                             *)

TypeOK ==
  /\ phase \in Phases
  /\ mDiag \in [Counters -> Nat]
  /\ settings \in [Counters -> Nat]
  /\ saving \in SUBSET EventCounters
  /\ resetreas \in SUBSET Reasons
  /\ reason \in SUBSET Reasons
  /\ lastReset \in SUBSET Reasons
  /\ wiping \in {"no", "erasing", "erased"}
  /\ happened \in [Counters -> Nat]
  /\ wiped \in [Counters -> Nat]
  /\ reasonWiped \in BOOLEAN
  /\ upResets \in Nat
  /\ cutBoots \in Nat
  /\ cause \in Reasons \cup {"POWER"}
  /\ causes \in SUBSET Reasons

(* At most once: whatever resets cut, and whatever saves and loads fail,   *)
(* no persisted count exceeds what happened.  A watchdog reset in          *)
(* particular is counted once although RESETREAS accumulates over boots.   *)
NeverOvercounts == \A c \in Counters : settings[c] <= happened[c]

(* Of a counter whose key never fails, a reset costs an event counter at   *)
(* most the one event being saved, and only a reset that cuts a boot can   *)
(* lose a boot or a watchdog reset; what an erase got at apart, nothing    *)
(* else is ever lost.                                                      *)
LossBound ==
  \A c \in Counters \ (SaveMayFail \cup LoadMayFail) :
    happened[c] <= settings[c] + wiped[c]
                   + (IF c \in EventCounters THEN upResets ELSE cutBoots)
                   + (IF OnItsWay(c) THEN 1 ELSE 0)

(* The reason a boot leaves in flash is its own: it names what caused this *)
(* boot, and nothing from before the device was last up.  An erase that    *)
(* gets at the key takes the reason until the next boot saves its own.     *)
LastResetExplained ==
  phase = "up" /\ ~reasonWiped /\ "last_reset" \notin SaveMayFail =>
    /\ lastReset \subseteq causes
    /\ cause # "POWER" => cause \in lastReset

(* What the help of wipe_settings promises of the events: the partition is *)
(* erased, so when the erase has succeeded flash tells only of what came   *)
(* later.  A save between the erase and the reboot, 100 ms later, writes   *)
(* the count from before the wipe back.                                    *)
WipedEventsStartOver ==
  wiping = "erased" => \A c \in EventCounters : settings[c] + wiped[c] <= happened[c]

(* The abstract tally, implemented by the counters whose loads work, even  *)
(* if saves fail and whatever is wiped, in whole or in part.               *)
Loadable == Counters \ LoadMayFail
Tally == INSTANCE DurableTally
           WITH Counters <- Loadable,
                MayWipe <- ShellEnabled,
                happened <- [c \in Loadable |-> happened[c]],
                recorded <- [c \in Loadable |-> settings[c]],
                wiping <- (wiping = "erasing")
TallySpec == Tally!Spec

=============================================================================
