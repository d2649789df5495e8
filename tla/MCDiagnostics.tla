---------------------------- MODULE MCDiagnostics ---------------------------
(* What a diagnostic build leaves in flash: the counters and the health     *)
(* snapshot.  They use different keys and share no state, so one run takes  *)
(* each in turn: part says which of them moves.                             *)
(*                                                                          *)
(* Counters: one event counter with keys that never fail, one with saves    *)
(* and loads that may; saves of the watchdog count may fail too.            *)
(* Wipes: the same, with wipe_settings used any number of times, failing or *)
(* cut anywhere; over shorter histories.                                    *)
(* Snapshots: nearly three intervals of three polls, calls and writes that  *)
(* may take a poll, work items that may be lost.  One role: no property      *)
(* tells them apart, and savedRoleAt says when the saved one was read.      *)
EXTENDS DiagCounters, HealthSnapshot

CONSTANTS e1, e2

VARIABLE part

MCEventCounters == {e1, e2}
MCSaveMayFail == {e2, "wdt_reset"}
MCLoadMayFail == {e2}

\* Bounds of the part with wipes: two resets, one event, no pin reset.
WipeBound ==
  /\ upResets + cutBoots <= 2
  /\ happened[e1] + happened[e2] <= 1
  /\ cause # "RESETPIN"
  /\ "RESETPIN" \notin lastReset

MCInit ==
  /\ part \in {"counters", "wipes", "snapshot"}
  /\ Init
  /\ SnapshotInit
  /\ part # "snapshot" => mLastThreadRole = "child" /\ savedRole = "child"
  /\ part # "counters" => cause = "POWER"

MCNext ==
  /\ UNCHANGED part
  /\ \/ part = "counters" /\ Next /\ wiping' = "no" /\ UNCHANGED snapshotVars
     \/ part = "wipes" /\ Next /\ WipeBound' /\ UNCHANGED snapshotVars
     \/ part = "snapshot" /\ SnapshotNext /\ UNCHANGED vars

MCSpec == MCInit /\ [][MCNext]_<<part, vars, snapshotVars>>

=============================================================================
