---------------------------- MODULE DurableTally ----------------------------
(***************************************************************************)
(* What a set of persisted diagnostic counters promises to whoever reads   *)
(* them after a field failure: a counter never shows more than what        *)
(* happened, it never goes back but during a wipe, in which each may go    *)
(* back by itself, and a wipe that is carried through leaves none of them. *)
(* A device that has no wipe never takes a count back.  How much a counter *)
(* may lag is left open.                                                   *)
(***************************************************************************)
EXTENDS Naturals

CONSTANTS
  Counters,
  MayWipe     \* whether there is a command that wipes

VARIABLES
  happened,   \* how often the counted thing happened
  recorded,   \* what flash says
  wiping      \* a wipe is under way

Init ==
  /\ happened \in [Counters -> Nat]
  /\ recorded = [c \in Counters |-> 0]
  /\ wiping = FALSE

\* Several things may happen at once: a watchdog reset is also a boot.  A
\* reset is counted too, and ends a wipe wherever it stands.
Happen(C) ==
  /\ happened' = [c \in Counters |-> happened[c] + (IF c \in C THEN 1 ELSE 0)]
  /\ wiping' \in {wiping, FALSE}
  /\ UNCHANGED recorded

Record(c, n) ==
  /\ recorded' = [recorded EXCEPT ![c] = n]
  /\ UNCHANGED <<happened, wiping>>

BeginWipe ==
  /\ MayWipe
  /\ wiping' = TRUE
  /\ UNCHANGED <<happened, recorded>>

TakeBack(c, n) ==
  /\ wiping
  /\ recorded' = [recorded EXCEPT ![c] = n]
  /\ UNCHANGED <<happened, wiping>>

GiveUp ==
  /\ wiping' = FALSE
  /\ UNCHANGED <<happened, recorded>>

Wipe ==
  /\ wiping
  /\ wiping' = FALSE
  /\ recorded' = [c \in Counters |-> 0]
  /\ UNCHANGED happened

Next ==
  \/ \E C \in SUBSET Counters : Happen(C)
  \/ \E c \in Counters : \E n \in recorded[c]..happened[c] : Record(c, n)
  \/ BeginWipe
  \/ \E c \in Counters : \E n \in 0..recorded[c] : TakeBack(c, n)
  \/ GiveUp
  \/ Wipe

Spec == Init /\ [][Next]_<<happened, recorded, wiping>>

=============================================================================
