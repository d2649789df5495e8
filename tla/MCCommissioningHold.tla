------------------------- MODULE MCCommissioningHold -------------------------
(* CommissioningHold on a small clock.                                     *)
EXTENDS CommissioningHold

=============================================================================
