----------------------------- MODULE MCStatusLed ----------------------------
(* StatusLed has no parameter: its three threads are those of the code.    *)
EXTENDS StatusLed

=============================================================================
