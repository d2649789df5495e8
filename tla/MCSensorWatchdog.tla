-------------------------- MODULE MCSensorWatchdog --------------------------
(* SensorWatchdog on a small clock.                                        *)
EXTENDS SensorWatchdog

=============================================================================
