--------------------------- MODULE MCThreadMonitor --------------------------
(* ThreadMonitor on a small clock: two polls fit in the threshold, a poll  *)
(* may be a tick late or lost, and the counters wrap at three.             *)
EXTENDS ThreadMonitor

MCRlocs == {0, 1}

=============================================================================
