---------------------------- MODULE MCBatterySense --------------------------
(* BatterySense with its two callers and every sample of a reading.        *)
EXTENDS BatterySense

CONSTANTS main, matter

MCThreads == {main, matter}
MCOnce == {main}

=============================================================================
