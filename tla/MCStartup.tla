----------------------------- MODULE MCStartup -----------------------------
(* Readings at both ends of the SHT4x's range and above the default        *)
(* maximum; buffers just too small and just large enough for both answers. *)
EXTENDS Startup

MCReadings == {-4000, 2137, 12500}
MCBufferSizes == {15, 16, 28, 29, 33}

=============================================================================
