------------------------- MODULE MCServiceShutdown -------------------------
(* The runs of ServiceShutdown.                                             *)
EXTENDS ServiceShutdown

CONSTANTS s1, s2, k1, k2

=============================================================================
