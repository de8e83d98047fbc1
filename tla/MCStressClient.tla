--------------------------- MODULE MCStressClient ---------------------------
(* The instance of StressClient.cfg: which thread made a session, and its    *)
(* place among that thread's, matter to its start only.                      *)
EXTENDS StressClient
=============================================================================
