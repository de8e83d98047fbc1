------------------------- MODULE MCSessionLifecycle -------------------------
(* Model values and symmetry for the runs of SessionLifecycle.              *)
EXTENDS SessionLifecycle, TLC

CONSTANTS a, b, t1, t2, k1, k2, none

\* Objects and threads of one kind are interchangeable.
Symmetry == Permutations(Obj) \cup Permutations(IoThread) \cup Permutations(TaskThread)

=============================================================================
