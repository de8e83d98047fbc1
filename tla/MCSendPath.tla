------------------------------ MODULE MCSendPath ------------------------------
(* Symmetric Packets and asio threads for the run of SendPath.               *)
EXTENDS SendPath, TLC

Symmetry == Permutations(Pkt) \cup Permutations(Io)

=============================================================================
