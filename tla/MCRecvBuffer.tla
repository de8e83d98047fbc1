---------------------------- MODULE MCRecvBuffer ----------------------------
(* Streams and sizes for the runs of RecvBuffer.                            *)
EXTENDS RecvBuffer

\* A packet without payload, then longer ones; no read boundary is special.
MCSizes == <<2, 3, 3, 2, 3>>

MCStart[p \in 1 .. Len(MCSizes) + 1] ==
  IF p = 1 THEN 1 ELSE MCStart[p - 1] + MCSizes[p - 1]

\* Not a header: packetSize 0, one that fits, one that never does.
MCGarbage == {0, 2, 99}

=============================================================================
