----------------------------- MODULE MCChatRooms -----------------------------
(* Sessions and workers for the run of ChatRooms.                           *)
EXTENDS ChatRooms

CONSTANTS alice, bob, w0, w1

\* Each has a worker of their own.
MCOwner == [p \in Player |-> IF p = bob THEN w1 ELSE w0]
\* alice can create a room and chat twice in it, bob enter it and chat.
MCMaxReq == [p \in Player |-> IF p = alice THEN 3 ELSE 2]

=============================================================================
