SPECIFICATION FairSpec
CONSTANTS
  alice = alice
  bob = bob
  w0 = w0
  w1 = w1
  Player = {alice, bob}
  Worker = {w0, w1}
  Owner <- MCOwner
  NoPlayer = NoPlayer
  RoomMod = 8
  MaxRooms = 2
  MaxReq <- MCMaxReq
CHECK_DEADLOCK FALSE
INVARIANTS TypeOK SameOrderForAll SenderOrderKept SenderIsMember ListsAreCurrent
PROPERTIES
  ToldMembersHear
  RequestsAreHandled
  ImplementsService
