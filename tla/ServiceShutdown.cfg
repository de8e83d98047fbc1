\* Two sessions, each of which may end twice; two workers.
SPECIFICATION FairSpec
CONSTANTS
  s1 = s1
  s2 = s2
  k1 = k1
  k2 = k2
  Input = Input
  None = None
  TaskThread = {k1, k2}
  MaxEnds = 2
  Session = {s1, s2}
CHECK_DEADLOCK FALSE
INVARIANTS
  TypeOK
  ExitIsClean
PROPERTIES
  SweepIsStable
  CloseFinishes
  EmptyServerStops
  ShutdownSettles
