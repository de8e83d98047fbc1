\* Two objects, three connections: every second one recycles an object.
SPECIFICATION Spec
CONSTANTS
  a = a
  b = b
  t1 = t1
  t2 = t2
  k1 = k1
  k2 = k2
  none = none
  Obj = {a, b}
  NoObj = none
  IoThread = {t1, t2}
  TaskThread = {k1, k2}
  NumWorkers = 2
  MaxConn = 3
  MaxRead = 2
  MaxWrite = 1
SYMMETRY Symmetry
CHECK_DEADLOCK FALSE
INVARIANTS
  TypeOK
  PooledIsUnowned
  RegistryCoherent
  HandlerKeepsItsSession
  PlayerOfThisConnection
  ChatFindsPlayer
  CountNeverAbove
PROPERTY DeadUidStaysDead
