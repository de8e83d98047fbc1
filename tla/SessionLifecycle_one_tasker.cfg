\* A machine with at most three cores gives the TaskQueue one worker.  Liveness
\* is checked here, so no symmetry.
SPECIFICATION FairSpec
CONSTANTS
  a = a
  b = b
  t1 = t1
  t2 = t2
  k1 = k1
  k2 = k2
  none = none
  Obj = {a, b}
  NoObj = none
  IoThread = {t1, t2}
  TaskThread = {k1}
  NumWorkers = 1
  MaxConn = 2
  MaxRead = 2
  MaxWrite = 1
CHECK_DEADLOCK FALSE
INVARIANT CountExact
PROPERTY LossIsNoticed
