SPECIFICATION FairSpec
CONSTANTS
  Thread = {t1, t2}
  PerThread = 2
  NoThread = NoThread
CHECK_DEADLOCK FALSE
INVARIANTS TypeOK AllConnectedFirst EvenLoad NoLostWakeup
PROPERTY LoadRuns
