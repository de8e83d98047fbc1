SPECIFICATION Spec
CONSTANTS
  Pkt = {p1, p2, p3, p4, p5}
  NoPkt = NoPkt
  Msg = {m1, m2, m3, m4}
  NoMsg = NoMsg
  Sender = {s1, s2}
  Io = {t1, t2}
  PoolSize = 2
  Wrap = 32
SYMMETRY Symmetry
CHECK_DEADLOCK FALSE
INVARIANTS TypeOK PoolExclusive WriteKeepsBytes PoolCapped AvailableIsThere
