CONSTANTS
  c1 = c1
  c2 = c2
  t1 = t1
  t2 = t2
  Conns = {c1, c2}
  Threads = {t1, t2}
  thread_of <- OneEach
  MSG_SIZE = 3
  Cap = 2
SPECIFICATION FairSpec
INVARIANTS Conserved EndsOnlyAfterPeer
PROPERTIES NeverStops ThreadsEnd
CHECK_DEADLOCK FALSE
