CONSTANTS
  Nodes = {n1, n2, n3, n4}
  Sessions = {s1, s2, s3}
  NULL = NULL
SPECIFICATION FairSpec
INVARIANTS WellFormed MemorySafe
PROPERTIES ImplementsSeq CallsReturn
CHECK_DEADLOCK FALSE
