CONSTANTS
  Procs = {p1, p2}
  RandKeys = {k1, k2, k3}
  Rounds = 2
  MaxRuns = 3
SPECIFICATION ChurnSpec
INVARIANT OneKeyPerFailure
CHECK_DEADLOCK FALSE
