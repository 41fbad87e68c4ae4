CONSTANTS
  Clients = {c1}
  listenfd = listenfd
  BufSize = 2
  SndCap = 3
  MAX_EVENTS = 2
  MaxFds = 1
  MaxSend = 6
SPECIFICATION Spec
INVARIANTS NothingLost AssertHolds SigPipeOnlyByRace
PROPERTY ImplementsEcho
CHECK_DEADLOCK FALSE
