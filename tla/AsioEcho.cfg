CONSTANTS
  Clients = {c1, c2}
  Chunk = 2
  SndCap = 2
  MaxSend = 3
SPECIFICATION FairSpec
INVARIANTS NoEchoWhileOpen EndsAtAccept
PROPERTIES ImplementsEcho HalfClosedEchoed EndedSessionSpins AcceptedWhileChained
CHECK_DEADLOCK FALSE
