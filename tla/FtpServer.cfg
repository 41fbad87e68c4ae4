CONSTANTS
  Clients = {c1, c2}
  NoClient = NoClient
  BufSize = 4
  Cap = 1
  MaxTurns = 3
  MaxSend = 2
SPECIFICATION FairSpec
INVARIANTS InStep LinesInOrder OneClientEver
PROPERTY LineArrives
CHECK_DEADLOCK FALSE
