CONSTANTS
  Clients = {c1, c2, c3}
  listenfd = listenfd
  BufSize = 2
  SndCap = 3
  MAX_EVENTS = 4
  MaxFds = 2
  MaxSend = 3
SPECIFICATION PPSpec
INVARIANT FrontDefined
PROPERTIES MessageEchoed AcceptedUnlessFull
