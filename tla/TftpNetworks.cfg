CONSTANTS
  f1 = f1
  f2 = f2
  f3 = f3
  f4 = f4
  f5 = f5
  f6 = f6
  f7 = f7
  f8 = f8
  Clients = {c1}
  Files = {f1, f2, f3, f4, f5, f6, f7, f8}
  NoFile = NoFile
  Full <- ManyFiles
  Rest = {f2, f4, f5, f7}
  Half = 4
  MaxFds = 3
  MaxBlocks = 18
  LossyBlocks = 3
SPECIFICATION NetSpec
INVARIANT WrapsAround
PROPERTIES Completes ProgressWhileOpen
CHECK_DEADLOCK FALSE
