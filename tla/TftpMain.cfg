CONSTANTS
  f1 = f1
  f2 = f2
  f3 = f3
  Clients = {c1, c2}
  Files = {f1, f2, f3}
  NoFile = NoFile
  Full <- ThreeFiles
  Rest = {f1}
  Half = 4
  MaxFds = 4
  MaxIn = 3
SPECIFICATION MainSpec
INVARIANTS OneTransferEver 
CHECK_DEADLOCK FALSE
