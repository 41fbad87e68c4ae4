CONSTANTS
  f1 = f1
  f2 = f2
  f3 = f3
  Clients = {c1, c2}
  Files = {f1, f2, f3}
  NoFile = NoFile
  Full <- ThreeFiles
  Rest = {f2}
  Half = 4
  MaxFds = 4
  MaxBlocks = 4
SPECIFICATION Spec
INVARIANTS TypeOK OffsetRight ContentRight
PROPERTY SilentWhenExhausted
CHECK_DEADLOCK FALSE
