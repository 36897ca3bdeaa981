CONSTANTS
  short = short
  long = long
  Bodies <- MCBodies
  NoBody = NoBody
  Size <- MCSize
  Rendered <- MCRendered
  Upserters = {u}
  Requests = {r}
  Scripts = {s}
  MaxMsg = 3
  MaxRow = 3
SPECIFICATION Spec
CHECK_DEADLOCK FALSE
INVARIANTS TypeOK ChunksWhole ChunksKept SerialCurrent
