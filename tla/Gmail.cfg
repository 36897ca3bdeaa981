CONSTANTS
  Msgs = {m1,m2}
  Handlers = {h1,h2}
  Logins = {l1}
  Backfills = {b1}
  None = None
  SeedCap = 2
  BatchCap = 1
  MaxHist = 4
  FreshHist = 2
  MayThrow = TRUE
SPECIFICATION MCSpec
CHECK_DEADLOCK FALSE
SYMMETRY Symmetry
ACTION_CONSTRAINT StartBounds
INVARIANTS TypeOK IInv InboxCovered CheckpointCovered RowsCovered
PROPERTIES ImplementsMirror
