CONSTANTS
  r1 = r1
  r2 = r2
  Hooks = {h1}
  Requests = {r1, r2}
  MaxId = 4
SYMMETRY MCSymmetry
SPECIFICATION Spec
CHECK_DEADLOCK FALSE
INVARIANTS TypeOK DraftReachable SentRecorded SerialDrafts
