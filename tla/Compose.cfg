CONSTANTS
  Apis = {"server","demo"}
  Files = {"small","large"}
  TooLarge = {"large"}
  MaxForms = 2
  MaxText = 1
  MaxPicks = 1
  MaxCalls = 2
  MaxEvents = 1
SPECIFICATION Spec
CHECK_DEADLOCK FALSE
INVARIANTS TypeOK SentOnce DraftSentOnce SentAsWritten

PROPERTIES SendingEnds
