CONSTANTS
  MaxRow = 5
  First = 4
  Seed = 2
  Archived = {1}
  Starred = {1,3}
  Found = {1,2}
  Meant = {2}
  Lookups = {"words"}
  Questions = {"why"}
  PageSize = 2
  BatchSize = 1
  Unknown = Unknown
  DefaultMax = 3
  Ceiling = 4
  MaxRequests = 3
  MaxEvents = 1
SPECIFICATION Spec
CHECK_DEADLOCK FALSE
INVARIANTS TypeOK ListOfView ListExact
PROPERTY BackfillReachesTarget
