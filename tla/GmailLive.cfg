CONSTANTS
  Msgs = {m1}
  Handlers = {h1}
  Logins = {l1}
  Backfills = {}
  None = None
  SeedCap = 2
  BatchCap = 1
  MaxHist = 3
  MayThrow = FALSE
SPECIFICATION LiveSpec
CHECK_DEADLOCK FALSE
PROPERTIES AnnouncedIsMirrored RenewalRecovers
