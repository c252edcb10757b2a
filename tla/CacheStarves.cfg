SPECIFICATION FairSpec
CONSTANTS
  p1 = p1
  r1 = r1
  r2 = r2
  NSlots = 2
  Results = {r1, r2}
  Wu <- OneWu
  Pids = {p1}
  EnumLimit = 1
  PurgeStale = TRUE
  MayReread = TRUE
  FeederPauses = TRUE
  PidsWrap = FALSE
  MayFail = FALSE
PROPERTY Refilled
