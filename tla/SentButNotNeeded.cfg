SPECIFICATION Spec
CONSTANTS
  p1 = p1
  r1 = r1
  r2 = r2
  NSlots = 1
  Results = {r1, r2}
  Wu <- WuOfEach
  Pids = {p1}
  EnumLimit = 2
  PurgeStale = FALSE
  MayReread = FALSE
  FeederPauses = FALSE
  PidsWrap = FALSE
  MayFail = TRUE
PROPERTY DidntNeedWasNotSent
