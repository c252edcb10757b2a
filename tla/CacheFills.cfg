SPECIFICATION FairSpec
CONSTANTS
  p1 = p1
  r1 = r1
  r2 = r2
  r3 = r3
  NSlots = 2
  Results = {r1, r2, r3}
  Wu <- OneWu
  Pids = {p1}
  EnumLimit = 2
  PurgeStale = TRUE
  MayReread = TRUE
  FeederPauses = TRUE
  PidsWrap = FALSE
  MayFail = FALSE
PROPERTY SlotsAreRefilled
PROPERTY ReservationEnds
