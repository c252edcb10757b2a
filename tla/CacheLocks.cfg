SPECIFICATION Spec
CONSTANTS
  p1 = p1
  p2 = p2
  r1 = r1
  r2 = r2
  NSlots = 2
  Results = {r1, r2}
  Wu <- OneWu
  Pids = {p1, p2}
  EnumLimit = 2
  PurgeStale = FALSE
  MayReread = FALSE
  FeederPauses = FALSE
  PidsWrap = TRUE
  MayFail = TRUE
SYMMETRY Symmetry
INVARIANT CacheTypeOK
INVARIANT SlotHeldWhileChecked
INVARIANT CachedOnce
