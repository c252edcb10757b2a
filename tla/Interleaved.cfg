SPECIFICATION Spec
CONSTANTS
  a = a
  h1 = h1
  h2 = h2
  Hosts = {h1, h2}
  NoHost = NoHost
  Outputs = {a}
  MinQuorum = 1
  TargetNresults = 1
  MaxErrorResults = 1
  MaxTotalResults = 1
  MaxSuccessResults = 1
  MaxFaults = 0
  HrClassStatic = FALSE
  DeleteDelay = FALSE
  MayDefer = FALSE
  HostClass <- NoHr
  Owner <- Self
  Trusted = {}
  AppTarget = 1
  MayLose = {h1}
  MayMove = {}
  MayDetach = {h2}
  MayCancel = FALSE
  PurgeWaits = FALSE
  Preemptible = {"transitioner", "validator", "assimilator", "purge", "cgi", "cancel"}
INVARIANT MemoriesAreSafe
PROPERTY ServerStateNeverGoesBack
PROPERTY SentToOneHost
PROPERTY CanonicalIsFinal
CHECK_DEADLOCK FALSE
