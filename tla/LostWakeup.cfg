SPECIFICATION FairSpec
CONSTANTS
  a = a
  h1 = h1
  Hosts = {h1}
  NoHost = NoHost
  Outputs = {a}
  MinQuorum = 1
  TargetNresults = 1
  MaxErrorResults = 1
  MaxTotalResults = 1
  MaxSuccessResults = 1
  MaxFaults = 0
  HrClassStatic = FALSE
  DeleteDelay = FALSE
  MayDefer = FALSE
  HostClass <- NoHr
  Owner <- Self
  Trusted = {}
  AppTarget = 1
  MayLose = {}
  MayMove = {}
  MayDetach = {}
  MayCancel = FALSE
  PurgeWaits = FALSE
  Preemptible = {"transitioner", "assimilator"}
PROPERTY DecidedJobIsPurged
CHECK_DEADLOCK FALSE
