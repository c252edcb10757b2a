SPECIFICATION FairSpec
CONSTANTS
  a = a
  h1 = h1
  h2 = h2
  Hosts = {h1, h2}
  NoHost = NoHost
  Outputs = {a}
  MinQuorum = 2
  TargetNresults = 2
  MaxErrorResults = 1
  MaxTotalResults = 3
  MaxSuccessResults = 3
  MaxFaults = 1
  HrClassStatic = FALSE
  DeleteDelay = FALSE
  MayDefer = FALSE
  HostClass <- NoHr
  Owner <- Self
  Trusted = {}
  AppTarget = 1
  MayLose = {}
  MayMove = {}
  MayDetach = {}
  MayCancel = FALSE
  PurgeWaits = TRUE
  Preemptible = {}
PROPERTY TransientFailureIsRetried
