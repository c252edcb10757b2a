SPECIFICATION FairSpec
CONSTANTS
  a = a
  h1 = h1
  h2 = h2
  h3 = h3
  Hosts = {h1, h2, h3}
  NoHost = NoHost
  Outputs = {a}
  MinQuorum = 1
  TargetNresults = 1
  MaxErrorResults = 1
  MaxTotalResults = 2
  MaxSuccessResults = 2
  MaxFaults = 0
  HrClassStatic = FALSE
  DeleteDelay = FALSE
  MayDefer = FALSE
  HostClass <- NoHr
  Owner <- Self
  Trusted = {h1, h2}
  AppTarget = 2
  MayLose = {}
  MayMove = {}
  MayDetach = {}
  MayCancel = FALSE
  PurgeWaits = TRUE
  Preemptible = {}
PROPERTY DecidedJobIsPurged
PROPERTY SuccessGetsVerdict
PROPERTY QuorumDecides
PROPERTY SentResultIsOver
