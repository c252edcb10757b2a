SPECIFICATION Spec
CONSTANTS
  a = a
  h1 = h1
  h2 = h2
  Hosts = {h1, h2}
  NoHost = NoHost
  Outputs = {a}
  MinQuorum = 1
  TargetNresults = 2
  MaxErrorResults = 1
  MaxTotalResults = 2
  MaxSuccessResults = 2
  MaxFaults = 0
  HrClassStatic = FALSE
  DeleteDelay = FALSE
  MayDefer = FALSE
  HostClass <- NoHr
  Owner <- Self
  Trusted = {}
  AppTarget = 1
  MayLose = {}
  MayMove = {}
  MayDetach = {}
  MayCancel = TRUE
  PurgeWaits = FALSE
  Preemptible = {"cgi", "cancel", "assimilator", "purge"}
SYMMETRY HostSymmetry
INVARIANT CreditGrantedOnce
PROPERTY ImplementsJob
PROPERTY ErrorsAreSticky
