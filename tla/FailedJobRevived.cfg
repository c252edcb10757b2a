SPECIFICATION Spec
CONSTANTS
  a = a
  h1 = h1
  h2 = h2
  Hosts = {h1, h2}
  NoHost = NoHost
  Outputs = {a}
  MinQuorum = 1
  TargetNresults = 1
  MaxErrorResults = 1
  MaxTotalResults = 2
  MaxSuccessResults = 2
  MaxFaults = 0
  HrClassStatic = FALSE
  DeleteDelay = FALSE
  MayDefer = FALSE
  HostClass <- NoHr
  Owner <- Self
  Trusted = {}
  AppTarget = 1
  MayLose = {}
  MayMove = {}
  MayDetach = {}
  MayCancel = FALSE
  PurgeWaits = FALSE
  Preemptible = {}
SYMMETRY HostSymmetry
PROPERTY NoCheckIsFinal
