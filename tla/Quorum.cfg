SPECIFICATION Spec
CONSTANTS
  a = a
  b = b
  h1 = h1
  h2 = h2
  h3 = h3
  h4 = h4
  Hosts = {h1, h2, h3, h4}
  NoHost = NoHost
  Outputs = {a, b}
  MinQuorum = 2
  TargetNresults = 2
  MaxErrorResults = 1
  MaxTotalResults = 3
  MaxSuccessResults = 3
  MaxFaults = 1
  HrClassStatic = FALSE
  DeleteDelay = FALSE
  MayDefer = FALSE
  HostClass <- TwoClasses
  Owner <- Self
  Trusted = {}
  AppTarget = 1
  MayLose = {}
  MayMove = {}
  MayDetach = {}
  MayCancel = FALSE
  PurgeWaits = FALSE
  Preemptible = {}
SYMMETRY PlainSymmetry
INVARIANT ValidResultsAgree
INVARIANT OneHrClass
CHECK_DEADLOCK FALSE
