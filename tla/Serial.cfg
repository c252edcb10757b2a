SPECIFICATION Spec
CONSTANTS
  a = a
  h1 = h1
  h2 = h2
  Hosts = {h1, h2}
  NoHost = NoHost
  Outputs = {a}
  MinQuorum = 1
  TargetNresults = 2
  MaxErrorResults = 1
  MaxTotalResults = 2
  MaxSuccessResults = 2
  MaxFaults = 1
  HrClassStatic = FALSE
  DeleteDelay = TRUE
  MayDefer = TRUE
  HostClass <- NoHr
  Owner <- Self
  Trusted = {}
  AppTarget = 1
  MayLose = {h1, h2}
  MayMove = {h1, h2}
  MayDetach = {}
  MayCancel = TRUE
  PurgeWaits = FALSE
  Preemptible = {"cancel", "purge"}
SYMMETRY HostSymmetry
INVARIANT TypeOK
INVARIANT ResultsBounded
INVARIANT AckedSuccessIsRecorded
INVARIANT CanonicalOutputKeptForAssimilation
PROPERTY ErrorsAreSticky
PROPERTY ImplementsJob
