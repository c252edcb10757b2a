SPECIFICATION Spec
CONSTANTS
  a = a
  h1 = h1
  h2 = h2
  h3 = h3
  Hosts = {h1, h2}
  NoHost = NoHost
  Outputs = {a}
  MinQuorum = 1
  TargetNresults = 1
  MaxErrorResults = 1
  MaxTotalResults = 2
  MaxSuccessResults = 2
  MaxFaults = 0
  HrClassStatic = FALSE
  DeleteDelay = FALSE
  MayDefer = FALSE
  HostClass <- NoHr
  Owner <- Self
  Trusted = {h1}
  AppTarget = 2
  MayLose = {h1, h2}
  MayMove = {}
  MayDetach = {}
  MayCancel = FALSE
  PurgeWaits = FALSE
  Preemptible = {"transitioner", "cgi"}
INVARIANT InputsKeptWhileNeeded
INVARIANT OneResultPerOwner
INVARIANT CreditGrantedOnce
PROPERTY UntrustedNotAlone
CHECK_DEADLOCK FALSE
