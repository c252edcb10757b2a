SPECIFICATION Spec
CONSTANTS
  Missing = Missing
  Torn = Torn
  MaxAttempts = 2
  Jobs = {1}
  MaxHosts = 2
  Handlers = {h1, h2}
  MaxEvents = 3
  ResendLostResults = TRUE
  SendResultAbort = TRUE
  NumUrls = 2
  MaxTasksReported = 1
  MaxSeqno = 1
PROPERTY StartedTaskGoesOn
CHECK_DEADLOCK FALSE
