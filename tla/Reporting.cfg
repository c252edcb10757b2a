SPECIFICATION FairSpec
CONSTANTS
  Missing = Missing
  Torn = Torn
  MaxAttempts = 2
  Jobs = {1, 2}
  MaxHosts = 2
  Handlers = {h1, h2}
  MaxEvents = 3
  ResendLostResults = TRUE
  SendResultAbort = TRUE
  NumUrls = 2
  MaxTasksReported = 1
  MaxSeqno = 1
INVARIANT TypeOK
INVARIANT SavedStateIsCurrent
INVARIANT HostNotMistaken
PROPERTY LiveJobsNotGivenUp
PROPERTY FinishedWorkIsRecorded
PROPERTY AbortedWorkIsUnwanted
PROPERTY ReportedInTheEnd
CHECK_DEADLOCK FALSE
