SPECIFICATION Spec
CONSTANTS
  u1 = u1
  u2 = u2
  Stores = {u1, u2}
  Handlers = {h1, h2}
  NoFile = NoFile
  NoHandler = NoHandler
  Refusing = {u2}
  BlockSize = 1
  CompletedReadOnly = TRUE
  IntMax = 100
  Files <- ManyFiles
  SmallFile = 1
  MaxUpsets = 0
INVARIANT ReportedSuccessIsComplete
CHECK_DEADLOCK FALSE
