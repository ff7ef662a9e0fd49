\* A hook event during close never reaches the summary.
CONSTANTS
  m1 = m1
  m2 = m2
  Members <- MCOne
  NoMember = NoMember
  StartOffset = "first"
  MaxLog = 2
  MaxEvicted = 0
  ConsumeArgs <- AnyArgs
  DirectOffsets = {}
  FetchErrors = {}
  CommitFails = FALSE
  MaxHooks = 1
SPECIFICATION Spec
INVARIANTS
  CloseReportsEverything
CHECK_DEADLOCK FALSE
