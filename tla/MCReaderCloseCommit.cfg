\* Cancellation during close loses the explicit commit.
CONSTANTS
  m1 = m1
  m2 = m2
  Members <- MCOne
  NoMember = NoMember
  StartOffset = "first"
  MaxLog = 2
  MaxEvicted = 0
  ConsumeArgs <- AnyArgs
  DirectOffsets = {}
  FetchErrors = {}
  CommitFails = FALSE
  MaxHooks = 0
SPECIFICATION Spec
INVARIANTS
  CloseCommitsConsumed
CHECK_DEADLOCK FALSE
