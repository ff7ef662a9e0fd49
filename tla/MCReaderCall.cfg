\* One reader, in a group or direct: its calls against deadlines, cancellation and fetch errors.
CONSTANTS
  m1 = m1
  m2 = m2
  Members <- MCOne
  NoMember = NoMember
  StartOffset = "last"
  MaxLog = 3
  MaxEvicted = 0
  ConsumeArgs <- AnyArgs
  DirectOffsets <- MCDirect
  FetchErrors = {"fatal", "contextual"}
  CommitFails = TRUE
  MaxHooks = 1
SPECIFICATION Spec
INVARIANTS
  DirectGapless
  StoppedVUIsCancelled
  CountsMatchDelivery
  OnlyLateHooksUnreported
PROPERTIES
  ConsumeReturns
  CloseReleases
CHECK_DEADLOCK FALSE
