\* Two members of a group hand a partition over; each may be evicted once.
CONSTANTS
  m1 = m1
  m2 = m2
  Members <- MCMembers
  NoMember = NoMember
  StartOffset = "first"
  MaxLog = 2
  MaxEvicted = 2
  ConsumeArgs <- PairArgs
  DirectOffsets = {}
  FetchErrors = {}
  CommitFails = TRUE
  MaxHooks = 0
SPECIFICATION Spec
SYMMETRY MCSymmetry
INVARIANTS
  TypeOK
  NoSilentLoss
  ExclusiveDelivery
CHECK_DEADLOCK FALSE
