\* One collector, either role, two topics, up to MaxSeen events of each class.
CONSTANTS
  t1 = t1
  t2 = t2
  Topics <- MCTopics
  Untagged = Untagged
  MaxSeen <- MCMaxSeen
  MaxCalled = 1
SPECIFICATION Spec
INVARIANTS
  TypeOK
  ExactlyOnce
  ReportedTogether
  CallSitesKept
PROPERTIES
  FlushEnds
  ImplementsLedger
