\* One writer with any requiredAcks, a lossy network, and no retry, one, or no limit.
CONSTANTS
  r1 = r1
  r2 = r2
  ta = ta
  tb = tb
  Records <- MCRecords
  Topics <- MCTopics
  NoTopic = NoTopic
  TopicOf <- MCTopicOf
  DefaultTopics <- MCDefaultTopics
  AckSettings <- MCAckSettings
  AttemptSettings <- MCAttemptSettings
  Unset = Unset
  MaxCopies = 2
SPECIFICATION Spec
INVARIANTS
  TypeOK
  CountedIsWritten
  NoDuplicates
  SettledOnReturn
  AllCounted

  
CHECK_DEADLOCK FALSE
