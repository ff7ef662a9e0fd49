\* Two VUs create, delete and list a topic, one with any layout.
CONSTANTS
  c1 = c1
  c2 = c2
  Conns = {c1, c2}
  Topics = {"t"}
  Internal = {"offsets"}
  NoName = "empty"
  TopicConfigs <- MCTopicConfigs
  MaxInt32 = 3
  MaxInt16 = 1
  MaxRetries = 1
SPECIFICATION Spec
INVARIANTS
  TypeOK
  LayoutAsConfigured
  SuccessIsOwn
  ListNeverTruncated
PROPERTY CallsReturn
CHECK_DEADLOCK FALSE
