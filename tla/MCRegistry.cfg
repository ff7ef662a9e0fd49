\* A client, caching or not, on a registry whose subjects other VUs evolve.
CONSTANTS
  s1 = s1
  s2 = s2
  s3 = s3
  Schemas <- MCSchemas
  IdOf <- MCIdOf
  NameOf <- MCNameOf
  Writes <- MCWrites
  Reads <- MCReads
  MaxVersions = 2
  NoSchema = NoSchema
SPECIFICATION Spec
INVARIANTS
  TypeOK
  CacheFaithful
  EnvelopeNeverMisread
  FreshWithoutCaching
  RecordAsNamed
PROPERTIES
  CachePinned
  CallsEnd
CHECK_DEADLOCK FALSE
