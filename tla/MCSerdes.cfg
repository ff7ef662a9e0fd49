\* Every value and container, relayed twice.
CONSTANTS
  Numbers <- MCNumbers
  Longs <- MCLongs
  Texts <- MCTexts
  Blobs <- MCBlobs
  Containers <- MCContainers
  MaxHops = 2
SPECIFICATION Spec
INVARIANTS
  AvroKept
  JsonObjectsKept
  PlainKept
  WrittenIsReadable
CHECK_DEADLOCK FALSE
