\* Values for unions.
CONSTANTS
  Numbers <- MCNumbers
  Longs <- MCLongs
  Texts <- MCTexts
  Blobs <- MCBlobs
  Containers <- UnionContainers
  MaxHops = 1
SPECIFICATION Spec
INVARIANT UnionAccepted
CHECK_DEADLOCK FALSE
