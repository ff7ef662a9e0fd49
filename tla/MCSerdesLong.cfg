\* A record with a long, written by a script or by another producer, and relayed.
CONSTANTS
  Numbers <- SmallNumbers
  Longs <- MCLongs
  Texts <- MCTexts
  Blobs <- MCBlobs
  Containers <- LongContainers
  MaxHops = 1
SPECIFICATION Spec
INVARIANT AvroRoundTrip
CHECK_DEADLOCK FALSE
