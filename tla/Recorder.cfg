SPECIFICATION FairSpec
CONSTANTS
  MaxPackets = 4
  Items = {1, 2, 3, 4}
  Null = Null
  AllocMayFail = TRUE
\* A Push without memory leaves the mutex locked: the two threads hang.
CHECK_DEADLOCK FALSE
INVARIANTS DecodedWithConfig RecordingComplete PacketsDeleted
PROPERTY RecordingEnds
