SPECIFICATION FairSpec
CONSTANTS
  Capacity = 2
  MaxRequests = 5
  Items = {1, 2, 3, 4, 5}
  NoItem = NoItem
  None = None
INVARIANTS ExecutedInOrder NothingLeft PidIsCurrent
PROPERTY StopTerminates
