SPECIFICATION FairClientsSpec
CONSTANTS
  Capacity = 2
  MaxImages = 3
  Items = {1, 2, 3}
  NoItem = NoItem
  Clients = {c1, c2}
  Fds = {f1, f2}
  Invalid = Invalid
  EAgains = {11, 35}
\* A full queue leaves the mutex locked: the program may hang (AgentStreamFull).
CHECK_DEADLOCK FALSE
INVARIANTS ImagesFreedOnce CutOnlyAtTheEnds
PROPERTIES ClientKept QuitTerminatesUnlessFull
