SPECIFICATION FairClientsSpec
CONSTANTS
  Capacity = 2
  MaxImages = 3
  Items = {1, 2, 3}
  NoItem = NoItem
  Clients = {c1}
  Fds = {f1, f2}
  Invalid = Invalid
  EAgains = {35}
\* A full queue leaves the mutex locked: the program hangs.
CHECK_DEADLOCK FALSE
PROPERTIES QuitTerminates
