SPECIFICATION FairSpec
CONSTANTS
  Capacity = 2
  Items = {1, 2, 3, 4}
  NoItem = NoItem
  AgentSendsText = FALSE
  MaxMessages = 4
INVARIANTS NoLostWakeup TextsFreedOnce
PROPERTIES ImplementsFifo StopTerminates
