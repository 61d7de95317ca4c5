SPECIFICATION Spec
CONSTANTS
  Capacity = 2
  Items = {1, 2, 3, 4}
  NoItem = NoItem
  AgentSendsText = TRUE
  MaxMessages = 4
INVARIANT NoStaleText
