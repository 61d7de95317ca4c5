SPECIFICATION FairSpec
CONSTANTS
  IntModulus = 256
  FloatStep = 2
  DecimalStep = 5
  MaxFiles = 4
  Clients = {c1, c2}
  NoClient = none
  MaxDocuments = 2
  MaxToggles = 2
  MaxPushes = 1
INVARIANTS RecordingWellFormed CrashesForAReason ActedWhenAlone
PROPERTIES ClientsServed StopTerminates
