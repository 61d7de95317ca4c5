SPECIFICATION FairSpec
CONSTANTS
  MaxFrames = 4
  MaxEvents = 3
  MaxConnections = 1
INVARIANTS RendersLatestFrame ImageNotOlderThanScreen
PROPERTIES ImplementsMailbox PendingFrameConsumed QuitTerminates
