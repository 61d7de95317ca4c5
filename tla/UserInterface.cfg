SPECIFICATION FairUserInterfaceSpec
CONSTANTS
  FrameWidth = 2
  FrameHeight = 4
  DisplayWidth = 8
  DisplayHeight = 6
  UserLengths = {1, 4}
  Interval = 2
  TicksModulus = 16
  MaxTicks = 3
  MaxWindowGestures = 2
  MaxDeviceGestures = 2
  MaxCounterGestures = 2
  MaxWindowFrames = 1
  MaxCounterFrames = 2
INVARIANTS ScreenMatchesWindow InputsSentOnce AbortsOnlyAtTheEdges CountsOneInterval
PROPERTIES QuitJoinsCounter
