SPECIFICATION FairUserInterfaceSpec
CONSTANTS
  FrameWidth = 2
  FrameHeight = 4
  DisplayWidth = 8
  DisplayHeight = 6
  UserLengths = {4}
  Interval = 2
  TicksModulus = 16
  MaxTicks = 3
  MaxWindowGestures = 0
  MaxDeviceGestures = 0
  MaxCounterGestures = 3
  MaxWindowFrames = 0
  MaxCounterFrames = 0
PROPERTIES StartedCounterRuns
