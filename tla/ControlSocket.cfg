SPECIFICATION SocketSpec
CONSTANTS
  TextMax = 5
  InjectMax = 4
  ClipboardMax = 5
  Inputs <- MCInputs
  UserTexts <- MCUserTexts
  MaxPushed = 3
  MaxCopies = 2
INVARIANTS RoomInBuffer CopiedWhenWhole DeviceReadsWhatWasPushed
