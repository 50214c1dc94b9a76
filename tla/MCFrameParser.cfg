SPECIFICATION ParserSpec
CONSTANTS
  HeaderSize = 3
  MaxFrameSize = 3
  FrameLengths = {0, 1, 3, 4}
  MaxInput = 14
INVARIANT NothingHeldBack
PROPERTY IsFrameStream
CHECK_DEADLOCK FALSE
