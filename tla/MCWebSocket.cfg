SPECIFICATION FairSpec
CONSTANTS
  MaxFrames = 2
  Lengths = {2}
INVARIANTS FramesIntact Prompt
PROPERTY EndIsHeard
CHECK_DEADLOCK FALSE
