CONSTANTS
  Regions <- LongRegions
  NumFrames = 24
  FrameBytes = 4
  HighFrame = 19
  StrayBits = 1
  Sizes = {10}
SPECIFICATION Spec
INVARIANT OnlyUsableHandedOut
