CONSTANTS
  Regions <- TwoRegions
  NumFrames = 20
  FrameBytes = 3
  HighFrame = 4
  StrayBits = 1
  Sizes = {1, 3, 9}
SPECIFICATION Spec
INVARIANTS
  AllocationsDisjoint
  OnlyUsableHandedOut
  BitmapAgrees
  PanicsOnlyWhenTight
PROPERTY ImplementsPool
