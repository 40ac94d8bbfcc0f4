CONSTANTS
  H = 2
  P = 8
  FirstFrame = 2
  MemFrames = 10
  LowMapped = {40}
  Fan = 4
  Bytes = {2, 9}
  AlignedPages = {1}
SPECIFICATION Spec
INVARIANTS
  ListInOrder
  BlocksDisjoint
  BlocksBacked
  AlignedBlocks
  PagesCovered
PROPERTIES
  MergingComplete
