SPECIFICATION Spec
CONSTANTS
  Entries <- MCEntries
  KernelPhys = 40
  KernelVirt = 252
  Fan = 4
  FrameBytes = 8
  HighFrame = 2
  PagesAsked = {1, 2}
  Absent = Absent
  Limine = Limine
INVARIANT KernelReachable
PROPERTY ImplementsPageMap
\* Memory is used up.
CHECK_DEADLOCK FALSE
