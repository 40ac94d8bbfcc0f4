CONSTANTS
  Boards <- MCBoards
  MaxKeys = 1
  MaxSwitches = 2
SPECIFICATION FairSpec
INVARIANTS
  NoStrayInterrupt
  FlagsMatchMasks
  PortsWork
  DevicesFound
PROPERTIES
  BootEnds
  TimerServed
  KeyServed
\* kpanic halts, and the monitor waits for keys.
CHECK_DEADLOCK FALSE
