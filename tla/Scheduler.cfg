SPECIFICATION Spec
CONSTANTS
  Procs = {p1, p2, p3}
  nullptr = nullptr
  pid_max = 2
  Slices <- MCSlices
  MaxRemoved = 2
INVARIANTS
  OneRunning
  StatesFollowTurns
  PidsDistinct
  PidsAgree
PROPERTIES
  EventuallyDispatched
  RemovedLetGo
\* A panic stops the kernel.
CHECK_DEADLOCK FALSE
