SPECIFICATION Spec
CONSTANTS
  Procs = {p1, p2, p3}
  nullptr = nullptr
  pid_max = 2
  Slices <- MCSlices
  MaxRemoved = 2
PROPERTY WrapsAround
\* A panic stops the kernel.
CHECK_DEADLOCK FALSE
