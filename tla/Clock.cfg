SPECIFICATION Spec
CONSTANTS
  Calendar <- MCCalendar
  TicksPerSec = 7
  Drift = 1
  Uip = 1
  divisor = 3
  MaxLost = 1
  Sleeps = {0, 1, 7}
INVARIANTS
  FieldsRecent
  SleepLongEnough
  ShownNotBefore
PROPERTY SleepEnds
\* The modelled seconds come to an end.
CHECK_DEADLOCK FALSE
