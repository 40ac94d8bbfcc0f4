CONSTANTS
  Addrs = {1, 2, 3}
  MaxTyped = 3
  Keys = {"a", "b"}
  Shifts = {"left", "right"}
SPECIFICATION FairSpec
INVARIANTS
  GotInOrder
  ListExact
PROPERTIES
  EveryKeyReturned
  UpperIffShifted
