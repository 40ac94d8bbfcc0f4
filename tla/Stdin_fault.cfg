CONSTANTS
  Addrs = {1, 2, 3, 4}
  MaxTyped = 3
  Keys = {"a"}
  Shifts = {}
SPECIFICATION Spec
INVARIANT PopulatedAfterWait
