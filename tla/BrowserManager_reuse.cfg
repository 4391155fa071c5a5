CONSTANTS
  Slots = {c1, c2}
  MaxFaults = 1
SPECIFICATION Spec
PROPERTIES
  DeadNotReused
