SPECIFICATION Spec
CONSTANTS
  Events = {e1, e2, e3}
  NoEvent = NoEvent
  QueueSize = 1
SYMMETRY EventSymmetry
INVARIANTS FatalIsReturned
CHECK_DEADLOCK FALSE
