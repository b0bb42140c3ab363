SPECIFICATION LiveSpec
CONSTANTS
  Events = {e1, e2, e3}
  NoEvent = NoEvent
  QueueSize = 1
INVARIANTS TypeOK BoundedOverlap ListenGoesOn SuccessIsEarned
PROPERTIES AcceptedGetsTurn CancelEnds
CHECK_DEADLOCK FALSE
