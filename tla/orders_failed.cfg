SPECIFICATION Spec
CONSTANTS
  e1 = e1
  e2 = e2
  x1 = x1
  Entries = {e1}
  Exits = {}
  Slot <- SlotOf
  MaxBooked <- Room
  MaxAttempts = 1
  MaxCrashes = 1
  MaxLost = 0
INVARIANT FailedIsNotFilled
CHECK_DEADLOCK FALSE
