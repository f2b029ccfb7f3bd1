SPECIFICATION FairSpec
CONSTANTS
  e1 = e1
  e2 = e2
  x1 = x1
  Entries = {e1}
  Exits = {x1}
  Slot <- SlotOf
  MaxBooked <- Room
  MaxAttempts = 1
  MaxCrashes = 1
  MaxLost = 2
INVARIANT AcknowledgedOnce
INVARIANT FillNotifiedOnce
PROPERTY ExitDispatched
PROPERTY KeepsContract
CHECK_DEADLOCK FALSE
