SPECIFICATION MSpec
CONSTANTS
  e1 = e1
  e2 = e2
  x1 = x1
  Entries = {e1, e2}
  Exits = {}
  Slot <- SlotOf
  MaxBooked <- Room
  MaxAttempts = 2
  MaxCrashes = 1
  MaxLost = 1
  Keys = {"k"}
  Users = {"u"}
  MaxRuns = 2
  MaxDays = 2
  MaxFaults = 2
INVARIANT OneEntryPerSlot
INVARIANT GainsCountOnce
SYMMETRY AlikeEntries
CHECK_DEADLOCK FALSE
