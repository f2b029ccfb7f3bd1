SPECIFICATION Spec
CONSTANTS
  m1 = m1
  r1 = r1
  Managed = {m1}
  Requesters = {}
  Strategy <- OneStrategy
  Qty = 1
  Prices = {2, 3}
  Stops = {2}
  Trigger = 1
  Step = 1
  MaxFailures = 2
  MaxExits = 2
  MaxEdits = 0
  MaxByHand = 0
  MaxLosses = 1
  MaxCrashes = 0
  MaxTroubles = 1
  MaxAttempts = 1
  MaxExtra = 0
  MaxBlinds = 0
INVARIANT ExitIsIdempotent
CHECK_DEADLOCK FALSE
