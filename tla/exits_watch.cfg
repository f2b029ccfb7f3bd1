SPECIFICATION FairSpec
CONSTANTS
  m1 = m1
  r1 = r1
  Managed = {m1}
  Requesters = {r1}
  Strategy <- OneStrategy
  Qty = 1
  Prices = {0, 2, 4}
  Stops = {1}
  Trigger = 1
  Step = 1
  MaxFailures = 2
  MaxExits = 5
  MaxEdits = 1
  MaxByHand = 1
  MaxLosses = 1
  MaxCrashes = 1
  MaxTroubles = 1
  MaxAttempts = 2
  MaxExtra = 1
  MaxBlinds = 1
INVARIANT StopPersisted
INVARIANT BoundedRetries
INVARIANT NoReversalAlone
PROPERTY StopNeverLoosens
PROPERTY HitIsActedOn
CHECK_DEADLOCK FALSE
