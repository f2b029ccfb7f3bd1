SPECIFICATION MSpec
CONSTANTS
  EntryLegs = {"a"}
  ExtraLegs = {"b"}
  Strikes = {1, 2}
  ByContract = {}
  MaxOrders = 2
  MaxDays = 2
  MaxFaults = 1
  Nothing = Nothing
  NoLimit = NoLimit
  RuleTags = {"ce", "pe", "hedge", "x", "y"}
  Rulebook <- SomeConfigs
  Prices = {1, 2}
  Pause = 2
  RuleTicks = 6
  RuleDays = 2
  RuleCrashes = 1
INVARIANT NeverDoubled
PROPERTY HeldLegsStayActive
PROPERTY WaitingLegSettles
INVARIANT LockedInIsKept
INVARIANT CrossingsActedOnOnce
CHECK_DEADLOCK FALSE
