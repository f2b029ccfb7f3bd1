SPECIFICATION FairSpec
CONSTANTS
  Days <- FridayToTuesday
  Base <- LimitIs2
  Step = 2
  LossDays = 2
  Pnls <- LossOrProfit
  Glitches = {"error", "empty"}
  MaxLots = 1
  MaxManual = 1
  MaxCrashes = 2
INVARIANT PeakIsReal
PROPERTY NoEntryAfterBreach
PROPERTY BreachRouted
CHECK_DEADLOCK FALSE
