SPECIFICATION FairSpec
CONSTANTS
  Days <- FridayToTuesday
  Base <- LimitIs2
  Step = 2
  LossDays = 2
  Pnls <- LossOrProfit
  Glitches = {}
  MaxLots = 1
  MaxManual = 0
  MaxCrashes = 0
PROPERTY Flattened
CHECK_DEADLOCK FALSE
