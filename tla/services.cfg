SPECIFICATION MSpec
CONSTANTS
  Asked = {"ENTRY", "EXIT", "unpriced"}
  Baskets <- OneBasket
  OrderIds = {"o"}
  Symbols = {"x"}
  RuleChoice <- SomeRules
  Quotes <- SomeQuotes
  MaxRows = 2
  MaxCrashes = 1
  MaxBusy = 1
  MaxTrades = 1
  Threads = {t1, t2}
  TTL = 3
  MaxTime = 8
  None = None
  Clients = {"c1"}
  ConfRole <- Following
  Misses = 2
  MaxAdmin = 2
  MaxStarts = 2
  Alerts = {1, 2, 3}
  Followers = {"f1"}
  Role <- Following
  Threshold = 2
  BaseBackoff = 2
  MaxBackoff = 3
  MaxWait = 2
  Slugs = {"s", "t"}
  Bodies = {"b"}
  Requests = {"r1", "r2"}
  MaxRequests = 2
  NoName = NoName
  Wanted <- FewTokens
  Supervisor = "supervisor"
  Workers = {"w1", "w2"}
  MaxAttempts = 1
  MaxLosses = 2
  MaxRecoveries = 1
  Names = {"s"}
  MaxChanges = 2
  MaxRegister = 2
  MaxAdjust = 1
  MaxFaults = 1
INVARIANT NothingTwice
PROPERTY EveryRowTaken
INVARIANT HitsSeeTheOrder
PROPERTY BlockedForMisses
INVARIANT CopiedOnce
INVARIANT NothingSavedIsLost
INVARIANT RestoredFeedDelivers
INVARIANT TableIsMemory
PROPERTY StopIsHeard
CHECK_DEADLOCK FALSE
