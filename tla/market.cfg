SPECIFICATION MSpec
CONSTANTS
  BotThreads = {t1, t2}
  MaxRetries = 2
  MaxLogins = 1
  MaxCalls = 2
  MaxExpiries = 1
  MaxFails = 2
  TTL = 2
  Rest = 3
  MaxNow = 6
  MaxAsks = 4
  Keys = {"k1", "k2"}
  Users = {"user"}
  MaxAttempts = 2
  MaxBundles = 6
  MaxStarts = 3
  MaxFaults = 2
  Strikes = {1, 2, 3}
  Chains <- SomeChains
  Selections <- SomeSelections
  Unknown = Unknown
  MaxWrites = 1
  MaxSnapshots = 3
  MaxRows = 2
  MaxFailures = 1
INVARIANT AnsweredOrdersStay
INVARIANT LoginsAreFew
INVARIANT NoStoreLeaked
PROPERTY GreeksComeBack
INVARIANT DeltaIsNearest
PROPERTY ReaderFindsTheFile
INVARIANT NothingCountedTwice
CHECK_DEADLOCK FALSE
