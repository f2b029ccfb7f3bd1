SPECIFICATION MSpec
CONSTANTS
  s1 = s1
  s2 = s2
  s3 = s3
  x1 = x1
  x2 = x2
  x3 = x3
  Strategies = {s1, s2}
  Symbols = {x1, x2}
  MaxQty = 2
  Traded <- OneShared
  Seen <- OneShared
  MaxTotal = 4
  Self = s1
  Callers = {"c1", "c2"}
  AlertChoice <- TheAlerts
  MaxAlerts = 2
  MaxBlind = 1
  BlindSymbols = {x1, x2}
  BlindTraded <- AllSymbols
  BlindQty = 2
PROPERTY TotalsAreCovered
PROPERTY NoDirectionFlip
PROPERTY NoConflictUnseen
PROPERTY NoEntryOverOpenOrder
PROPERTY OneCallerAnswered
CHECK_DEADLOCK FALSE
