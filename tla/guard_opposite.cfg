SPECIFICATION Spec
CONSTANTS
  s1 = s1
  s2 = s2
  s3 = s3
  x1 = x1
  x2 = x2
  x3 = x3
  Strategies = {s1, s2, s3}
  Symbols = {x1}
  MaxQty = 2
  Traded <- AllSymbols
  Seen <- AllSymbols
PROPERTY NoConflictingEntry
