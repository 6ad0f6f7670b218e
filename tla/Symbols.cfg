SPECIFICATION SymbolsSpec
CONSTANTS
  Versions = {v1, v2}
  Posters = {p1, p2}
  MaxBuilds = 3
  MaxReboots = 1
  NoElf = NoElf
INVARIANT MatchingIsRead
CHECK_DEADLOCK FALSE
