SPECIFICATION SignInSpec
CONSTANTS
  MaxClicks = 1
  NoOne = NoOne
INVARIANT LoginMeansNoSession
CHECK_DEADLOCK FALSE
