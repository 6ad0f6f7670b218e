SPECIFICATION AllSpec
CONSTANTS
  None = None
  Nobody = Nobody
  Box = Box
  Board = Board
  MaxSpooled = 2
  MaxReports = 3
  MaxForwarded = 1
  MaxFailures = 1
  MaxBoots = 3
  MaxFaults = 2
  MaxSent = 3
  MaxSessions = 1
  Capacity = 2
  MaxRetries = 2
  MaxCrashes = 1
  AuthChoices <- MixedAuth
  Peripherals = {p1, p2}
  MaxScans = 2
  NoPeer = NoPeer
INVARIANTS
  SpoolInOrder
  RebootOnce
  ReceivedAsOwn
PROPERTIES
  NothingLost
  OldestFirst
