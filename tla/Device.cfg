SPECIFICATION AllSpec
CONSTANTS
  N = 13
  Byte <- MCByte
  Sentinel = 4
  TickBytes = 1
  MaxPayload = 3
  StageSize = 4
  Level = 1
  Messages <- MCMessages
  Ticks <- MCTicks
  Direct <- MCDirect
  MaxFrames = 4
  Records <- MCRecords
  Links <- MCLinks
  ServerKey = 1
  Missing = {0, 1, 30}
  MaxRecords = 2
  Crc <- MCCrc
  Images = {1, 2}
  SaveEvery = 2
  MaxDate = 7
  MaxBootings = 3
  MaxFailed = 1
  NoBoot = NoBoot
  ResetCodes = {0, 4, 13}
  RegionLimit = 1
  MaxNoted = 4
  MaxCrashes = 1
  Never = Never
INVARIANTS
  RingReads
  RecordsSurvive
  RebootTold
  CallersServed
PROPERTY
  UndisturbedIsWhole
CHECK_DEADLOCK FALSE
