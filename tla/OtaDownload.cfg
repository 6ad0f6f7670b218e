SPECIFICATION FairSpec
CONSTANTS
  Half = 4
  New = 2
  NoHeader = NoHeader
  None = None
  Headers <- MCHeaders
  Images <- MCImages
  Factory <- Old
  Duds = {3}
  Floor <- MCFloor
  ServerKeys = {}
  DeviceKeys = {"k"}
  ActiveSize = 4
  WriteSize = 2
  Erased = 15
  Noise = 14
  MaxUploads = 2
  MaxOrders = 2
  MaxFaults = 2
INVARIANT Recoverable
PROPERTIES TrialKept UpdateArrives
CHECK_DEADLOCK FALSE
