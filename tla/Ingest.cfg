SPECIFICATION FairSpec
CONSTANTS
  a = a
  k = k
  None = None
  Ids = {a, k}
  KeyRow <- MCKeyRow
  Signatures = {s1}
  Uploads <- MCUploads
  OfflineAfter = 0
  RetainFor = 0
  MaxFaults = 2
  MaxFailures = 1
INVARIANTS
  AnsweredIsStored
  GroupsCover
PROPERTIES
  OneAlertPerSilence
  SilentGoesOffline
CHECK_DEADLOCK FALSE
