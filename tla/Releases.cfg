SPECIFICATION FairAllSpec
CONSTANTS
  Genesis = Genesis
  NoOne = NoOne
  Anchorers = {schedule, demand}
  Requests = {r1, r2}
  Images = {x1}
  MaxEvents = 3
  MaxActive = 2
  MaxFailures = 1
  Devices = {1, 2}
  Firmware = {"f2"}
  Versions = {"v2"}
  Builds = {1, 2}
  BuildOf <- MCBuildOf
  CampaignIds = {c1}
  Plans <- Strict
  Groups <- All
  DirectTargets = {}
  None = None
  Factory = 1
  Bad <- BadOnTwo
  Paths <- OneOfEach
  MaxResets = 1
  Pairs = {k1, k2}
  MaxBuilds = 2
  NoFile = NoFile
  Blank = Blank
INVARIANTS ReleasesTold LogTrusted DirectNoReinstall
PROPERTIES EventuallyAnchored RolloutEnds
CHECK_DEADLOCK FALSE
