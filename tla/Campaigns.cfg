SPECIFICATION Spec
CONSTANTS
  Devices = {1, 2}
  Firmware = {"f2", "f3"}
  Versions = {"v2", "v3"}
  Builds = {2, 3}
  BuildOf <- MCBuildOf
  CampaignIds = {c1, c2}
  Plans <- TwoPlans
  Groups <- Overlapping
  DirectTargets <- ByHand
  None = None
INVARIANTS CompletedIsDone ActiveWithinThreshold ProgressReported
PROPERTY WithdrawnForCause
SYMMETRY Symmetry
