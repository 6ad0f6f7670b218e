SPECIFICATION Spec
CONSTANTS
  Keys = {k1}
  MaxMetrics = 1
  MaxFrames = 1
  MaxWrites = 2
  MaxResets = 1
  None = None
  Noise = Noise
INVARIANT NothingErasedUnsent
CHECK_DEADLOCK FALSE
