SPECIFICATION FairAllSpec
CONSTANTS
  Keys = {k1, k2}
  MaxMetrics = 2
  MaxFrames = 1
  MaxWrites = 3
  MaxResets = 2
  None = None
  Noise = Noise
  MaxPayload = 4
  Payloads <- MCPayloads
  NoiseBytes <- MCNoise
  MaxSent = 3
  MaxWire = 8
  MaxFaults = 2
INVARIANTS BlockingErasesSent RecordsKept NoNoiseSent DeliversSent
PROPERTIES RecordsEventuallyUploaded NothingSkipped
CHECK_DEADLOCK FALSE
