SPECIFICATION AllSpec
CONSTANTS
  Ids = {d1, d2}
  Groups = {g1}
  Tags = {}
  Firmware <- MCFirmware
  Targets = {0, 2}
  Campaigns = {c1}
  Window = 0
  MaxTime = 1
  MaxRows = 2
  MaxFaults = 1
  Absent = Absent
  Clients = {k1, k2}
  Addresses = {a0}
  Unspecified = a0
  Rate = 1
  Burst = 10
  Cost = 2
  StaleAfter = 10
  MaxAge = 12
  NoBucket = NoBucket
  Boards = {b1, b2}
  Benches = {w1, w2}
  Owners = {7}
  Span = 2
  MaxSeconds = 2
  MaxMishaps = 1
  MaxLines = 4
  Header = Header
  Nothing = Nothing
SYMMETRY Alike
INVARIANTS ReportsAgree ExportsAreImported
PROPERTIES EvidenceKept Metered
CHECK_DEADLOCK FALSE
