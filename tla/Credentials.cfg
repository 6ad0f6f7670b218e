SPECIFICATION AllSpec
CONSTANTS
  Devices = {d1}
  Requests = {r1, r2}
  Epochs = {e1, e2}
  ReplayWindow = 2
  RecentEpochs = 1
  MaxCounter = 2
  MaxKeys = 1
  MaxClock = 1
  MaxFailures = 1
  None = None
  Logins = {q1, q2}
  SigningKeys = {s1, s2}
  Ttl = 1
  MaxOutages = 2
  NoKeys = NoKeys
  Accounts <- MCAccounts
  Chief <- MCChief
  RealmRoles = {"ferrite-admin", "ferrite-provisioner", "ferrite-auditor", "other"}
  Nobody = Nobody
  Versions = {v1, v2}
  Posters = {p1, p2}
  MaxBuilds = 3
  MaxReboots = 1
  NoElf = NoElf
  MaxClicks = 2
  NoOne = NoOne
  Reports = {b1, b2}
  KeyIds = {k1, k2}
  Clerks = {r1, r2}
  MaxEntries = 3
  MaxTrouble = 1
  Nothing = Nothing
INVARIANTS AcceptedOnce RememberedIsKept UsersServed ReadersTold
SYMMETRY Symmetry
CHECK_DEADLOCK FALSE
