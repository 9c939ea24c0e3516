SPECIFICATION ScreensSpec
CONSTANTS
  old = old
  scripts = scripts
  fresh = fresh
  blank = blank
  Releases = {old, scripts, fresh, blank}
  First = old
  OnCard = {old, fresh}
  Keep = 1
  FetchAttempts = 2
  Draws = {old, scripts, fresh}
  Passes = {old, scripts, fresh, blank}
  KioskOf <- MCKioskOf
  CodeOf <- MCCodeOf
  PartsOf <- MCPartsOf
  None = None
  MaxPublished = 3
  MaxAccidents = 1
  Few = 2
  MaxMishaps = 2
  Letters = {"l1"}
  Calls = {"c1", "c2"}
  LoginFaults = 1
  MaxReloads = 1
  PingEvery = 1
  IdleLimit = 2
  Grace = 2
  AskMax = 1
  MaxPause = 3
  AuthPause = 4
  LinkFaults = 3
  OrderIds = {"o1", "o2"}
  Printed = {"o1"}
  Beans = 2
  Limit = 2
  Posts = {1}
  AdminStatuses = {"printing", "shipped", "arrived", "cancelled"}
  MaxAdmin = 2
  Minutes = 4
  RamKeep = 0
  RamMax = 1
  Room = 1
  UploadBatch = 2
  Clips = 3
  FromCard = {1}
  AtCounter = {2}
  Paid = 2
  MaxAttempts = 2
  Versions = 2
CHECK_DEADLOCK FALSE
INVARIANTS
  ConnectionIsHonest
PROPERTIES
  WaitEnds
  PointCatchesUp
