\* A lock run starts between the second peek and the save.
SPECIFICATION Spec
CONSTANTS
  LastDay = 0
  Monday = 0
  GateStart = 0
  DebtStart = 0
  InterimDate = 9
  RepriceDate = 9
  CurrentBase = 2
  Subs <- McSubs
  SlugOf <- McSlugOf
  LevelOf <- McLevelOf
  Devices = {"pc", "other"}
  ThisDevice = "pc"
  Harvesters = {h1}
  WithLock = TRUE
  WithSync = FALSE
  WithPeers = FALSE
  Cloud <- McNoCloud
  MaxCrash = 0
  MaxSaveFail = 0
  MaxMisread = 0
  MaxDefer = 0
  MaxStarts = 1
PROPERTIES HarvestNeverWritesUnderALock
CHECK_DEADLOCK FALSE
