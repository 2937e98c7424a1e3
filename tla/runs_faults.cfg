\* Two harvests and lock runs with every fault once.
SPECIFICATION Spec
CONSTANTS
  LastDay = 1
  Monday = 0
  GateStart = 0
  DebtStart = 0
  InterimDate = 9
  RepriceDate = 9
  CurrentBase = 2
  Subs <- McSubs
  SlugOf <- McSlugOf
  LevelOf <- McLevelOf
  Devices = {"pc", "other"}
  ThisDevice = "pc"
  Harvesters = {h1, h2}
  WithLock = TRUE
  WithSync = FALSE
  WithPeers = TRUE
  Cloud <- McNoCloud
  MaxCrash = 1
  MaxSaveFail = 1
  MaxMisread = 1
  MaxDefer = 1
  MaxStarts = 2
INVARIANTS TypeOK LossNeedsOverlap Solvent PaidDayIsOnDiskUnlessRaced
SYMMETRY McHarvesters
CHECK_DEADLOCK FALSE
