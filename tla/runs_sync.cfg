\* Harvests, a lock run and a hand-started sync with another machine.
SPECIFICATION FairSpec
CONSTANTS
  LastDay = 0
  Monday = 0
  GateStart = 0
  DebtStart = 0
  InterimDate = 9
  RepriceDate = 9
  CurrentBase = 2
  Subs <- McSubs2
  SlugOf <- McSlugOf2
  LevelOf <- McLevelOf2
  Devices = {"pc", "other"}
  ThisDevice = "pc"
  Harvesters = {h1}
  WithLock = TRUE
  WithSync = TRUE
  WithPeers = TRUE
  Cloud <- McCharge
  MaxCrash = 0
  MaxSaveFail = 0
  MaxMisread = 0
  MaxDefer = 0
  MaxStarts = 1
CHECK_DEADLOCK FALSE
PROPERTIES SolvesStayBanked
