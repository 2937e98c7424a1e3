\* The first runs: earlier solves, a probe that may fail, a feed of one, a key that goes or comes, a clock set back.
SPECIFICATION FirstSpec
CONSTANTS
  LastDay = 1
  Monday = 1
  GateStart = 0
  DebtStart = 0
  InterimDate = 0
  RepriceDate = 9
  CurrentBase = 2
  Prices = {1, 2, 3}
  Goals <- McGoals
  Subs <- McNatSubs2
  SlugOf <- McSlugOf2
  LevelOf <- McLevelOf2
  Devices = {"pc"}
  ThisDevice = "pc"
  FeedLimit = 1
  MaxBack = 1
  MaxMarks = 1
  MaxKeyFlips = 1
  MayBeUnseeded = TRUE
  Causes = {"escape"}
INVARIANTS TypeOK
PROPERTIES PreGateNeverEarns KeepsTheBooks PayableDayUnlocks
CHECK_DEADLOCK FALSE
