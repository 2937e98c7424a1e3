\* Friday to Monday, across the last re-pricing; a day off, or the clock set back once.
SPECIFICATION WeekSpec
CONSTANTS
  LastDay = 3
  Monday = 3
  GateStart = 0
  DebtStart = 0
  InterimDate = 0
  RepriceDate = 2
  CurrentBase = 2
  Prices = {1, 2, 3}
  Goals <- McGoals
  Subs <- McNatSubs2
  SlugOf <- McSlugOf2
  LevelOf <- McLevelOf2
  Devices = {"pc"}
  ThisDevice = "pc"
  FeedLimit = 2
  MaxBack = 1
  MaxMarks = 1
  MaxKeyFlips = 0
  MayBeUnseeded = FALSE
  Causes = {"escape"}
INVARIANTS Solvent EveryDayCostsItsPrice ForgettingNeverPays WorkIsThePriceLessTheCredits RulesDemandIsTaken MinimalPriceLands OnlyPaidDaysEarn
PROPERTIES OnlyALateOffDayOverpays
CHECK_DEADLOCK FALSE
