\* A status already out whose content may come back; one fault of any kind.
SPECIFICATION FairSpec
CONSTANTS
  Detached = {"save"}
  Siblings = {"screen_locker"}
  Errors = {"e1"}
  Published = TRUE
  MaxChanges = 2
  MaxFaults = 1
  Repeats = TRUE
INVARIANTS ToldOnce
PROPERTIES LoneBeatMeansFreshStatus LocalCatchesUp PhoneCatchesUp
