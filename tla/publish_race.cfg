\* A push that gathered before a save and one that gathered after it.
SPECIFICATION Spec
CONSTANTS
  Detached = {"save"}
  Siblings = {"screen_locker"}
  Errors = {}
  Published = FALSE
  MaxChanges = 1
  MaxFaults = 0
  Repeats = FALSE
PROPERTIES FreshBeatMeansFreshStatus
