\* Two failed polls open the hatch; the ordinary escape is left or used up.
SPECIFICATION FairSpec
CONSTANTS
  HatchPolls = 2
  BurstPokes = 1
  EscapeBudget = 1
  MaxScreens = 1
  MaxRings = 2
  MaxFlips = 1
  MaxUnplugs = 1
INVARIANTS OneChain BlindTimeIsWaited
PROPERTIES LoopIsPeriodic LoopNeverDies SolveLetsGo BlindLockOffersAWayOut
CHECK_DEADLOCK FALSE
