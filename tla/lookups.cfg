SPECIFICATION FairSpec
CONSTANTS
  Slugs = {1, 2}
  Dead = {1}
  Callers = {"harvest", "lock"}
  MaxFetch = 1
  MaxFaults = 1
PROPERTIES DeadOnesStarveNobody AskedOnceADay
