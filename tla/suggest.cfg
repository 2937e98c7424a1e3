SPECIFICATION FairSpec
CONSTANTS
  Problems = {1, 2, 3, 4, 5, 6}
  Paid = {4}
  Old = {2}
  Bench = 2
  Initial = 2
  Batch = 2
  MaxSolves = 1
  MaxFaults = 2
INVARIANTS KnownSolvedStaysHidden BenchIsConfirmed AskedOnce
PROPERTIES LockComesUp RevealedIsChecked
