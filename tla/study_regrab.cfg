\* The same instance: a refused grab cannot be said either, and no loop starts.
SPECIFICATION Spec
CONSTANTS
  Screens = {"left", "right"}
  BackFaults = {"tcl"}
  MaxFaults = 3
INVARIANTS WatchersRestart
