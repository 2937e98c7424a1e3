\* Two screens, failures Tk raises on the way back, any failure on the way in.
SPECIFICATION FairSpec
CONSTANTS
  Screens = {"left", "right"}
  BackFaults = {"tcl"}
  MaxFaults = 3
INVARIANTS LockedIsGuarded StudyIsForABrowser VtComesBack
PROPERTIES ClaimFallsFirst GrabComesBack SolveEndsStudy
