SPECIFICATION MCSpec
CONSTANTS
  Paths = {"run", "tmp"}
  SharedTmp = "tmp"
  None = "-"
  WorkSteps = 1
  MaxPolls = 1
  MaxFaults = 2
INVARIANTS
  NothingIsLeft
  TheEndIsShown
  WorkIsWatched
PROPERTIES
  AlwaysEnds
