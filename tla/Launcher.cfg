SPECIFICATION FairScript
CONSTANTS
  Codes <- MCCodes
  Signals <- MCSignals
  Killed = 137
  Ticks = 10
  None = None
  MaxSignals = 3
INVARIANTS
  EndsWithTheGame
PROPERTIES
  ObeyedShutdownCompletes
  DeadlineHolds
CHECK_DEADLOCK FALSE
