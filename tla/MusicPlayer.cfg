SPECIFICATION FairSpec
CONSTANTS
  cave = cave
  field = field
  boss = boss
  Tracks <- Three
  Broken <- OneIs
  NumBuffers = 2
  TrackLen = 3
  MaxStalls = 2
  None = None
INVARIANTS
  PlaysAsAsked
PROPERTIES
  PauseHolds
  EventuallyPlays
CHECK_DEADLOCK FALSE
