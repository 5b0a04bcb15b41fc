SPECIFICATION FairSpec
CONSTANTS
  l1 = l1
  l2 = l2
  tmp = tmp
  Launchers = {l1, l2}
  Nobody = Nobody
  Hands = {h1, f1}
  Forced = {f1}
  LockRoot <- OneRoot
  MaxFaults = 2
INVARIANTS
  ResultIsTruthful
  GamePlaysReady
  OneGame
PROPERTIES
  FreshResultIsKept
  AlwaysPlaysAgain
