SPECIFICATION Spec
CONSTANTS
  p = p
  q = q
  r = r
  None = None
  Plans = {p, q, r}
  Fingerprint <- MCFingerprint
  NumItems = 2
  NumFiles = 3
  NumHooks = 3
  Target <- MCTarget
  Checked <- MCChecked
  MaxFaults = 3
  MaxChanges = 2
INVARIANTS
  StagedIsFresh
  StateDescribesStage
PROPERTIES
  AlwaysStages
