SPECIFICATION Spec
CONSTANTS
  N = 2
  None = None
  Torn = Torn
  MaxFaults = 3
  MaxForces = 0
  MaxUpgrades = 1
  UpgradeAnytime = TRUE
  ReadFaults = TRUE
INVARIANTS
  UnpublishedIsConserved
  WriteAhead
  SuccessIsSealed
