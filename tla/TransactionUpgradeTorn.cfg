SPECIFICATION Spec
CONSTANTS
  N = 2
  None = None
  Torn = Torn
  MaxFaults = 1
  MaxForces = 1
  MaxUpgrades = 1
  UpgradeAnytime = TRUE
  ReadFaults = FALSE
INVARIANT ScratchIsHarmless
