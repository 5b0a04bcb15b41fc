SPECIFICATION FairSpec
CONSTANTS
  N = 2
  None = None
  Torn = Torn
  MaxFaults = 2
  MaxForces = 1
  MaxUpgrades = 1
  UpgradeAnytime = FALSE
  ReadFaults = FALSE
INVARIANTS
  Conserved
  ScratchIsHarmless
  SuccessIsSettled
PROPERTIES
  RollbackRestores
  InstallsAtomically
  EventuallyReady
CHECK_DEADLOCK TRUE
