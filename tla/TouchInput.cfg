SPECIFICATION Spec
CONSTANTS
  Buttons = {"attack", "equip"}
INVARIANTS
  ButtonsFollow
  CursorFollows
  NobodyWalksAlone
PROPERTIES
  TouchesAreOrdered
