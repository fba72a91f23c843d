SPECIFICATION FairSpec
CONSTANTS
  Slot = {1, 2}
  Body = {b}
  None = None
  Losses = TRUE
  OthersAct = TRUE
  Echoes = FALSE
INVARIANTS
  TypeOK
PROPERTIES
  DoneAsCommanded
  SparesOthers
  ToggleNotContradicted
  ArmedIsThisSlot
  ShownInTheEnd
