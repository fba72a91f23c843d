SPECIFICATION Spec
CONSTANTS
  Loop = {l1, l2}
  None = None
  Cycles = 2
  MaxInFlight = 2
  ShortFrames = FALSE
SYMMETRY Symmetry
INVARIANTS
  MeasuringIsWanted
