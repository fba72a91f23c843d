SPECIFICATION FairSpec
CONSTANTS
  Loop = {l1, l2}
  None = None
  Cycles = 2
  MaxInFlight = 1
  ShortFrames = FALSE
INVARIANTS
  TypeOK
  RadioIsExclusive
  ShownIsTimed
PROPERTIES
  StopEndsMeasuring
  MeasuringEnds
