SPECIFICATION Spec
CONSTANTS
  None = None
  NoSample = NoSample
  Wrap = 3
  MaxRate = 2
  MaxElapsed = 3
  MaxPoured = 1
  MaxAgain = 1
  MaxBooked = 2
INVARIANTS
  TypeOK
  VolumeIsTrue
  BookedOnce
