SPECIFICATION FairSpec
CONSTANTS
  None = None
  Environments <- Links
  Grace = 1
  Guard = 1
  HasFlow = TRUE
INVARIANTS
  TypeOK
  OffTimerNotEarly
PROPERTIES
  NoPhantomPoll
  RecoverySparesCommand
  ShownRunEnds
  DelayNeedsEcho
  StopCloses
  PollAlwaysReads
