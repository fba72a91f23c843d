SPECIFICATION FairSpec
CONSTANTS
  k = k
  m = m
  Dev = {d1, d2}
  Key = {k}
  Model = {m}
  Supported = {m}
  None = None
  Answers <- MCAnswers
  MaxReloads = 2
INVARIANTS
  TypeOK
  ExclusionsStick
  RegistryFollows
PROPERTIES
  OnlyUntickedGo
  KeysKept
  ChosenIsRun
