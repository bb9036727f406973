SPECIFICATION FairSpec
CONSTANTS
  p1 = p1
  bare = bare
  good = good
  broken = broken
  targeted = targeted
  None = None
  Names <- MCNames
  Specs <- MCSpecs
  Broken <- MCBroken
  Refused <- MCRefused
  Default <- MCDefault
  CacheSize = 1
  MaxUid = 2
  MaxGeneration = 2
  MaxFailures = 1
INVARIANTS
  TypeOK
  ProgramOfItsSpec
  ReadyIsTrue
  EditsSurvive
PROPERTIES
  NothingIsUndone
  Converges
