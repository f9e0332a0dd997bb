SPECIFICATION FairSpec
CONSTANTS
  StartDate = 10
  StartNum = 1
  LastNum = 8
  Day <- DayMC
  NonEmpty <- NonEmptyMC
  LoseAcks = TRUE
  MaxCopies = 3
INVARIANTS
  TypeOK
  NoHole
  NothingBeyondResume
PROPERTIES
  PastDaysFrozen
  ImplementsArchive
  EveryBlockRecorded
  StopReturns
