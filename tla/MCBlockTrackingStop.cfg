SPECIFICATION RunningSpec
CONSTANTS
  StartDate = 10
  StartNum = 1
  LastNum = 8
  Day <- DayMC
  NonEmpty <- NonEmptyMC
  LoseAcks = FALSE
  MaxCopies = 2
PROPERTIES
  StopReturns
