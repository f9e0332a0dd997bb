SPECIFICATION Spec
CONSTANTS
  StartDate = 10
  LastDay = 12
  Tracked <- TrackedMC
  WeekOf <- WeekOfMC
  Asked = {11}
  Scopes <- RivalScopes
  Size <- SizeMC
  Lossy <- LossyMC
  MaxCopies = 2
INVARIANTS
  FlushIdempotent
