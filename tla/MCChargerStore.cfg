SPECIFICATION Spec
CONSTANTS
  a1 = a1
  a2 = a2
  bad = bad
  n1 = n1
  n2 = n2
  none = none
  Addr <- AddrMC
  Malformed <- MalformedMC
  Name <- NameMC
  None = none
  InitialTables <- TablesMC
  LoseAcks = TRUE
  MaxId = 2
INVARIANTS
  TypeOK
  IdsAreLastRows
  SideMapsExclusive
  GenuineHasNoConflict
  CleanIsDurable
PROPERTIES
  FakeIsSticky
SYMMETRY Symmetry
