SPECIFICATION Spec
CONSTANTS
  c1 = c1
  e1 = e1
  e2 = e2
  n1 = n1
  n2 = n2
  none = none
  Addr <- AddrMC
  Malformed = {}
  Payers <- PayersMC
  None = none
  Name <- PlainNameMC
  Trim <- PlainTrimMC
  Class <- PlainClassMC
  Upper <- PlainUpperMC
  Handlers = {h1}
  LoseAcks = FALSE
  MaxId = 2
  FlushLimit = 1
  MaxChanges = 3
INVARIANTS
  FakeHasCause
  ConflictIsDifferentExchange
  ChargerOfExchangeMet
PROPERTIES
  ImplementsLedger
SYMMETRY PlainSymmetry
VIEW WithoutRegistryHistory
