SPECIFICATION Spec
CONSTANTS
  c1 = c1
  e1 = e1
  e2 = e2
  n1 = n1
  n2 = n2
  none = none
  Addr <- AddrMC
  Malformed = {}
  Payers <- PayersMC
  None = none
  Name <- NameMC
  Trim <- TrimMC
  Class <- ClassMC
  Upper <- UpperMC
  Handlers = {h1}
  LoseAcks = FALSE
  MaxId = 2
  FlushLimit = 1
  MaxChanges = 3
INVARIANTS
  ConflictIsDifferentExchange
SYMMETRY Symmetry
