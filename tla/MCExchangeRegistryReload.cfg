SPECIFICATION Spec
CONSTANTS
  a1 = a1
  a2 = a2
  a3 = a3
  Addr <- AddrMC
  Name <- NameMC
  Trim <- TrimMC
  Class <- ClassMC
  Upper <- UpperMC
  Handlers = {h1}
INVARIANTS
  OneSpellingAfterLoad
SYMMETRY Symmetry
