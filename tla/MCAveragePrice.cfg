SPECIFICATION PartSpec
CONSTANTS
    a1 = a1
    a2 = a2
    a3 = a3
    Addr <- AddrMC
    Name <- NameMC
    Trim <- TrimMC
    Class <- ClassMC
    Upper <- UpperMC
    Handlers = {h1}
    u = u
    v = v
    Parts = {"market"}
    Actors = {u, v}
    NoActor = NoActor
    Configured = {"stake", "usdt"}
    Threshold <- ThresholdMC
    Chains <- ChainsMC
    MaxRestarts = 1
    PairNames = {"P", "Q"}
    PricePair = "P"
    Observations <- ObservationsMC
    Slots = {0, 1}
    DaysInMonth = 2
    FinalDay = 2
    MaxPolls = 2
    Limits = {20}
    MaxRules = 2
    NoPair = NoPair
INVARIANT
    PricesAveraged
CHECK_DEADLOCK FALSE
