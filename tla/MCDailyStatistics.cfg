SPECIFICATION Spec
CONSTANTS
    a = a
    b = b
    c = c
    E1 = E1
    E2 = E2
    T10 = T10
    sTRX = sTRX
    JST = JST
    MixedCase = {sTRX}
    Assets = {T10}
    Requests <- RequestsMC
    NoAddr = NoAddr
    NoName = NoName
    USDT = "USDT"
    Addrs = {a, b, c}
    TokenNames = {"TRX", "USDT", sTRX, T10, JST, NoName}
    ValidTokens = {"TRX", "USDT", sTRX}
    ExchangeNames = {E1, E2}
    TronLinkUsers = {a, b}
    MaxChanges = 1
    PoolFactor = 1
    PoolFloor = 1
    Scans <- ScansMC
    Accounts = {a, b, c}
    NamesOfExchanges = {E1, E2}
    NoExchange = NoName
    NoAccount = NoAddr
    Worlds <- WorldsMC
    BatchSize = 2
    MaxRenames = 1
    FirstDay = 10
    LastDay = 11
    RetainDays = 1
    YearDays = 1
INVARIANTS
    NothingLost
    ExchangeReportsAgree
    RulesKeepTransfers
    ChangesAddUp
    BoardsExact
    UniqueUsersExact
    ExchangeRowsAddUp
    SharesOfTotal
    WindowIsOneScan
    StakeCountedOnce
    CreatedBeforeInsert
    RetentionExact
CHECK_DEADLOCK FALSE
