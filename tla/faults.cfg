CONSTANTS
    s1 = s1
    t1 = t1
    t2 = t2
    Symbols = {s1}
    Trades = {t1, t2}
    SymbolOf <- OneSymbol
    Lot = 1
    MaxIds = 2
    MaxTrails = 1
    MaxFaults = 1
    MaxTriggers = 0
    MaxCrashes = 0
    Signals <- TradeAndOpening
    Background = {"private"}
    NoOrder = NoOrder
    NoAlgo = NoAlgo
    NoTrade = NoTrade
SPECIFICATION Spec
INVARIANTS
    BooksAgree
    HeldIsProtected
    NoStrayStops
PROPERTY CoverUntilAlarm
CHECK_DEADLOCK FALSE
