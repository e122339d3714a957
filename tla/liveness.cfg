CONSTANTS
    s1 = s1
    t1 = t1
    t2 = t2
    Symbols = {s1}
    Trades = {t1}
    SymbolOf <- OneSymbol
    Lot = 1
    MaxIds = 2
    MaxTrails = 0
    MaxFaults = 1
    MaxTriggers = 1
    MaxCrashes = 1
    Signals <- OneTrade
    Background = {"periodic"}
    NoOrder = NoOrder
    NoAlgo = NoAlgo
    NoTrade = NoTrade
SPECIFICATION LiveSpec
INVARIANT SentAtMostOnce
PROPERTIES
    QueueSpec
    ClosingResolves
    NakedNoticed
    LeftoverCancelled
CHECK_DEADLOCK FALSE
