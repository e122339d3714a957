CONSTANTS
    s1 = s1
    t1 = t1
    t2 = t2
    Symbols = {s1}
    Trades = {t1}
    SymbolOf <- OneSymbol
    Lot = 2
    MaxIds = 2
    MaxTrails = 0
    MaxFaults = 1
    MaxTriggers = 0
    MaxCrashes = 1
    Signals <- OneOpening
    Background = {"private"}
    NoOrder = NoOrder
    NoAlgo = NoAlgo
    NoTrade = NoTrade
SPECIFICATION Spec
INVARIANTS
    SentAtMostOnce
    LedgerNeverAhead
    NakedRaisesAlarm
PROPERTIES
    NewBeforeOld
CHECK_DEADLOCK FALSE
