CONSTANTS
    s1 = s1
    t1 = t1
    t2 = t2
    Symbols = {s1}
    Trades = {t1}
    SymbolOf <- OneSymbol
    Lot = 2
    MaxIds = 3
    MaxTrails = 0
    MaxFaults = 0
    MaxTriggers = 1
    MaxCrashes = 0
    Signals <- OneTrade
    Background = {"private"}
    NoOrder = NoOrder
    NoAlgo = NoAlgo
    NoTrade = NoTrade
SPECIFICATION Spec
INVARIANTS
    TypeOK
    BooksAgree
    HeldIsProtected
PROPERTY NewBeforeOld
CHECK_DEADLOCK FALSE
