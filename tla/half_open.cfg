CONSTANTS
    Accounts = {fixed20, drawdown10}
    Master = fixed20
    Initial = 100000
    Fraction <- Fractions
    Ladder <- Ladders
    Leverage = 10
    Symbols <- TwoSymbols
    Cooldown = 2
    DayLength = 3
    DayCap = 1
    MaxOpen = 2
    MaxHold = 2
    Profits <- GainOrLoss
    MaxMinutes = 4
    MaxErrors = 1
    MaxCrashes = 0
    None = None
SPECIFICATION Spec
INVARIANT NothingHalfOpen
CHECK_DEADLOCK FALSE
