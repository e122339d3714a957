SPECIFICATION LiveSpec
CONSTANTS
    None = None
    Prices <- TwoPrices
    MaxDecisions = 2
    MaxFaults = 2
INVARIANTS TypeOK FirstArmFailsClosed
PROPERTIES ArmResolves OrphansSwept
CHECK_DEADLOCK FALSE
