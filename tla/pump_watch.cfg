SPECIFICATION Spec
CONSTANTS
    Heights <- Two
    Mature = 1
    HighPump = 1
    Families = {"fast_dump", "slow_distribution"}
    ConfirmBars = 2
    Cooldown = 4
    ActiveFor = 4
    DiscoverEvery = 2
    MaxTime = 6
    MaxCrashes = 1
    None = None
INVARIANTS TypeOK AlertsSpaced HighPumpOnce RowIsMemory OneLiveRow
PROPERTIES CompletedIsFinal
CHECK_DEADLOCK FALSE
