\* Liveness: an entry and the exit that follows it.
SPECIFICATION LiveSpec
CONSTANTS
    a = a
    Symbols <- A
    History = 0
    MaxRows = 2
    BatchSize = 2
    MaxCrashes = 0
PROPERTIES OutboxDrains ReconcileHaltClears
CHECK_DEADLOCK FALSE
