\* Safety and refinement: one symbol, two signals after one of history, a crash.
SPECIFICATION Spec
CONSTANTS
    a = a
    Symbols <- A
    History = 1
    MaxRows = 3
    BatchSize = 2
    MaxCrashes = 1
INVARIANTS TypeOK HaltUntilProven
PROPERTIES QueueSpec
CHECK_DEADLOCK FALSE
