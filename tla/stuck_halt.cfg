\* The halt of a failed stream: nothing is published, no crash.
SPECIFICATION StreamSpec
CONSTANTS
    a = a
    Symbols <- A
    History = 0
    MaxRows = 0
    BatchSize = 1
    MaxCrashes = 0
PROPERTIES StreamHaltClears
CHECK_DEADLOCK FALSE
