SPECIFICATION Spec
CONSTANTS
    Requests = {1, 2, 3, 4}
    MaxQueue = 2
    MaxSessions = 2
    MaxCrashes = 1
    NoAnswer = NoAnswer
INVARIANT NoneSkipped
CHECK_DEADLOCK FALSE
