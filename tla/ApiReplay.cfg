SPECIFICATION Spec
CONSTANTS
    Requests = {1, 2}
    MaxFaults = 0
    MaxStarts = 1
INVARIANTS AnsweredIsReplayed
CHECK_DEADLOCK FALSE
