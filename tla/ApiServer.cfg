SPECIFICATION Spec
CONSTANTS
    Requests = {1, 2, 3}
    MaxFaults = 1
    MaxStarts = 2
INVARIANTS TypeOK ReplayedOutsideTenants LockShieldsRetries DisconnectAfterDrain
PROPERTIES ShutdownEnds
CHECK_DEADLOCK FALSE
