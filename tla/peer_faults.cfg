SPECIFICATION LiveSpec
CONSTANTS
    Lo = 1
    Hi = 2
    Talkers = {2}
    MaxMsgs = 2
    MaxConns = 3
    FaultKinds = {"reset", "crash", "vanish", "partial"}
    MaxFaults = 1
    Buf = 2
INVARIANTS TypeOK OneReader
PROPERTIES InOrder HealthySurvives Reconnects NobodyStuck
CHECK_DEADLOCK FALSE
