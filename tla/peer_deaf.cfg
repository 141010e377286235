SPECIFICATION LiveSpec
CONSTANTS
    Lo = 1
    Hi = 2
    Talkers = {}
    MaxMsgs = 1
    MaxConns = 3
    FaultKinds = {"reset", "crash"}
    MaxFaults = 1
    Buf = 2
PROPERTY AcceptorServed
CHECK_DEADLOCK FALSE
