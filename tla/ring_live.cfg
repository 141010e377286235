SPECIFICATION LiveSpec
CONSTANTS
    s1 = s1
    Senders = {s1}
    BlockSize = 10
    HdrSize = 2
    Align = 2
    MsgSizes = {1}
    MaxTries = 2
    SlowWriters = TRUE
    MaxSends = 4
    MaxCrashes = 1
    MaxRestarts = 1
PROPERTIES
    SendReturns
    AckedIsSettled
