SPECIFICATION Spec
CONSTANTS
    s1 = s1
    Senders = {s1}
    BlockSize = 10
    HdrSize = 2
    Align = 2
    MsgSizes = {1}
    MaxTries = 2
    SlowWriters = FALSE
    MaxSends = 4
    MaxCrashes = 0
    MaxRestarts = 0
INVARIANT NoDeliveryBeforePublish
