SPECIFICATION Spec
CONSTANTS
    s1 = s1 s2 = s2
    Senders = {s1, s2}
    BlockSize = 10
    HdrSize = 2
    Align = 2
    MsgSizes = {1}
    MaxTries = 2
    SlowWriters = TRUE
    MaxSends = 2
    MaxCrashes = 0
    MaxRestarts = 1
SYMMETRY SenderSymmetry
INVARIANT CleanGuarantees
PROPERTY ReinitOnlyAfterDamage
