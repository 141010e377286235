SPECIFICATION Spec
CONSTANTS
    s1 = s1 s2 = s2
    Senders = {s1, s2}
    BlockSize = 20
    HdrSize = 4
    Align = 2
    MsgSizes = {1, 3}
    MaxTries = 2
    SlowWriters = FALSE
    MaxSends = 2
    MaxCrashes = 0
    MaxRestarts = 0
SYMMETRY SenderSymmetry
INVARIANTS
    TypeOK
    HeadUsable
    RecordsInBlock
    Occupancy
    WritersExclusive
    IntactDelivery
    SenderFIFO
    NoSilentLoss
    NeverWedged
PROPERTY ReinitOnlyAfterDamage
