SPECIFICATION LiveSpec
CONSTANTS
    Handles = {h1}
    Deliverers = {shm, tcp}
    Modes = {"OVERWRITE", "BUFFER_FULL", "EVERY_MESSAGE", "SIGNAL_ALL_WRITE_ALL"}
    Slots = 2
    SlotSize = 2
    NumIosb = 2
    Offsets = {0, 1}
    CountMod = 4
    MaxMsgs = 2
    MaxCalls = 2
INVARIANTS TypeOK UnreadIntact IosbLeadsToMessage OneLateMessage
PROPERTY FullIsDrained
CHECK_DEADLOCK FALSE
