SPECIFICATION LiveSpec
CONSTANTS
    Nodes = {1, 2}
    Labels = {7, 8}
    Sizes = {4}
    FarNodes = {2}
    Senders = {1}
    Receivers = {2}
    MAX_LABELS = 1
    MaxOpens = 2
    MaxInFlight = 2
    MaxFaults = 2
PROPERTY SubscribersConverge
CHECK_DEADLOCK FALSE
