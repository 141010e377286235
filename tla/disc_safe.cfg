SPECIFICATION Spec
CONSTANTS
    Nodes = {1, 2}
    Labels = {7}
    Sizes = {4, 8}
    FarNodes = {2}
    Senders = {1}
    Receivers = {1, 2}
    MAX_LABELS = 1
    MaxOpens = 2
    MaxInFlight = 1
    MaxFaults = 1
INVARIANTS TypeOK RoutesMatchHandles SubscribersReachable
PROPERTY ImplementsSubscriptions
CHECK_DEADLOCK FALSE
