SPECIFICATION Spec
CONSTANTS
    Ids = {0, 1, 2}
    Ips = {"10.0.0.1", "10.0.0.2"}
    Ports = {0, 3, 5, 9}
    PortBits = 3
    MaxRows = 3
INVARIANTS Reciprocal FirstRowWins
CHECK_DEADLOCK FALSE
