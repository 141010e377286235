SPECIFICATION LiveSpec
CONSTANTS
    Callers = {c1, c2}
    MaxCalls = 2
    MaxReceivers = 2
    MayStop = {"local", "remote"}
INVARIANTS
    TypeOK
    IosbTellsTheTruth
    NoUnexpectedCompletion
    NoLostWakeup
PROPERTY EveryJobCompletes
