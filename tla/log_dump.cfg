SPECIFICATION Spec
CONSTANTS
    Threads = {t1, t2}
    EVENT_LOG_CAPACITY = 2
    SeqMod = 4
    MaxEvents = 4
INVARIANTS LinesIntact NewestKept
CHECK_DEADLOCK FALSE
