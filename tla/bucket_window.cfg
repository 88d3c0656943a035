SPECIFICATION Spec
CONSTANTS
    t1 = t1
    t2 = t2
    Threads = {t1, t2}
    NoThread = NoThread
    Capacity = 2
    Rate = 2
    Unit = 5
    Second = 1
    MaxClock = 6
SYMMETRY Sym
INVARIANTS WindowBound HintSuffices
