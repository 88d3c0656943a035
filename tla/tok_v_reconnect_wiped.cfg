SPECIFICATION Spec
CONSTANTS
    r1 = r1
    r2 = r2
    r3 = r3
    d1 = d1
    d2 = d2
    cb = cb
    a = a
    b = b
    Free = Free
    Calls = {d2, cb}
    Arrivals <- Together
    Instances = {a}
    On <- OnOne
    Kind <- MCKind
    Faults = {}
INVARIANT
    ClearWipesNothingLive
