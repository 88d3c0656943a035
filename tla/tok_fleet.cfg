SPECIFICATION Spec
CONSTANTS
    r1 = r1
    r2 = r2
    r3 = r3
    d1 = d1
    d2 = d2
    cb = cb
    a = a
    b = b
    Free = Free
    Calls = {r1, r2, d1}
    Arrivals <- Together
    Instances = {a, b}
    On <- OnTwo
    Kind <- MCKind
    Faults <- AllFaults
INVARIANTS
    LockHeldInCritical
    NoStrandedGrant
    ClearWipesNothingLive
PROPERTIES
    OnlyCallbackConnects
