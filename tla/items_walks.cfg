SPECIFICATION Spec
CONSTANTS
    c1 = c1
    c2 = c2
    c3 = c3
    w1 = w1
    n1 = n1
    n2 = n2
    n3 = n3
    NoName = NoName
    QBO = QBO
    Calls = {c1, c2, c3}
    Asks <- MCAsks
    Ids = {1, 2, 3, 4}
    Existing = {1, 2, 3}
    Names = {n1, n2, n3}
    NameOf <- MCNameOf
    Walks = {w1}
    Filters <- MCFilters
    Starts = {0, 1}
    Cap = 2
    MaxEdits = 1
    Faults <- AllFaults
INVARIANTS
    TypeOK
    AnswersAreTrue
    SkipsAreDepartures
    RepeatsAreArrivals
PROPERTIES
    NoLostUpdate
