SPECIFICATION FairSpec
CONSTANTS
    append = append
    append2 = append2
    replace = replace
    clear = clear
    fields = fields
    fields2 = fields2
    delete = delete
    void = void
    create = create
    create2 = create2
    update1 = update1
    delete1 = delete1
    delete2 = delete2
    badid = badid
    badline = badline
    d1 = d1
    d2 = d2
    QBO = QBO
    NoDoc = NoDoc
    Calls = {append, update1, delete1, delete2, create, replace, fields, delete, void, badid}
    Arrivals <- Groups
    Ids = {1, 2, 3}
    Existing = {1}
    Docs = {d1, d2}
    Request <- MCRequest
    DocOf <- MCDocOf
    MaxEdits = 1
    Faults <- AllFaults
    RetriesLost = {"create"}
INVARIANTS AnswersAreTrue AppliedAtMostOnce
PROPERTIES NoLostUpdate KeepsALine ImplementsAtomic EveryWriteSettles
