SPECIFICATION FairSpec
CONSTANTS
    write = write
    write2 = write2
    read = read
    Calls = {write, read}
    Requests <- MCRequests
    Faults <- AllFaults
    MaxDeaths = 2
    MaxClock = 2
    Capacity = 2
    Rate = 1
    Unit = 2
    Second = 1
INVARIANTS ResendsAreSafe TidIsOfTheFailure
PROPERTY EveryCallAnswered
