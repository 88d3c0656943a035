SPECIFICATION FairSpec
CONSTANTS
    c1 = c1
    c2 = c2
    c3 = c3
    i1 = i1
    i2 = i2
    gone = gone
    poor = poor
    odd = odd
    Nobody = Nobody
    Customers <- MCCustomers
    Items <- MCItems
    Parents <- MCParents
    Inactive = {gone}
    Unsupported = {odd}
    NoAccount = {poor}
    Options <- MCOptions
    Attempts = 2
    MaxRuns = 2
    Faults = {"busy", "limited", "refused", "escape", "malformed", "crash", "late"}
INVARIANTS StateIsTrue CopiedAgainOnlyInDoubt WholeRunCopiesAll
PROPERTIES OrphansExplained EveryRunEnds
