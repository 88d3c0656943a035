SPECIFICATION Spec
CONSTANTS
    s1 = s1
    s2 = s2
    c1 = c1
    c2 = c2
    p = p
    q = q
    Forged = Forged
    None = None
    Starts = {s1, s2}
    Callbacks = {c1, c2}
    Processes = {p, q}
    Expiry <- MCExpiry
    TTL = 2
    MaxClock = 2
INVARIANTS AcceptedOnce OnlyFreshFlows RefusalsExplained
SYMMETRY Sym
