SPECIFICATION Spec
CONSTANTS
    s1 = s1
    s2 = s2
    d1 = d1
    d2 = d2
    Norm <- OneDomain
    Spellings = {s1}
    Domains = {d1}
    Torn = Torn
    Families = {v4, v6}
    Calls = {c1, c2}
    Refreshers = {g1}
    Requests <- PerFamily
    MaxBatch = 3
    AllowExpired = FALSE
    Preloaded = {}
    NoEntry = NoEntry
    MaxVersion = 1
INVARIANTS
    AskedFamilies
