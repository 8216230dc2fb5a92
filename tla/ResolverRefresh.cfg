SPECIFICATION FairSpec
CONSTANTS
    s1 = s1
    s2 = s2
    d1 = d1
    d2 = d2
    Norm <- OneDomain
    Spellings = {s1}
    Domains = {d1}
    Torn = Torn
    Families = {v4}
    Calls = {c1, c2, c3}
    Refreshers = {g1, g2}
    Requests <- Singles
    MaxBatch = 3
    AllowExpired = TRUE
    Preloaded = {d1}
    NoEntry = NoEntry
    MaxVersion = 3
PROPERTIES
    NeverOlder
    Refreshed
