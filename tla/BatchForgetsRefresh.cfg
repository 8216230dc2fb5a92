SPECIFICATION FairSpec
CONSTANTS
    s1 = s1
    s2 = s2
    d1 = d1
    d2 = d2
    Norm <- OneToOne
    Spellings = {s1, s2}
    Domains = {d1, d2}
    Torn = Torn
    Families = {v4}
    Calls = {c1}
    Refreshers = {g1, g2}
    Requests <- OneBatch
    MaxBatch = 3
    AllowExpired = TRUE
    Preloaded = {d1, d2}
    NoEntry = NoEntry
    MaxVersion = 1
PROPERTIES
    Refreshed
