SPECIFICATION Spec
CONSTANTS
    s1 = s1
    s2 = s2
    d1 = d1
    d2 = d2
    Norm <- OneToOne
    Spellings = {s1, s2}
    Domains = {d1, d2}
    Torn = Torn
    Families = {v4, v6}
    Calls = {c1, c2}
    Refreshers = {g1, g2}
    Requests <- Batches
    MaxBatch = 3
    AllowExpired = TRUE
    Preloaded = {}
    NoEntry = NoEntry
    MaxVersion = 1
SYMMETRY Symmetry
INVARIANTS
    TypeOK
    SingleFlight
    EveryDomainReturned
    AskedFamilies
PROPERTIES
    ImplementsContract
