SPECIFICATION FairSpec
CONSTANTS
    Domains = {d1, d2}
    Writers = {w1, w2}
    Savers = {s1, s2}
    Others = {o1}
    Free = Free
    NoImage = NoImage
    MaxSets = 3
INVARIANTS
    TypeOK
    SingleSaver
    QuiescentPersisted
PROPERTIES
    Persisted
    DiskNeverRegresses
    ImplementsWriteBehind
