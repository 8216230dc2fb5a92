SPECIFICATION FairSpec
CONSTANTS
    Callers = {c1}
    Updaters = {u1, u2}
    Savers = {s1, s2}
    StaleAfter = 1
    KeepFor = 3
    SaveDelay = 1
    MaxTime = 8
INVARIANTS
    TypeOK
    DateIsHonest
    NeverTooOld
PROPERTIES
    FileKeepsUp
    ListIsSaved
