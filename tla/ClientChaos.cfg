SPECIFICATION FairSpec
CONSTANTS
    a = a
    b = b
    x = x
    y = y
    IPs = {a, b}
    NoIP = NoIP
    NoDeadline = NoDeadline
    Calls = {c1, c2}
    Refreshers = {r1}
    Bootstraps <- OneBootstrap
    ServiceLists <- ShrinkingLists
    PersistedIPs <- NothingPersisted
    CoolDown = 2
    MaxAge = 1
    Timeout = 1
    Deadlines = {2, NoDeadline}
    MaxRetries = 1
    Cancellable = {c1}
    Behaviour <- Chaos
INVARIANTS
    TypeOK
    CurrentIPListed
    NeverPickFromEmpty
PROPERTIES
    CallsTerminate
    RetrySwitches
    StickyCurrent
