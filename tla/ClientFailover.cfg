SPECIFICATION BusySpec
CONSTANTS
    a = a
    b = b
    x = x
    y = y
    IPs = {a, b}
    NoIP = NoIP
    NoDeadline = NoDeadline
    Calls = {c1, c2}
    Refreshers = {r1}
    Bootstraps <- TwoBootstraps
    ServiceLists <- BothOrders
    PersistedIPs <- NothingPersisted
    CoolDown = 5
    MaxAge = 4
    Timeout = 1
    Deadlines = {5, NoDeadline}
    MaxRetries = 1
    Cancellable = {}
    Behaviour <- AFlakyBGood
INVARIANTS
    NoCallFails
PROPERTIES
    Recovers
