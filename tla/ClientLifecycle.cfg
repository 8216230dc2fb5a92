SPECIFICATION FairSpec
CHECK_DEADLOCK FALSE
CONSTANTS
    Users = {u1, u2, u3}
    Tasks = {t1}
    NoProc = NoProc
    OnResult = {"resolve", "async", "close"}
    OnStopped = {"read", "close"}
    MaxDepth = 1
INVARIANTS
    TypeOK
    ClosedOnce
    ClosedIsQuiet
PROPERTIES
    ImplementsContract
    CallsReturn
