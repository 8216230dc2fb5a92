SPECIFICATION Spec
CONSTANTS
    d1 = d1
    d2 = d2
    here = here
    ServiceIPs = {i1, i2}
    Requests <- SomeRequests
    NoClientIP = NoClientIP
    Account = Account
    Secret = Secret
    ExpireTimes <- SomeTimes
    Retries <- SomeRetries
    DefaultExpireTime = 3
    Timeout = 3
    Skew = {0, 1}
    Second = 2
    MaxTime = 9
INVARIANTS
    TypeOK
    AcceptedInTime
    MarksWhoFailed
