SPECIFICATION Spec
CONSTANTS
    Callers = {c1, c2, c3}
    Latencies = {0, 4}
    Never = 9
    MaxCalls = 4
INVARIANTS
    TypeOK
    AverageInRange
    CountsAddUp
