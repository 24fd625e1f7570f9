\* One link fought over by two play requests, two workers and a clean request.
SPECIFICATION Spec
CONSTANTS
    Links = {l1}
    NoLink = NoLink
    Requests = {q1, q2}
    Workers = {w1, w2}
    Cleaners = {c1}
    QueueCap = 2
    SweepLimit = 1
    FailCap = 3
SYMMETRY Symmetric
INVARIANTS
    TypeOK
    GateNeverPassesInvalid
    OneRequestCannotKill
PROPERTIES
    OnlyProbeRevives
