\* Each service in turn, with two or three of everything that competes.
SPECIFICATION Spec
CONSTANTS
    Conns = {c1, c2, c3}
    Floor = 3
    IPs = {i1, i2}
    Classes = {"default", "api"}
    Rate <- SmallRate
    Burst <- SmallBurst
    IdleLimit = 3
    Writers = {w1, w2, w3}
    NoWriter = NoWriter
    Names = {"n1", "n2"}
    Defaults <- OneDefault
    Sources = {s1, s2, s3}
    MaxConcurrent = 2
    MaxUnits = 5
    Last = 5
    Needs <- Order
INVARIANTS
    TypeOK
    GaugeNeverOvercounts
    SourcesSurviveRestart
    LoneRequestsAreSaved
    ListIsComplete
    NobodyWaitsInVain
    BytesCountOnce
    StartedSchemaIsComplete
PROPERTIES
    DeadClientsLeave
    BucketSpec
    RoundEnds
    FetchersEnd
    BytesAreFlushed
