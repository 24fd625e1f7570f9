\* One of three links answers 405; the query reads two.
SPECIFICATION Spec
CONSTANTS
    Links = {l1, l2, l3}
    NoLink = NoLink
    Opaque = {l1}
    Workers = {w1}
    QueueCap = 3
    SweepLimit = 2
    NullsFirst = TRUE
    MaxCrashes = 1
INVARIANTS
    TypeOK
PROPERTIES
    RoomySweepsRecheck
    WaitersAreNotOvertaken
