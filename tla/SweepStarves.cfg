\* One link that answers 405 and a query limited to one link.
SPECIFICATION Spec
CONSTANTS
    Links = {l1, l2}
    NoLink = NoLink
    Opaque = {l1}
    Workers = {w1}
    QueueCap = 2
    SweepLimit = 1
    NullsFirst = TRUE
    MaxCrashes = 1
PROPERTIES
    DueLinksAreRechecked
