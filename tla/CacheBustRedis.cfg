\* With Redis the bust deletes from a table nobody reads.
SPECIFICATION Spec
CONSTANTS
    Keys = {k1}
    NoKey = NoKey
    Requests = {q1}
    Refreshers = {r1}
    Backend = "redis"
    Changing = {k1}
    MaxVersion = 1
INVARIANTS
    BustedListsStayAway
