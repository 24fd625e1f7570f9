\* Two refreshes and a request of two keys; the sources of one key change.
SPECIFICATION Spec
CONSTANTS
    Keys = {k1, k2}
    NoKey = NoKey
    Requests = {q1}
    Refreshers = {r1, r2}
    Backend = "local"
    Changing = {k1}
    MaxVersion = 1
INVARIANTS
    TypeOK
    OneRefreshPerKey
    InFlightHasRefresher
PROPERTIES
    FlightSpec
