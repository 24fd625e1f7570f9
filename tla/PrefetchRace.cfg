\* Two requests that both find no job running, stops and restarts; a library of two items.
SPECIFICATION Spec
CONSTANTS
    Jobs = {j1, j2}
    NoJob = NoJob
    Posts = {p1, p2}
    Items = 2
    Hashes = 1
INVARIANTS
    TypeOK
    EveryJobIsStoppable
PROPERTIES
    DoneItemsStayDone
    CancelledJobsEnd
    JobsCountDown
    RunningEnds
