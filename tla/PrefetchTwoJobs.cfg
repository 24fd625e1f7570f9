\* Two requests that both find no job running.
SPECIFICATION Spec
CONSTANTS
    Jobs = {j1, j2}
    NoJob = NoJob
    Posts = {p1, p2}
    Items = 1
    Hashes = 1
INVARIANTS
    RunningTracksJobs
