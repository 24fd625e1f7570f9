\* A goroutine that unlocks links, one that submits, and a key request.
SPECIFICATION Spec
CONSTANTS
    Tokens = {t1, t2}
    NoToken = NoToken
    EnvTokens = {}
    Masks = {m1, m2}
    Mask <- DistinctMasks
    Admins = {a1}
    Unlockers = {u1}
    Submitters = {s1}
    Period = 2
    UnlockTries = 3
    MaxAttempts = 2
INVARIANTS
    TypeOK
    DuplicatesNeedLostAnswers
    FilesSelectedByOwner
PROPERTIES
    EveryCallEnds
    CallsCountDown
