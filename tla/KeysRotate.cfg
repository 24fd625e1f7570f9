\* Three keys, one of which the environment may list; two requests.
SPECIFICATION Spec
CONSTANTS
    Tokens = {t1, t2, t3}
    NoToken = NoToken
    EnvTokens = {t1}
    Masks = {m1, m2, m3}
    Mask <- DistinctMasks
    Admins = {a1, a2}
    Callers = {c1}
    Period = 6
INVARIANTS
    TypeOK
    RestartKeepsKeys
PROPERTIES
    LockedKeysAreLastResort
    EveryFreeKeyComesCloser
    AddedKeysAreFree
