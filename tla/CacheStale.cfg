SPECIFICATION Spec
CONSTANTS
    w1 = w1
    w2 = w2
    q1 = q1
    q2 = q2
    Script = script
    Empty = empty
    Workers = {w1}
    Requests = {q1, q2}
    Home <- OneHome
    Settings = {TRUE, FALSE}
    TTL = 2
    MaxLoad = 1
    MaxRefreshes = 2
    MaxTime = 4
INVARIANT TypeOK
INVARIANT StaleAtMost
INVARIANT BankFoundUncached
SYMMETRY Symmetry
