SPECIFICATION Spec
CONSTANTS
    w1 = w1
    w2 = w2
    q1 = q1
    q2 = q2
    Script = script
    Empty = empty
    Workers = {w1, w2}
    Requests = {q1, q2}
    Home <- OneHome
    Settings = {TRUE}
    TTL = 2
    MaxLoad = 1
    MaxRefreshes = 1
    MaxTime = 3
INVARIANT BankFound
