SPECIFICATION FairSpec
CONSTANTS
    c1 = c1
    w1 = w1
    w2 = w2
    s1 = s1
    s2 = s2
    x = x
    a = a
    b = b
    d = d
    e = e
    Producers = {c1}
    Consumers = {w1, w2}
    Closers = {s1, s2}
    Items = {x, a, b, d, e}
    Subtasks = {a, b, d, e}
    NoItem = NoItem
    Capacity = 1
INVARIANTS
    PoolTypeOK
    EveryTaskHasOnePlace
    ShutdownDrains
PROPERTIES
    EveryFutureSettles
    ShutdownReturns
