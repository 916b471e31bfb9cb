SPECIFICATION FairQueueSpec
CONSTANTS
    p1 = p1
    p2 = p2
    g1 = g1
    g2 = g2
    x = x
    y = y
    Producers = {p1, p2}
    Consumers = {g1, g2}
    Closers = {p1}
    Items = {x, y}
    NoItem = NoItem
    Capacity = 2
INVARIANTS
    QueueTypeOK
    NoLostWakeup
PROPERTIES
    ImplementsContract
