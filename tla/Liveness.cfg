CONSTANTS
    Item = {a}
    NoItem = NoItem
    SpscRequests = {1, 2}
    MaxBatch = 2
    SpscMaxPos = 4
    Producer = {p1, p2}
    Consumer = {c1}
    MpmcRequests = {2}
    MpmcMaxPos = 4
    Owner = owner
    Thief = {t1}
    WsRequests = {2}
    WsMaxPos = 4
    Client = {k1, k2}
    MaxEvents = 3
    Workers = 1
    PerWorker = 1
    ServerMaxEvents = 2
    Room = 3
    Need <- Each
SPECIFICATION FairSpec
PROPERTIES SpscMoves SomeCallReturns LeftToThieves ScrapesAnswered ClientsServed StopEnds
CHECK_DEADLOCK FALSE
