CONSTANTS
    Item = {a, b}
    NoItem = NoItem
    Owner = owner
    Thief = {h1, h2}
    Requests = {2}
    MaxPos = 4
    Thread = {t1, t2}
    MaxLen = 4
    MaxKey = 16
SPECIFICATION AlgorithmsSpec
SYMMETRY Symmetry
INVARIANTS PositionsSound HashesExact
PROPERTIES DequeSpec FailedStealHasCause RemaindersExact ChecksumsDetect
CHECK_DEADLOCK FALSE
