CONSTANTS
    Byte = {x, y}
    Unset = Unset
    Nil = Nil
    Requests = {2, 3}
    MaxLen = 3
    Word = 8
    Block = {1, 2, 3, 4, 5}
    Capacities = {0, 1, 2, 3}
    Caller = {t1, t2}
    Client = {k1, k2}
    Call <- Calls
    Rss = {1}
    MaxEvents = 4
SPECIFICATION PartsSpec
SYMMETRY Symmetry
INVARIANTS RingSound ObjectsConserved PagesCoherent BoardConsistent SuitePasses
PROPERTY FifoSpec
CHECK_DEADLOCK FALSE
