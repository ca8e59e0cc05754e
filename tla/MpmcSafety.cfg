CONSTANTS
    Producer = {p1, p2}
    Consumer = {c1, c2}
    Item = {a, b}
    NoItem = NoItem
    Requests = {2, 3}
    MaxPos = 4
SPECIFICATION Spec
SYMMETRY Symmetry
INVARIANT NodesSound
PROPERTIES FifoSpec FailureHasCause
