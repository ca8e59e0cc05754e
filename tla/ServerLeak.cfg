CONSTANTS
    Workers = 2
    PerWorker = 1
    Client = {c1, c2}
    Nil = Nil
    MaxEvents = 2
    Room = 8
    Need <- Sizes
SPECIFICATION Spec
INVARIANT BuffersComeBack
CHECK_DEADLOCK FALSE
