CONSTANTS
    Item = {a, b}
    NoItem = NoItem
    Requests = {1, 2, 3}
    MaxBatch = 2
    MaxPos = 5
    Callers = {"producer", "consumer"}
    Word = 6
    Nil = Nil
    i1 = i1
    i2 = i2
    i3 = i3
    i4 = i4
    Hashed = {i1, i2, i3, i4}
    Hash1 <- HashOne
    Hash2 <- HashTwo
    HashWord = 64
    expected_items = 2
    window_size = 2
    Entry <- Entries
    Key = {1, 2, 3, 4, 5}
    MaxSize = 9
SPECIFICATION ContainersSpec
SYMMETRY Symmetry
INVARIANTS IInv NoDataRace ArraysConserved TreeSound
PROPERTIES FifoSpec OwnSizeNeverOver WindowSpec
