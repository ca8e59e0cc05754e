CONSTANTS
    Thread = {t1, t2}
    Nil = Nil
    Header = 1
    BlockSize <- SmallSizes
    BlockCount <- SmallCounts
    Align = 2
    Pointer = 1
    Alignment = {2}
    Word = 64
    Buffers <- ShortRegion
    Sizes = {1, 3, 5}
    MaxMapped = 2
SPECIFICATION CheckedSpec
SYMMETRY Symmetry
VIEW LiveState
INVARIANTS PoolSound NoOverlap CheckAlonePasses
