CONSTANTS
    Thread = {t1}
    Nil = Nil
    Header = 1
    BlockSize <- SmallSizes
    BlockCount <- SmallCounts
    Align = 2
    Pointer = 1
    Alignment = {2}
    Word = 64
    Buffers <- WithRegion
    Sizes = {1, 2, 5}
    MaxMapped = 2
SPECIFICATION CheckedSpec
INVARIANT NoOverlap
