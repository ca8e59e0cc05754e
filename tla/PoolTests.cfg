CONSTANTS
    Thread = {main}
    Main = main
    Nil = Nil
    Header = 16
    BlockSize <- SizeClasses
    BlockCount <- BlockCounts
    Align = 32
    Pointer = 8
    Alignment = {}
    Word = 1048576
    Buffers <- NoBuffers
    Sizes <- ArraySizes
    MaxMapped = 2
    BufferSize <- TestBuffer
SPECIFICATION SuiteSpec
INVARIANT SuitePasses
CHECK_DEADLOCK FALSE
