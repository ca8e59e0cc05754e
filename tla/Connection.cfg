CONSTANTS
    Byte = {0, 1, 2, 3}
    Magic = 3
    MaxPayload = 2
    Crc <- Checksum
    Streams <- MCStreams
    Allocations <- SomeMissing
    Heartbeat = 0
    AckLen = 2
    RecvCap = 4
    SendCap = 5
    Room = 3
    Capacity = {38, 4110}
    Count = {0, 1, 170, 171, 2731}
    Payload = {4097}
    MaxFrames = 2
SPECIFICATION ProtocolSpec
INVARIANTS BuffersSuffice FramesAsDecoded AcksWhole FramesWhole
PROPERTIES ClosedForCause NoEdgeLost
