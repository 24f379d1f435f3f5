SPECIFICATION FairSpec
CONSTANTS
    Hdr = 2
    MaxPackets = 3
    MaxCaplen = 3
    Starts <- MCStarts
    BufSizes = {2, 4, 5, 7}
    Match = {1, 3}
    PeekMatch = {1, 2, 3}
INVARIANTS
    TypeOK
    WindowAligned
    PacketsInOrder
    DataValid
    EofComplete
PROPERTIES
    PeekIsNext
    CallsReturn
    RefinesPacketStream
