SPECIFICATION MCSpec
CONSTANTS
    Packet = {p, q}
    Match = {p}
    Frame <- MCFrame
    NumFrames = 3
    MaxReceived = 5
INVARIANTS
    FBTypeOK
    FIFO
    RingAccounting
    HeaderValid
PROPERTIES
    UnreadKept
    RefinesPacketStream
    EveryPacketTaken
