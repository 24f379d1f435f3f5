SPECIFICATION FairSpec
CONSTANTS
    Hdr = 2
    MaxPackets = 2
    MaxCaplen = 3
    Starts <- MCStarts
    BufSizes = {4, 5}
    Match = {1, 2}
    PeekMatch = {2}
PROPERTY
    PeekReturns
