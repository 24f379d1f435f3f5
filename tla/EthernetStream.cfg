SPECIFICATION Spec
CONSTANTS
    Packet <- MCPacket
    Match <- MCMatch
    Frame <- MCFrame
    Attributes <- MCAttributes
    Addr = {a, b}
    NumFrames = 2
    MaxAddress = 2
    SeqWrap = 3
    MaxSent = 4
    SockCap = 2
    MaxInterrupts = 1
SYMMETRY MCSymmetry
INVARIANTS
    TypeOK
    SeqnumTracksSender
    AgainMeansDrained
PROPERTIES
    GapsDetected
