SPECIFICATION Spec
CONSTANTS
    PICODIVIDER = 10
    Digits = 1
    Half = 2
    IpType = {0}
    VlanType = {0, 1}
    MaxPackets = 4
    MaxSettings = 2
    Packets <- MCPackets
    Settings <- MCSettings
    Argvs <- MCArgvs
INVARIANTS
    FrameNumSelects
    RejectionLatches
    RefusedValueIgnored
    WirePreservesVerdict
    ExitZeroMeansWritten
