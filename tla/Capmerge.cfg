SPECIFICATION FairSpec
CONSTANTS
    Time = {0, 1, 2}
    MaxFiles = 3
    MaxPackets = 2
    Inputs <- MCInputs
INVARIANTS
    StreamsAccounted
    MergeComplete
    TwoFilesSorted
    SortStable
PROPERTY
    Terminates
