SPECIFICATION Spec
CONSTANTS
    Time = {1, 2, 3}
    MaxFiles = 3
    MaxPackets = 2
    Inputs <- MCInputs
INVARIANT
    MergeSorted
