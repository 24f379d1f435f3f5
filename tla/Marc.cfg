SPECIFICATION Spec
CONSTANTS
    FilterIds = {7}
    Interfaces = {31}
    MaxSent = 2
INVARIANTS
    MeaningPreserved
PROPERTIES
    InitEnds
