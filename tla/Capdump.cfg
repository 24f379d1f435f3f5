SPECIFICATION Spec
CONSTANTS
    HEADER = 4
    LEGACY = 3
    PLAIN = 4
    EXT = 2
    VERSION <- MCVersion
    MAX_ADDRESS = 2
    MaxEvents = 3
    MaxRelayed = 2
    Invocations <- MCInvocations
    Markers <- MCMarkers
    Files <- MCFiles
    Names <- MCNames
INVARIANTS
    OnceInOrder
    MarkerHeadsFile
    CreatedFilesOpen
PROPERTIES
    TracesKept
    TerminateStops
