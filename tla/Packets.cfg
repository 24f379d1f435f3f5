SPECIFICATION Spec
CONSTANTS
    Ihl = {4, 5, 9}
    Doff = {4, 5, 8}
    Plens = {0, 20, 40}
    MAX_LABEL_REFERENCES = 2
    NAME = 8
    DnsOctets <- MCDnsOctets
    RdLens = {0, 2}
    BUCKET_BITS = 2
    INITIAL = 4
    PICODIVIDER = 10
    Invocations <- MCInvocations
    OptSizes = {0, 1, 3}
    ChunkLens = {0, 4, 65535}
    Messages <- MCMessages
    Counts = {0, 1}
    InfoPackets <- MCInfoPackets
    MaxFiles = 2
    MaxRead = 3
INVARIANTS
    NameFits
    ConnectionIds
    StatsAddUp
PROPERTY
    FormatEnds
