CONSTANTS
    Width = 6
    WordsPerItem = 4
    LocalSize = 2
    ChunkSize = 4
    MaxQueue = 4
    DagSizes <- MCSizesWrap
    Garbage = Garbage
    NoLoad = NoLoad
SPECIFICATION Spec
INVARIANT DagComplete
