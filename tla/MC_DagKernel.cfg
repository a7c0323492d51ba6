CONSTANTS
    Width = 6
    WordsPerItem = 4
    LocalSize = 2
    ChunkSize = 4
    MaxQueue = 4
    DagSizes <- MCSizesFit
    Garbage = Garbage
    NoLoad = NoLoad
SPECIFICATION Spec
INVARIANTS
    DagComplete
    SearchLoadsItem
PROPERTIES
    MixesStay
