CONSTANTS
    BatchSize = 3
    Cap = 2
    MaxNonce = 9
    Wins <- MCWins
    NoNonce = NoNonce
    Garbage = Garbage
SPECIFICATION Spec
INVARIANTS
    TypeOK
    DrainedResultsExact
PROPERTIES
    Implements
