CONSTANTS
    j1 = j1
    j2 = j2
    Epochs <- MCEpochsFit
    Jobs <- MCJobs
    BatchSize = 2
    MaxNonce = 6
    Faults = {}
    Wins <- MCWins
    Uninit = Uninit
    Junk = Junk
    NoJob = NoJob
SPECIFICATION Spec
INVARIANT
    DatasetMatchesEpoch
