CONSTANTS
    Sizes <- MCSizes
    Words <- MCWords
    Epochs <- MCEpochs
SPECIFICATION Spec
INVARIANT Target256InBounds
