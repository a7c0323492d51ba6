CONSTANTS
    CacheItems = 3
    LocalSize = 2
    ItemWords = 2
    Garbage = Garbage
    Junk = Junk
SPECIFICATION Spec
INVARIANT
    CacheIsChain
