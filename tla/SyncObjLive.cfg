SPECIFICATION FairSpec
CONSTANTS
    N = 2
    Type <- FenceAndTimestamp
PROPERTIES
    SatisfiedRetires
    DestroyedIsFreed
