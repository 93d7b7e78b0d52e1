SPECIFICATION FairSpec
CONSTANTS
    MaxChunk = 2
    MaxKills = 0
PROPERTIES ExitDetaches
