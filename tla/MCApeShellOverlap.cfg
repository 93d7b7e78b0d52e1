SPECIFICATION FairSpec
CONSTANTS
    Addr = {}
    Hole = {hole}
    NullAddr = hole
    Word = {ones}
    AllOnes = ones
    ZeroWord = ones
    Client = {c1, c2}
    Exclusive = FALSE
    Unwritten = unwritten
PROPERTIES AccessesComplete
