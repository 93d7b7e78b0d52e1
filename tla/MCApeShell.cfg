SPECIFICATION FairSpec
CONSTANTS
    Addr = {a1}
    Hole = {hole}
    NullAddr = hole
    Word = {ones, zero}
    AllOnes = ones
    ZeroWord = zero
    Client = {c1}
    Exclusive = TRUE
    Unwritten = unwritten
INVARIANTS IInv ReadsAreCurrent SilenceMeansStored
PROPERTIES StoresAreAsked ImplementsMemory CallsReturn
