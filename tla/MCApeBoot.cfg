SPECIFICATION BootSpec
CONSTANTS
    Addr = {a1}
    Hole = {}
    NullAddr = a1
    Word = {ones, zero}
    AllOnes = ones
    ZeroWord = zero
    Client = {c1}
    Exclusive = TRUE
    Unwritten = unwritten
INVARIANTS BootTypeOK ReadyMeansAgent ReturnHasACaller ReadsAreCurrent SilenceMeansStored
