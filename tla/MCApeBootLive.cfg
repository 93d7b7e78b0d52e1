SPECIFICATION BootFairSpec
CONSTANTS
    Addr = {a1}
    Hole = {}
    NullAddr = a1
    Word = {ones}
    AllOnes = ones
    ZeroWord = ones
    Client = {c1}
    Exclusive = TRUE
    Unwritten = unwritten
PROPERTIES LoaderComesUp IdleAgentReturns
