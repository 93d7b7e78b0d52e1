SPECIFICATION Spec
CONSTANTS
    p1 = p1
    p2 = p2
    Procs <- MCProcs
    Size = 3
    Word <- MCWord
    Files <- MCFiles
    Chunk = 2
SYMMETRY Symmetry
INVARIANTS RestoreIsExact DumpIsExact
PROPERTIES OnlyWhereAsked NoWear
