SPECIFICATION Spec
CONSTANTS
    N = 10
    F = 4
    Threshold = 2
    Low = 5
    Group = 2
    Char = {0, 1, 2, 3}
    Space = 0
    W = 2
    NumSections = 3
    Checks = {"ok"}
    Images <- MCImages
    Garbage = {0, 1}
    MaxLen = 8
INVARIANTS TypeOK RoundTrip MatchIsLongest InfoTells SwapIsSafe
PROPERTIES ToolsEnd
