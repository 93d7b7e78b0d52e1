SPECIFICATION Spec
CONSTANTS
    v1 = v1
    v2 = v2
    f1 = f1
    f2 = f2
    Word <- MCOneWord
    Fw <- MCFw
    Addr <- MCFewAddr
    KnownRom = {"load"}
    Watchdog = TRUE
    Windows = FALSE
    Kill = TRUE
INVARIANTS HaltHolds OnlyUserLetsGo
