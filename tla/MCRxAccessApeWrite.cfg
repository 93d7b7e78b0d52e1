SPECIFICATION Spec
CONSTANTS
    v1 = v1
    v2 = v2
    f1 = f1
    f2 = f2
    Word <- MCWord
    Fw <- MCFw
    Addr <- MCAddr
    KnownRom = {"load", "store"}
    Watchdog = FALSE
    Windows = FALSE
    Kill = FALSE
INVARIANTS ApeAccessBorrowsNothing
