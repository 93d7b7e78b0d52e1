SPECIFICATION Spec
CONSTANTS
    Layouts1 <- MCLayouts1
    Layouts2 <- MCLayouts2
    r1 = r1
    r2 = r2
    Runs <- MCRuns
    Params <- MCParams
    Fragile <- MCFragile
    Macs <- MCMacs
    Vpds <- MCVpds
    Factory <- MCFactory
    Contents <- MCContents
    UNIT = 40
    MaxDamage = 1
INVARIANTS BuiltIsSound DummyIsSound GoodCrcVouches SetIsExact InfoShowsVpd
CHECK_DEADLOCK FALSE
