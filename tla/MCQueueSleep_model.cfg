CONSTANTS
    Main = main
    Workers = {w1, w2}
    MaySleep = TRUE
    MayTerminate = FALSE
SPECIFICATION Spec
INVARIANT ModelInUse
CHECK_DEADLOCK FALSE
