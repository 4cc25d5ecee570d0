CONSTANTS
    Main = main
    Workers = {w1, w2}
    MaySleep = TRUE
    MayTerminate = FALSE
SPECIFICATION Spec
PROPERTY OnlyMainWaits
CHECK_DEADLOCK FALSE
