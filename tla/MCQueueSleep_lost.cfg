CONSTANTS
    Main = main
    Workers = {w1, w2}
    MaySleep = TRUE
    MayTerminate = FALSE
SPECIFICATION FairSpec
PROPERTY TasksAnswered
CHECK_DEADLOCK FALSE
