CONSTANTS
    Main = main
    Workers = {w1, w2, w3}
    MaySleep = TRUE
    MayTerminate = TRUE
SPECIFICATION FairSpec
INVARIANTS
    TypeOK
    SleepStatesAgree
    RequestReachesMain
PROPERTY
    Terminates
CHECK_DEADLOCK FALSE
