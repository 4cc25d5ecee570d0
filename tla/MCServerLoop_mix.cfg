CONSTANTS
    r1 = r1
    r2 = r2
    r3 = r3
    Readers = {r1, r2, r3}
    TaskIds <- MixTaskIds
    NoTask <- MCNoTask
    NSlots = 2
    NBatch = 2
    ContBatching = TRUE
    Faults = TRUE
    TasksOf <- MixTasksOf
    Children <- MixChildren
    Kind <- MixKind
    IdSlot <- MixIdSlot
    Class <- MixClass
    NPrompt <- MixNPrompt
    NPredict <- MixNPredict
    Stream <- MixStream
    Impatient = {r2}
SPECIFICATION Spec
VIEW View
INVARIANTS
    TypeOK
    OnePlacePerTask
    AnsweredOnce
    ResultsAwaited
    NeverWaitsOnWork
    BatchHeadHasTask
    ChildHasParent
CHECK_DEADLOCK FALSE
