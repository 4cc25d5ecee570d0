CONSTANTS
    r1 = r1
    r2 = r2
    r3 = r3
    Readers = {r1, r2}
    TaskIds <- RaceTaskIds
    NoTask <- MCNoTask
    NSlots = 1
    NBatch = 2
    ContBatching = TRUE
    Faults = FALSE
    TasksOf <- RaceTasksOf
    Children <- RaceChildren
    Kind <- RaceKind
    IdSlot <- RaceIdSlot
    Class <- RaceClass
    NPrompt <- RaceNPrompt
    NPredict <- RaceNPredict
    Stream = {}
    Impatient = {r2}
SPECIFICATION Spec
INVARIANT NoTaskOutlivesReader
CHECK_DEADLOCK FALSE
