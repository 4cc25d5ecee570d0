CONSTANTS
    r1 = r1
    r2 = r2
    r3 = r3
    Readers = {r1, r2, r3}
    TaskIds <- DeferTaskIds
    NoTask <- MCNoTask
    NSlots = 1
    NBatch = 2
    ContBatching = TRUE
    Faults = FALSE
    TasksOf <- DeferTasksOf
    Children <- DeferChildren
    Kind <- DeferKind
    IdSlot <- DeferIdSlot
    Class <- DeferClass
    NPrompt <- DeferNPrompt
    NPredict <- DeferNPredict
    Stream = {}
    Impatient = {}
SPECIFICATION Spec
INVARIANT NoTaskStranded
CHECK_DEADLOCK FALSE
