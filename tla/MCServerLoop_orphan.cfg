CONSTANTS
    r1 = r1
    r2 = r2
    r3 = r3
    Readers = {r1}
    TaskIds <- EmptyTaskIds
    NoTask <- MCNoTask
    NSlots = 2
    NBatch = 2
    ContBatching = TRUE
    Faults = FALSE
    TasksOf <- EmptyTasksOf
    Children <- EmptyChildren
    Kind <- EmptyKind
    IdSlot <- EmptyIdSlot
    Class <- EmptyClass
    NPrompt <- EmptyNPrompt
    NPredict <- EmptyNPredict
    Stream = {}
    Impatient = {}
SPECIFICATION Spec
INVARIANT ChildHasParent
CHECK_DEADLOCK FALSE
