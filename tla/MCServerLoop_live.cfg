CONSTANTS
    r1 = r1
    r2 = r2
    r3 = r3
    Readers = {r1, r2, r3}
    TaskIds <- LiveTaskIds
    NoTask <- MCNoTask
    NSlots = 3
    NBatch = 2
    ContBatching = FALSE
    Faults = FALSE
    TasksOf <- LiveTasksOf
    Children <- LiveChildren
    Kind <- LiveKind
    IdSlot <- LiveIdSlot
    Class <- LiveClass
    NPrompt <- LiveNPrompt
    NPredict <- LiveNPredict
    Stream = {}
    Impatient = {}
SPECIFICATION FairSpec
INVARIANTS
    NoTaskStranded
    OneClassPerBatch
PROPERTY
    AllServed
