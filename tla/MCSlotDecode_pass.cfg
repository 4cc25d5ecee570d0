CONSTANTS
    a = a
    b = b
    NoToken = NoToken
    NSlots = 3
    NBatch = 3
    NCells = 4
    NCtx = 4
    Tokens = {a, b}
    Prompts <- MCPrompts
    NChildren = 1
SPECIFICATION FairSpec
INVARIANTS
    TypeOK
    ContextAccounted
    OutputOfLastToken
    NeverOutOfContext
PROPERTIES
    BusyKeepsContext
    PassEnds
CHECK_DEADLOCK FALSE
