CONSTANTS
    a = a
    b = b
    NoToken = NoToken
    NSlots = 3
    NBatch = 3
    NCells = 5
    NCtx = 4
    Tokens = {a, b}
    Prompts <- MCPrompts
    NChildren = 1
SPECIFICATION Spec
INVARIANT HeadKeepsTask
CHECK_DEADLOCK FALSE
