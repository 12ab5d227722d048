CONSTANTS
    MaxPayload = 2
    SeqMod = 4
    Commands = {1, 2, 5}
    Responses = {1, 2}
    MaxCmds = 2
SPECIFICATION Spec
INVARIANTS
    FramingErrorFree
CHECK_DEADLOCK FALSE
