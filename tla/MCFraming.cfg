CONSTANTS
    MaxPayload = 2
    SeqMod = 4
    Commands = {1, 2, 5}
    Responses = {1, 3}
    MaxCmds = 2
SPECIFICATION Spec
INVARIANTS
    TypeOK
    FramingErrorFree
PROPERTIES
    ChannelRefinement
    CommandCompletes
CHECK_DEADLOCK FALSE
