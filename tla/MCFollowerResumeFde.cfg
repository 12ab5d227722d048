CONSTANTS
    Callers = {a}
    Conns = {1, 2}
    Tables = {1}
    Cols = {1, 2}
    ColTypes = {"LONG", "GEOMETRY"}
    ChCap = 1
    ErrCap = 1
    None = None
    Files <- MCFiles
    Requests <- MCRequests

SPECIFICATION Spec

INVARIANT NextPositionWhileStreaming
