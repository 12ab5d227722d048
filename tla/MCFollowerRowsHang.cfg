CONSTANTS
    Callers = {a}
    Conns = {1, 2}
    Tables = {1}
    Cols = {1, 2}
    ColTypes = {"LONG", "GEOMETRY"}
    ChCap = 1
    ErrCap = 1
    None = None
    Files <- MCFilesGeometry
    Requests <- MCRequests

SPECIFICATION Spec

PROPERTY CloseReturns
