CONSTANTS
    Strings <- MCStrings
    Counts <- MCCounts
    MaxRows = 2
    ColumnKinds = {"str", "u64", "i64", "long", "double"}
SPECIFICATION Spec
INVARIANTS
    ReadResultCorrect
    GettersCorrect
    LeaderPositionCorrect
