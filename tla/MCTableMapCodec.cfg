CONSTANTS
    MapColumns = {"tiny", "long", "string", "varchar", "varstring", "bit", "decimal", "blob", "double", "time2", "enum"}
    MaxMapColumns = 2
    WideColumns = 9
SPECIFICATION Spec
INVARIANT TableMapDecodeCorrect
