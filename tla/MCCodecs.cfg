CONSTANTS
    Values <- MCValues
    MaxTail = 3
    TableTypes <- MCTinyTable
    Vals <- MCVals
    Strings <- MCStrings
    Counts <- MCCounts
    MaxRows = 2
    ColumnKinds = {"str", "u64", "i64", "long", "double"}
    Time2Metas = {0, 2, 4}
    DecimalShapes <- MCDecimalShapes
    MapColumns = {"tiny", "long", "string", "varchar", "varstring", "bit", "decimal", "blob", "double", "time2", "enum"}
    MaxMapColumns = 2
    WideColumns = 9
    EventKinds = {"fde", "fde20", "rotate", "xid", "query", "beginload", "execload", "gtid", "tablemap", "rows"}
    Frames = {"ok", "long", "tiny", "cut"}
    Formats <- MCFormats
    ServerCaps = {2147483647, 41477, 33280, 63487, 32773}
    Names <- MCNames
    Hosts <- MCHosts
    Ports = {3306, 65535}
SPECIFICATION Spec
INVARIANTS
    FixedWidthIntsMatch
    BitmapHelpersMatch
    LenEncIntRoundTrip
    LenEncStringCorrect
    RowsDecodeCorrect
    ReadResultCorrect
    GettersCorrect
    LeaderPositionCorrect
    ValuesDecodeCorrect
    TableMapDecodeCorrect
    EventsDecodeCorrect
    HandshakeCorrect
    AuthResponseCorrect
    CommandsCorrect
