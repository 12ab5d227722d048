CONSTANTS
    EventKinds = {"fde", "fde20", "rotate", "xid", "query", "beginload", "execload", "gtid", "tablemap", "rows"}
    Frames = {"ok", "long", "tiny", "cut"}
    Formats <- MCFormats
SPECIFICATION Spec
INVARIANT EventsDecodeCorrect
