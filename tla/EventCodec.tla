----------------------------- MODULE EventCodec -----------------------------
(***************************************************************************)
(* BinlogParser.Parse over the bytes of one event: NewEventHeader         *)
(* (eventheader.go), the event-size check, and parseEvent's dispatch to   *)
(* the body decoders of eventtype-formatdescription.go, -rotate.go,       *)
(* -generic.go and TableMapCodec.  The parser's state is the current      *)
(* format's post-header lengths fmt, or None; storing the format and the *)
(* table map and emptying the registry on ROTATE are BinlogParser's.      *)
(* The rows arm hands the body to NewRowsEvent (RowsCodec, BinlogParser): *)
(* its result here is [res |-> "rows"].                                    *)
(*                                                                         *)
(* A uint32 or uint64 field is the Word of its little-endian bytes.  As  *)
(* in TableMapCodec, a slice past the length that is followed by an index *)
(* or b[k:] past the length panics whatever the capacity.                 *)
(***************************************************************************)
EXTENDS TableMapCodec

\* Event type codes (spec section 6) and the v4 header size.
QUERY_EVENT == 2
ROTATE_EVENT == 4
FORMAT_DESCRIPTION_EVENT == 15
XID_EVENT == 16
BEGIN_LOAD_QUERY_EVENT == 17
EXECUTE_LOAD_QUERY_EVENT == 18
TABLE_MAP_EVENT == 19
ROWS_EVENTS_V1 == {23, 24, 25}
EventHeaderSize == 19
\* A nil format: no post-header lengths at all.
None == <<>>

\* binary.LittleEndian.Uint16/32/64 of the bytes at Go index i.
U16(b, i) == b[i + 1] + 256 * b[i + 2]
U32(b, i) == [j \in 1..8 |-> IF j <= 4 THEN b[i + j] ELSE 0]
U64(b, i) == [j \in 1..8 |-> b[i + j]]

NewEventHeader(b) ==
    CASE Len(b) < EventHeaderSize -> [res |-> "err"]
      [] UCmp(U32(b, 9), WordOf(EventHeaderSize)) < 0 -> [res |-> "err"]
      [] OTHER -> [res |-> "ok", timestamp |-> U32(b, 0), type |-> b[5], serverId |-> U32(b, 5),
                   size |-> U32(b, 9), logPos |-> U32(b, 13), flags |-> U16(b, 17)]

\* The 50-byte server version is copied; the header length must be 19.
NewFormatDescriptionEvent(b) ==
    CASE Len(b) <= 56 -> [res |-> "panic"]
      [] b[57] # EventHeaderSize -> [res |-> "err"]
      [] OTHER -> [res |-> "ok", kind |-> "FDE", version |-> U16(b, 0), server |-> SubSeq(b, 3, 52),
                   created |-> U32(b, 52), headerLength |-> b[57], lengths |-> SubSeq(b, 58, Len(b))]

NewRotateEvent(b) ==
    IF Len(b) < 8 THEN [res |-> "panic"]
    ELSE [res |-> "ok", kind |-> "ROTATE", next |-> U64(b, 0), file |-> SubSeq(b, 9, Len(b))]

NewXidEvent(b) ==
    IF Len(b) < 8 THEN [res |-> "panic"] ELSE [res |-> "ok", kind |-> "XID", xid |-> U64(b, 0)]

\* QUERY: proxy id, time, db name length at 8, error code, status-vars
\* length at 11, the status vars, the db name, skip skipped bytes, the
\* query (b[i:] panics past the length).
QueryBody(b, svl, dbl, skip) ==
    IF Len(b) < 13 + svl + dbl + skip THEN [res |-> "panic"]
    ELSE [res |-> "ok", kind |-> "QUERY", proxy |-> U32(b, 0), time |-> U32(b, 4),
          error |-> U16(b, 9), status |-> SubSeq(b, 14, 13 + svl),
          db |-> SubSeq(b, 14 + svl, 13 + svl + dbl),
          query |-> SubSeq(b, 14 + svl + dbl + skip, Len(b))]

\* Mutant of NewQueryEvent: the [00] byte after the db name is not skipped.
NewQueryEventNoSkip(b) ==
    IF Len(b) < 13 THEN [res |-> "panic"] ELSE QueryBody(b, U16(b, 11), b[9], 0)

\* b[8] panics below 9 bytes; below 13 the status-vars length is read
\* past the length, but b[i:] then panics whatever it is.
NewQueryEvent(b) ==
    IF Len(b) < 13 THEN [res |-> "panic"] ELSE QueryBody(b, U16(b, 11), b[9], 1)

NewBeginLoadQueryEvent(b) ==
    IF Len(b) < 4 THEN [res |-> "panic"]
    ELSE [res |-> "ok", kind |-> "BEGIN_LOAD", file |-> U32(b, 0), block |-> SubSeq(b, 5, Len(b))]

NewExecuteLoadQueryEvent(b) ==
    IF Len(b) <= 25 THEN [res |-> "panic"]
    ELSE [res |-> "ok", kind |-> "EXECUTE_LOAD", proxy |-> U32(b, 0), time |-> U32(b, 4),
          schemaLength |-> b[9], error |-> U16(b, 9), statusVars |-> U16(b, 11),
          file |-> U32(b, 13), start |-> U32(b, 17), end |-> U32(b, 21), dup |-> b[26]]

NewGenericEvent(b) == [res |-> "ok", kind |-> "GENERIC", data |-> b]

\* parseEvent: the decoder of the header's type.  A TABLE_MAP reads the
\* format's TABLE_MAP post-header length (a nil format panics).
parseEvent(fmt, h, data) ==
    CASE h.type = FORMAT_DESCRIPTION_EVENT -> NewFormatDescriptionEvent(data)
      [] h.type = ROTATE_EVENT -> NewRotateEvent(data)
      [] h.type = TABLE_MAP_EVENT /\ fmt = None -> [res |-> "panic"]
      [] h.type = TABLE_MAP_EVENT /\ Len(fmt) < TABLE_MAP_EVENT -> [res |-> "panic"]
      [] h.type = TABLE_MAP_EVENT -> NewTableMapEvent(fmt[TABLE_MAP_EVENT], data)
      [] h.type \in ROWS_EVENTS_V1 -> [res |-> "rows"]
      [] h.type = QUERY_EVENT -> NewQueryEvent(data)
      [] h.type = XID_EVENT -> NewXidEvent(data)
      [] h.type = BEGIN_LOAD_QUERY_EVENT -> NewBeginLoadQueryEvent(data)
      [] h.type = EXECUTE_LOAD_QUERY_EVENT -> NewExecuteLoadQueryEvent(data)
      [] OTHER -> NewGenericEvent(data)

\* An error of the body decoder becomes an EventError with the header and
\* the body; otherwise the container holds the header, event and bytes.
Contained(h, data, b, e) ==
    CASE e.res = "err" -> [res |-> "eventError", header |-> h, data |-> data]
      [] e.res = "ok" -> [res |-> "ok", header |-> h, event |-> e, bytes |-> b]
      [] OTHER -> [res |-> e.res]

\* The body must be exactly event_size - 19 bytes: len(b) = event_size.
ParseChecked(fmt, h, b) ==
    IF WordOf(Len(b)) # h.size THEN [res |-> "err"]
    ELSE Contained(h, SubSeq(b, EventHeaderSize + 1, Len(b)), b,
                   parseEvent(fmt, h, SubSeq(b, EventHeaderSize + 1, Len(b))))

Parse(fmt, b) ==
    LET h == NewEventHeader(b)
    IN IF h.res # "ok" THEN [res |-> "err"] ELSE ParseChecked(fmt, h, b)
=============================================================================
