--------------------------- MODULE MCEventCodec ---------------------------
(***************************************************************************)
(* Checks BinlogParser.Parse on whole events as the primary writes them:  *)
(* the 19-byte v4 header (timestamp, type, server id, event size, next    *)
(* position, flags) and a body of each type parseEvent dispatches on.     *)
(* The frame may be cut short, or state a size that is not the length.    *)
(***************************************************************************)
EXTENDS EventCodec, MCCodecValues

CONSTANTS
    EventKinds,   \* the events written
    Frames,       \* how the header frames the body
    Formats       \* the parser's format: None, or post-header lengths

VARIABLE in

\* A format description of binlog version 4 by server "5", created at 7,
\* with header length hl.
FdeBody(hl) ==
    <<4, 0>> \o [k \in 1..50 |-> IF k = 1 THEN 53 ELSE 0] \o <<7, 0, 0, 0>> \o <<hl>> \o MCFmtLengths

\* Each kind: its type byte, its body, and the event it decodes to.
TableMapBody == <<1, 0, 0, 0, 0, 0, 1, 0, 1, 100, 0, 1, 116, 0, 1, MYSQL_TYPE_TINY, 0, 0>>
QueryText == <<98, 101, 103, 105, 110>>
Kind(k) ==
    CASE k = "fde" -> [type |-> FORMAT_DESCRIPTION_EVENT, body |-> FdeBody(19),
                       event |-> [res |-> "ok", kind |-> "FDE", version |-> 4,
                                  server |-> [j \in 1..50 |-> IF j = 1 THEN 53 ELSE 0],
                                  created |-> WordOf(7), headerLength |-> 19, lengths |-> MCFmtLengths]]
      [] k = "fde20" -> [type |-> FORMAT_DESCRIPTION_EVENT, body |-> FdeBody(20), event |-> [res |-> "err"]]
      [] k = "rotate" -> [type |-> ROTATE_EVENT, body |-> <<4, 0, 0, 0, 0, 0, 0, 0, 98, 50>>,
                          event |-> [res |-> "ok", kind |-> "ROTATE", next |-> WordOf(4), file |-> <<98, 50>>]]
      [] k = "xid" -> [type |-> XID_EVENT, body |-> <<9, 1, 0, 0, 0, 0, 0, 0>>,
                       event |-> [res |-> "ok", kind |-> "XID", xid |-> WordOf(265)]]
      [] k = "query" -> [type |-> QUERY_EVENT,
                         body |-> <<3, 0, 0, 0, 0, 0, 0, 0, 1, 0, 0, 2, 0, 6, 7, 100, 0>> \o QueryText,
                         event |-> [res |-> "ok", kind |-> "QUERY", proxy |-> WordOf(3), time |-> Zero,
                                    error |-> 0, status |-> <<6, 7>>, db |-> <<100>>, query |-> QueryText]]
      [] k = "beginload" -> [type |-> BEGIN_LOAD_QUERY_EVENT, body |-> <<2, 0, 0, 0, 120>>,
                             event |-> [res |-> "ok", kind |-> "BEGIN_LOAD", file |-> WordOf(2),
                                        block |-> <<120>>]]
      [] k = "execload" -> [type |-> EXECUTE_LOAD_QUERY_EVENT,
                            body |-> <<3, 0, 0, 0, 0, 0, 0, 0, 1, 0, 0, 0, 0, 2, 0, 0, 0,
                                       5, 0, 0, 0, 9, 0, 0, 0, 1, 100, 0, 113>>,
                            event |-> [res |-> "ok", kind |-> "EXECUTE_LOAD", proxy |-> WordOf(3),
                                       time |-> Zero, schemaLength |-> 1, error |-> 0, statusVars |-> 0,
                                       file |-> WordOf(2), start |-> WordOf(5), end |-> WordOf(9), dup |-> 1]]
      [] k = "gtid" -> [type |-> 33, body |-> <<0, 1, 2>>,
                        event |-> [res |-> "ok", kind |-> "GENERIC", data |-> <<0, 1, 2>>]]
      [] k = "tablemap" -> [type |-> TABLE_MAP_EVENT, body |-> TableMapBody,
                            event |-> [res |-> "ok", id |-> WordOf(1), flags |-> 1, db |-> <<100>>,
                                       table |-> <<116>>, count |-> WordOf(1), types |-> <<MYSQL_TYPE_TINY>>,
                                       meta |-> <<0>>, nulls |-> <<0>>]]
      [] k = "rows" -> [type |-> 23, body |-> <<0>>, event |-> [res |-> "rows"]]

\* The header the primary writes for a body of n bytes, stating size s.
Header(t, s) ==
    <<10, 0, 0, 0, t, 1, 0, 0, 0>> \o SubSeq(WordOf(s), 1, 4) \o SubSeq(WordOf(s + 500), 1, 4) \o <<0, 0>>
DecodedHeader(t, s) ==
    [res |-> "ok", timestamp |-> WordOf(10), type |-> t, serverId |-> WordOf(1), size |-> WordOf(s),
     logPos |-> WordOf(s + 500), flags |-> 0]

\* "ok": the size is 19 plus the body; "long": one more than that; "tiny":
\* less than a header; "cut": the event stops inside the header.
EventBytes(x) ==
    LET k == Kind(x.ev)
        n == EventHeaderSize + Len(k.body)
    IN CASE x.frame = "ok" -> Header(k.type, n) \o k.body
         [] x.frame = "long" -> Header(k.type, n + 1) \o k.body
         [] x.frame = "tiny" -> Header(k.type, 18) \o k.body
         [] x.frame = "cut" -> SubSeq(Header(k.type, n), 1, 12)

\* A TABLE_MAP is only written after the format description.
Inputs == {x \in [ev : EventKinds, frame : Frames, fmt : Formats] : x.ev = "tablemap" => x.fmt # None}

\* Each input is an initial state; a step keeps it.
Init == in \in Inputs
Next == UNCHANGED in
Spec == Init /\ [][Next]_in

----------------------------------------------------------------------------

(***************************************************************************)
(* Parse returns an error for a cut header and for a stated size that is  *)
(* below 19 or is not the event's length; otherwise the header's fields   *)
(* and the body decoded by its type's decoder, each field at its offset   *)
(* (QUERY skipping the zero after the db name), or an EventError with the *)
(* header and body when the decoder refuses it (a header length not 19).  *)
(***************************************************************************)
EventsDecodeCorrect ==
    LET k == Kind(in.ev)
        n == EventHeaderSize + Len(k.body)
        h == DecodedHeader(k.type, n)
    IN Parse(in.fmt, EventBytes(in)) =
         IF in.frame # "ok" THEN [res |-> "err"]
         ELSE IF k.event.res = "err" THEN [res |-> "eventError", header |-> h, data |-> k.body]
         ELSE IF k.event.res = "rows" THEN k.event
         ELSE [res |-> "ok", header |-> h, event |-> k.event, bytes |-> EventBytes(in)]
=============================================================================
