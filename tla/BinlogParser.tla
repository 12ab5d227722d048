---------------------------- MODULE BinlogParser ----------------------------
(***************************************************************************)
(* The stateful event decoder (parser.go, BinlogParser): the current      *)
(* format description and the table-map registry, and how each event      *)
(* type reads and changes them.  The decoder is a set of operators over   *)
(* its state st = [format, tables]; the ingest task of Follower applies   *)
(* them, one event at a time.                                             *)
(***************************************************************************)
EXTENDS Binlog, TLC

\* Column types parseMetadata gives up on ("unsupported type").
MetadataRejected == {"NEWDATE", "ENUM", "SET", "TINY_BLOB", "MEDIUM_BLOB",
                     "LONG_BLOB"}

\* Column types parseValue has a case for; any other one is an error.
ValueDecoded == {"NULL", "TINY", "SHORT", "INT24", "LONG", "LONGLONG",
                 "NEWDECIMAL", "FLOAT", "DOUBLE", "BIT", "TIMESTAMP",
                 "TIMESTAMP2", "DATETIME", "DATETIME2", "TIME", "TIME2", "DATE",
                 "YEAR", "ENUM", "SET", "BLOB", "VARCHAR", "VAR_STRING", "STRING"}

NoTables == [t \in {} |-> NoCols]

\* NewBinlogParser: no format yet, an empty registry.
NewBinlogParser == [format |-> FALSE, tables |-> NoTables]

\* NewTableMapEvent: reads the table-id width from the current format (a
\* nil format is dereferenced: a panic), then the per-column metadata,
\* which fails for the rejected types.  On success parseEvent stores the
\* map under its id, replacing an earlier one.
DecodeTableMap(st, ev) ==
    IF ~st.format THEN [outcome |-> "panic", st |-> st]
    ELSE IF \E c \in Cols : ev.cols[c] \in MetadataRejected
         THEN [outcome |-> "error", st |-> st]
         ELSE [outcome |-> "ok",
               st |-> [st EXCEPT !.tables = (ev.table :> ev.cols) @@ st.tables]]

\* NewRowsEvent up to its row loop: the table id must name a stored map.
\* Outcome "rows" means the row loop is entered with that map.
DecodeRowsHeader(st, ev) ==
    IF ev.table \in DOMAIN st.tables
    THEN [outcome |-> "rows", st |-> st]
    ELSE [outcome |-> "error", st |-> st]

\* Mutant of Decode: a FORMAT_DESCRIPTION is not kept as the format.
DecodeFdeNotKept(st, ev) ==
    CASE ev.type = "ROTATE" ->
            [outcome |-> "ok", st |-> [st EXCEPT !.tables = NoTables]]
      [] ev.type = "TABLE_MAP" -> DecodeTableMap(st, ev)
      [] ev.type \in RowsTypes -> DecodeRowsHeader(st, ev)
      [] OTHER -> [outcome |-> "ok", st |-> st]

\* Mutant of Decode: ROTATE leaves the registry as it was.
DecodeRotateKeepsTables(st, ev) ==
    CASE ev.type = "FORMAT_DESCRIPTION" ->
            [outcome |-> "ok", st |-> [st EXCEPT !.format = TRUE]]
      [] ev.type \in {"ROTATE"} -> [outcome |-> "ok", st |-> st]
      [] ev.type = "TABLE_MAP" -> DecodeTableMap(st, ev)
      [] ev.type \in RowsTypes -> DecodeRowsHeader(st, ev)
      [] OTHER -> [outcome |-> "ok", st |-> st]

(***************************************************************************)
(* parseEvent: dispatch on the header's event type.  A FORMAT_DESCRIPTION *)
(* becomes the current format; a ROTATE empties the registry (table ids   *)
(* are scoped to a binlog file); QUERY, XID and the rest leave the state  *)
(* alone.                                                                 *)
(***************************************************************************)
Decode(st, ev) ==
    CASE ev.type = "FORMAT_DESCRIPTION" ->
            [outcome |-> "ok", st |-> [st EXCEPT !.format = TRUE]]
      [] ev.type = "ROTATE" ->
            [outcome |-> "ok", st |-> [st EXCEPT !.tables = NoTables]]
      [] ev.type = "TABLE_MAP" -> DecodeTableMap(st, ev)
      [] ev.type \in RowsTypes -> DecodeRowsHeader(st, ev)
      [] OTHER -> [outcome |-> "ok", st |-> st]

\* parseRows with parseValue: a row image decodes when every column the
\* bitmap selects is NULL or of a type parseValue handles.
ImageDecodes(cols, bitmap, img) ==
    \A j \in bitmap : img[j] = "null" \/ cols[j] \in ValueDecoded

(***************************************************************************)
(* One call of parseRows inside NewRowsEvent's loop, at row image i with  *)
(* bitmap number ph (2 only for the after image of an update).  parseRows *)
(* returns (0, nil) when a value fails, so the loop's cursor stays where  *)
(* it was; an update still goes on to its after-image call, at the same   *)
(* cursor, which then reads the failed image with the other bitmap.       *)
(***************************************************************************)
RowsLoopStep(cols, ev, i, ph) ==
    [i |-> IF ImageDecodes(cols, ev.bitmaps[ph], ev.images[i]) THEN i + 1 ELSE i,
     ph |-> IF ev.type = "UPDATE_ROWS_V1" /\ ph = 1 THEN 2 ELSE 1]

\* The loop `for i < len(b)` ends when the cursor passes the last image
\* at the top of an iteration.
RowsLoopDone(ev, i, ph) == ph = 1 /\ i > Len(ev.images)
=============================================================================
