------------------------------- MODULE Binlog -------------------------------
(***************************************************************************)
(* The primary's binary log and the packet stream its dump thread sends.  *)
(* This is the environment of the follower: it models the MySQL server,   *)
(* not code of this repository.                                           *)
(*                                                                         *)
(* An event is a record with every field present; fields that do not      *)
(* apply to its type hold a default.  Byte layouts are abstracted away:   *)
(* a table map carries the MySQL type of each column, a rows event the    *)
(* column bitmaps and, per row image, which columns are NULL.             *)
(*                                                                         *)
(* Positions: the k-th event of a file starts at offset 3 + k (the first  *)
(* at 4, after the magic header), so its header's log_pos is 4 + k.       *)
(***************************************************************************)
EXTENDS Integers, Sequences, SequencesExt

CONSTANTS
    Files,          \* the binlog: a sequence of files, each a sequence of events
    Tables,         \* table ids that appear in table-map and rows events
    Cols,           \* column indices of a table (1..n)
    ColTypes        \* MySQL column types that appear in table maps

RowsTypes == {"WRITE_ROWS_V1", "UPDATE_ROWS_V1", "DELETE_ROWS_V1"}

EventTypes == {"FORMAT_DESCRIPTION", "ROTATE", "TABLE_MAP", "QUERY", "XID",
               "OTHER"} \cup RowsTypes

\* One row image: for every column, whether its value is NULL.
Images == [Cols -> {"null", "val"}]

Event(type, table, cols, bitmaps, images, next) ==
    [type |-> type, table |-> table, cols |-> cols, bitmaps |-> bitmaps,
     images |-> images, next |-> next]

NoCols == [c \in Cols |-> "LONG"]
NoNext == <<0, 0>>

FdeEv == Event("FORMAT_DESCRIPTION", 0, NoCols, <<{}, {}>>, <<>>, NoNext)
RotateEv(f, p) == Event("ROTATE", 0, NoCols, <<{}, {}>>, <<>>, <<f, p>>)
TableMapEv(t, cols) == Event("TABLE_MAP", t, cols, <<{}, {}>>, <<>>, NoNext)
RowsEv(type, t, bm1, bm2, imgs) == Event(type, t, NoCols, <<bm1, bm2>>, imgs, NoNext)
XidEv == Event("XID", 0, NoCols, <<{}, {}>>, <<>>, NoNext)
QueryEv == Event("QUERY", 0, NoCols, <<{}, {}>>, <<>>, NoNext)

\* A packet of the dump stream: an event and the log_pos in its header.
Packet(ev, logPos) == [ev |-> ev, logPos |-> logPos]

\* The events of file f from its k-th on, with their real log_pos.
FileFrom(f, k) ==
    [i \in 1..(Len(Files[f]) - k + 1) |->
        Packet(Files[f][k + i - 1], 4 + (k + i - 1))]

(***************************************************************************)
(* What the dump thread sends for COM_BINLOG_DUMP(f, p): an artificial    *)
(* ROTATE naming the start (log_pos 0), then, when p is past the format   *)
(* description, that file's FORMAT_DESCRIPTION with log_pos zeroed so the *)
(* replica does not advance; then the events from p, following each real  *)
(* ROTATE into the next file from its start.                              *)
(***************************************************************************)
DumpStream(f, p) ==
    <<Packet(RotateEv(f, p), 0)>>
    \o (IF p > 4 THEN <<Packet(FdeEv, 0)>> ELSE <<>>)
    \o FlattenSeq([i \in 1..(Len(Files) - f + 1) |->
                     FileFrom(f + i - 1, IF i = 1 THEN p - 3 ELSE 1)])

\* Every position a dump can start at: the start of an event, or 0..3
\* (which the follower clamps to 4).
StartPositions ==
    UNION {{<<f, p>> : p \in {0} \cup {3 + k : k \in 1..Len(Files[f])}} :
           f \in 1..Len(Files)}
=============================================================================
