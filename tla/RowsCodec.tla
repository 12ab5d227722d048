------------------------------ MODULE RowsCodec ------------------------------
(***************************************************************************)
(* The row-image loop of NewRowsEvent and parseRows (eventtype-rows.go)   *)
(* over the bytes of a rows event body, the part after the column         *)
(* bitmaps.  A table has columns 0..ColumnCount-1 with types TINY (one     *)
(* byte, getBinaryInt8) or GEOMETRY, which parseValue rejects             *)
(* ("unsupported type").  A bitmap is a byte sequence as in the event.     *)
(*                                                                         *)
(* A slice or index past the end of b panics; the result is then          *)
(* [res |-> "panic"].  A loop iteration that does not move the cursor     *)
(* repeats forever; the result is then [res |-> "hang"].                   *)
(***************************************************************************)
EXTENDS ByteCodec

Nil == "nil"

\* parseValue for the two column types: a value and its size, or an error.
ParseValue(data, tp) ==
    CASE tp = "TINY" /\ data = <<>> -> [res |-> "panic"]
      [] tp = "TINY" -> [res |-> "ok", v |-> getBinaryInt8(data), n |-> 1]
      [] OTHER -> [res |-> "err"]

\* Mutant of NullBit: the NULL bit is read at the column's own index.
NullBitAtColumn(nullBitmap, nbi, j) ==
    (nullBitmap[j \div 8 + 1] \div 2^(j % 8)) % 2

\* (nullBitmap[nullBitIndex/8] >> (nullBitIndex%8)) & 0x01
NullBit(nullBitmap, nbi, j) ==
    (nullBitmap[nbi \div 8 + 1] \div 2^(nbi % 8)) % 2

(***************************************************************************)
(* parseRows(b, table, bitmap): the NULL bitmap has one bit per column    *)
(* present in bitmap; each present, non-NULL column is parsed in turn.     *)
(* A value error returns (0, nil) and appends no row.                      *)
(***************************************************************************)
parseRows(b, types, bitmap) ==
    LET cc == Len(types)
        count == byteCountFromBitCount(bitCount(bitmap))
        nullBitmap == SubSeq(b, 1, count)
        \* The state after columns 0..j-1: cursor, null bit index, row.
        st[j \in 0..cc] ==
            IF j = 0 THEN [res |-> "ok", i |-> count, nbi |-> 0,
                           row |-> [c \in 0..(cc - 1) |-> Nil]]
            ELSE LET s == st[j - 1]
                     c == j - 1
                 IN CASE s.res # "ok" -> s
                      [] getBit(bitmap, c) = 0 -> s
                      [] NullBit(nullBitmap, s.nbi, c) = 1 ->
                           [s EXCEPT !.nbi = s.nbi + 1]
                      [] OTHER ->
                           LET pv == ParseValue(SubSeq(b, s.i + 1, Len(b)), types[j])
                           IN CASE pv.res = "ok" ->
                                     [s EXCEPT !.i = s.i + pv.n, !.nbi = s.nbi + 1,
                                               !.row[c] = pv.v]
                                [] pv.res = "err" -> [res |-> "fail"]
                                [] OTHER -> pv
    IN IF count > Len(b) THEN [res |-> "panic"]
       ELSE CASE st[cc].res = "ok" -> [res |-> "ok", n |-> st[cc].i, row |-> st[cc].row]
              [] st[cc].res = "fail" -> [res |-> "fail", n |-> 0]
              [] OTHER -> [res |-> "panic"]

\* One parseRows call of the loop at cursor i: the new cursor and rows.
RowsCall(b, types, bitmap, i, rows) ==
    LET p == parseRows(SubSeq(b, i + 1, Len(b)), types, bitmap)
    IN CASE p.res = "ok" -> [res |-> "ok", i |-> i + p.n, rows |-> Append(rows, p.row)]
         [] p.res = "fail" -> [res |-> "ok", i |-> i, rows |-> rows]
         [] OTHER -> [res |-> "panic"]

(***************************************************************************)
(* NewRowsEvent's loop `for i < len(b)`: parseRows with bitmap1, and for  *)
(* an update a second call with bitmap2 at the cursor the first left.     *)
(***************************************************************************)
RECURSIVE RowsLoop(_, _, _, _, _, _, _)
RowsLoop(b, types, isUpdate, bm1, bm2, i, rows) ==
    IF i >= Len(b) THEN [res |-> "ok", rows |-> rows]
    ELSE LET r1 == RowsCall(b, types, bm1, i, rows)
             r2 == IF isUpdate /\ r1.res = "ok"
                   THEN RowsCall(b, types, bm2, r1.i, r1.rows) ELSE r1
         IN CASE r2.res # "ok" -> r2
              [] r2.i = i -> [res |-> "hang"]
              [] OTHER -> RowsLoop(b, types, isUpdate, bm1, bm2, r2.i, r2.rows)

NewRowsEvent(b, types, isUpdate, bm1, bm2) ==
    RowsLoop(b, types, isUpdate, bm1, bm2, 0, <<>>)

----------------------------------------------------------------------------
(* Table ids.  b is the event body from its post-header on.               *)


\* NewTableMapEvent: a 4-byte id when the format's TABLE_MAP post-header
\* length is 6, else a 6-byte id.
TableMapTableIDSize(postHeaderLen) == IF postHeaderLen = 6 THEN 4 ELSE 6

TableMapTableID(postHeaderLen, b) ==
    getLittleEndianFixedLengthInt(SubSeq(b, 1, TableMapTableIDSize(postHeaderLen)))

\* NewRowsEvent: always a 6-byte id (tableIDSize), whatever the format.
RowsTableID(b) == getLittleEndianFixedLengthInt(SubSeq(b, 1, 6))
=============================================================================
