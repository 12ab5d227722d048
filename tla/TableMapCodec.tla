---------------------------- MODULE TableMapCodec ----------------------------
(***************************************************************************)
(* NewTableMapEvent and parseMetadata (eventtype-tablemap.go) over the    *)
(* bytes of a TABLE_MAP event body.  The table-id width is RowsCodec's    *)
(* choice by the format's TABLE_MAP post-header length ph.                *)
(*                                                                         *)
(* Go's b[i] checks the length of b and panics past it.  A slice b[i:j]   *)
(* only checks the capacity, but every slice here that could run past    *)
(* the length is followed by a b[k:] or b[k] with k past the length,      *)
(* which panics whatever the capacity; the result is then                  *)
(* [res |-> "panic"].  A returned error is [res |-> "err"].               *)
(***************************************************************************)
EXTENDS ValueCodec

RC == INSTANCE RowsCodec

\* parseMetadata's arms: the types whose metadata is two bytes, one byte,
\* or none, and those it gives up on.
MetaTwo == {MYSQL_TYPE_STRING, MYSQL_TYPE_VAR_STRING, MYSQL_TYPE_VARCHAR,
            MYSQL_TYPE_BIT, MYSQL_TYPE_NEWDECIMAL}
MetaOne == {MYSQL_TYPE_BLOB, MYSQL_TYPE_DOUBLE, MYSQL_TYPE_FLOAT, MYSQL_TYPE_GEOMETRY,
            MYSQL_TYPE_TIME2, MYSQL_TYPE_DATETIME2, MYSQL_TYPE_TIMESTAMP2}
MetaRejected == {MYSQL_TYPE_NEWDATE, MYSQL_TYPE_ENUM, MYSQL_TYPE_SET,
                 MYSQL_TYPE_TINY_BLOB, MYSQL_TYPE_MEDIUM_BLOB, MYSQL_TYPE_LONG_BLOB}
MetaWidth(t) == IF t \in MetaTwo THEN 2 ELSE IF t \in MetaOne THEN 1 ELSE 0

\* Mutant of MetaValue: VARCHAR's max length is read high byte first.
MetaValueVarcharBigEndian(t, b, i) ==
    CASE t \in {MYSQL_TYPE_STRING, MYSQL_TYPE_NEWDECIMAL, MYSQL_TYPE_VARCHAR} ->
           b[i + 1] * 256 + b[i + 2]
      [] t \in MetaTwo -> b[i + 1] + 256 * b[i + 2]
      [] t \in MetaOne -> b[i + 1]
      [] OTHER -> 0

\* The uint16 metadata of a column of type t at Go index i: STRING (real
\* type, length) and NEWDECIMAL (precision, decimals) high byte first,
\* VAR_STRING/VARCHAR/BIT binary.LittleEndian.Uint16, one byte, or 0.
MetaValue(t, b, i) ==
    CASE t \in {MYSQL_TYPE_STRING, MYSQL_TYPE_NEWDECIMAL} -> b[i + 1] * 256 + b[i + 2]
      [] t \in MetaTwo -> b[i + 1] + 256 * b[i + 2]
      [] t \in MetaOne -> b[i + 1]
      [] OTHER -> 0

\* One column of parseMetadata's loop, after the cursor s.
MetaStep(s, b, t) ==
    CASE s.res # "ok" -> s
      [] t \in MetaRejected -> [res |-> "err"]
      [] Len(b) < s.i + MetaWidth(t) -> [res |-> "panic"]
      [] OTHER -> [res |-> "ok", i |-> s.i + MetaWidth(t), meta |-> Append(s.meta, MetaValue(t, b, s.i))]

parseMetadata(b, types) ==
    LET m[k \in 0..Len(types)] ==
            IF k = 0 THEN [res |-> "ok", i |-> 0, meta |-> <<>>] ELSE MetaStep(m[k - 1], b, types[k])
    IN m[Len(types)]

\* int(w) of a Word already known to be at most the length of b.
GoInt(w) == w[1] + 256 * w[2] + 65536 * w[3]

bitmapByteSize(columnCount) == (columnCount + 7) \div 8

\* The null bitmap: the rest of b, which must be bitmapByteSize bytes.
TableMapNulls(b, e, cc, meta, j) ==
    IF Len(b) - j # bitmapByteSize(cc) THEN [res |-> "err"]
    ELSE [e EXCEPT !.meta = meta, !.nulls = SubSeq(b, j + 1, Len(b))]

\* parseMetadata of the metadata block m, which getLengthEncodedString
\* read at Go index x as g.
TableMapParsed(b, e, cc, j, p) ==
    IF p.res # "ok" THEN [res |-> p.res] ELSE TableMapNulls(b, e, cc, p.meta, j)
TableMapMeta(b, e, cc, x, g, m) == TableMapParsed(b, e, cc, x + GoInt(g.n), parseMetadata(m, e.types))
TableMapBlock(b, e, cc, x, g) ==
    CASE g.res = "panic" -> [res |-> "panic"]
      [] g.res = "EOF" -> [res |-> "err"]
      [] g.res = "nil" -> TableMapMeta(b, e, cc, x, g, <<>>)
      [] OTHER -> TableMapMeta(b, e, cc, x, g, SubSeq(b, x + GoInt(g.lo) + 1, x + GoInt(g.hi)))

\* The column count r read at Go index i, then ColumnTypes = b[i:i+count]
\* with i + int(count) in int64.
TableMapTypes(b, e, i, r, hi) ==
    IF SCmp(hi, WordOf(i)) < 0 \/ SCmp(hi, WordOf(Len(b))) > 0 THEN [res |-> "panic"]
    ELSE TableMapBlock(b, [e EXCEPT !.count = r.num, !.types = SubSeq(b, i + 1, GoInt(hi))],
                       GoInt(r.num), GoInt(hi), getLengthEncodedString(SubSeq(b, GoInt(hi) + 1, Len(b))))
TableMapCount(b, e, c, r) ==
    IF r.panic THEN [res |-> "panic"] ELSE TableMapTypes(b, e, c + r.n, r, AddW(WordOf(c + r.n), r.num))

\* The table id (RowsCodec), flags, and the two zero-terminated names
\* after their length bytes, with Go indices: flags at z, the database
\* name length at z + 2, the table name length at t, the count at c.
NewTableMapEvent(ph, b) ==
    LET z == RC!TableMapTableIDSize(ph)
        t == z + 3 + b[z + 3] + 1
        c == t + 1 + b[t + 1] + 1
    IN CASE Len(b) <= z + 2 -> [res |-> "panic"]
         [] Len(b) <= t -> [res |-> "panic"]
         [] Len(b) < c -> [res |-> "panic"]
         [] OTHER ->
              TableMapCount(b,
                  [res |-> "ok", id |-> RC!TableMapTableID(ph, b), flags |-> b[z + 1] + 256 * b[z + 2],
                   db |-> SubSeq(b, z + 4, z + 3 + b[z + 3]), table |-> SubSeq(b, t + 2, t + 1 + b[t + 1]),
                   count |-> Zero, types |-> <<>>, meta |-> <<>>, nulls |-> <<>>],
                  c, getLengthEncodedInt(SubSeq(b, c + 1, Len(b))))
=============================================================================
