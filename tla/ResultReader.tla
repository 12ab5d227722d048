---------------------------- MODULE ResultReader ----------------------------
(***************************************************************************)
(* The reply side of Conn.execute (conn.go readResult, readResultset,     *)
(* readResultColumns, readResultRows), the column definitions             *)
(* (field.go FieldData.parse), the text row decoder and the getters       *)
(* (result.go parseText, GetValue, GetString, GetUint64, GetInt64), and   *)
(* Follower.GetLeaderPosition, over the payloads readPacket returns.  pk  *)
(* is the sequence of payloads still to come on the connection; each      *)
(* operator returns how many it consumed.  Running out of payloads means  *)
(* readPacket would block ([res |-> "blocked"]).  Payloads are shorter    *)
(* than 256 bytes, so a consumed count is the low byte of its Word.       *)
(*                                                                         *)
(* A float64 is kept as the text strconv.ParseFloat read: its rounding,   *)
(* and FormatFloat and uint64(float64) of it, are not modelled.           *)
(***************************************************************************)
EXTENDS ValueCodec

UNSIGNED_FLAG == 32

\* A value of a row: nil, a byte slice, an int64 or uint64 (a Word), or a
\* float64 (the text it was parsed from).
NilValue == [t |-> "nil", b |-> <<>>, w |-> Zero]
BytesValue(b) == [t |-> "bytes", b |-> b, w |-> Zero]
IntValue(t, w) == [t |-> t, b |-> <<>>, w |-> w]
FloatValue(s) == [t |-> "float64", b |-> s, w |-> Zero]

(***************************************************************************)
(* strconv.ParseUint(s, 10, 64) and ParseInt(s, 10, 64): the digits      *)
(* accumulate as n * 10 + d in uint64; an empty string or a non-digit is  *)
(* a syntax error and a carry out of 64 bits a range error.  ParseInt    *)
(* takes a sign, and a magnitude above 2^63 (2^63 itself when positive)   *)
(* is a range error.  parseText drops the value on any error, so only    *)
(* whether there is one is kept.                                          *)
(***************************************************************************)
IsDigit(c) == c \in 48..57

\* w * 10 + d in uint64, and whether it carried out.
Mul10Add(w, d) ==
    LET c[j \in 0..8] == IF j = 0 THEN d ELSE (w[j] * 10 + c[j - 1]) \div 256
    IN [w |-> [j \in 1..8 |-> (w[j] * 10 + c[j - 1]) % 256], over |-> c[8] > 0]

\* One digit c of ParseUint after the accumulator a; its value, if any,
\* from the product m.
DigitDone(m) == IF m.over THEN [w |-> Zero, err |-> TRUE] ELSE [w |-> m.w, err |-> FALSE]
DigitStep(a, c) ==
    IF a.err \/ ~IsDigit(c) THEN [w |-> Zero, err |-> TRUE] ELSE DigitDone(Mul10Add(a.w, c - 48))

ParseUint(s) ==
    LET acc[k \in 0..Len(s)] ==
            IF k = 0 THEN [w |-> Zero, err |-> FALSE] ELSE DigitStep(acc[k - 1], s[k])
    IN IF s = <<>> THEN [w |-> Zero, err |-> TRUE] ELSE acc[Len(s)]

Pow63 == [j \in 1..8 |-> IF j = 8 THEN 128 ELSE 0]

\* ParseInt of a sign (neg) and the ParseUint u of the rest.
SignedInt(neg, u) ==
    CASE u.err -> [w |-> Zero, err |-> TRUE]
      [] ~neg /\ UCmp(u.w, Pow63) >= 0 -> [w |-> Zero, err |-> TRUE]
      [] neg /\ UCmp(u.w, Pow63) > 0 -> [w |-> Zero, err |-> TRUE]
      [] OTHER -> [w |-> IF neg THEN SubW(Zero, u.w) ELSE u.w, err |-> FALSE]

ParseInt(s) ==
    IF s = <<>> THEN [w |-> Zero, err |-> TRUE]
    ELSE SignedInt(s[1] = 45, ParseUint(IF s[1] \in {43, 45} THEN SubSeq(s, 2, Len(s)) ELSE s))

\* strconv.ParseFloat's decimal syntax: a sign, digits with at most one
\* point, and an optional exponent.  (Infinities, NaN, hexadecimal forms
\* and overflow, which MySQL does not send, are not modelled.)
Unsigned(m) == IF m # <<>> /\ m[1] \in {43, 45} THEN SubSeq(m, 2, Len(m)) ELSE m
Mantissa(m) ==
    LET u == Unsigned(m)
    IN /\ \E k \in 1..Len(u) : IsDigit(u[k])
       /\ \A k \in 1..Len(u) : IsDigit(u[k]) \/ u[k] = 46
       /\ \A k, l \in 1..Len(u) : u[k] = 46 /\ u[l] = 46 => k = l
Exponent(x) == LET u == Unsigned(x) IN u # <<>> /\ \A k \in 1..Len(u) : IsDigit(u[k])
FloatText(s) ==
    \/ Mantissa(s)
    \/ \E e \in 2..Len(s) : s[e] \in {69, 101} /\ Mantissa(SubSeq(s, 1, e - 1))
                            /\ Exponent(SubSeq(s, e + 1, Len(s)))

\* The value parseText makes of the text v of a non-NULL column f.
IntText(t, r) == [err |-> r.err, v |-> IntValue(t, r.w)]
TextValue(v, f) ==
    CASE f.type \in {MYSQL_TYPE_TINY, MYSQL_TYPE_SHORT, MYSQL_TYPE_INT24,
                     MYSQL_TYPE_LONGLONG, MYSQL_TYPE_YEAR} ->
           IF (f.flag \div UNSIGNED_FLAG) % 2 = 1 THEN IntText("uint64", ParseUint(v))
           ELSE IntText("int64", ParseInt(v))
      [] f.type \in {MYSQL_TYPE_FLOAT, MYSQL_TYPE_DOUBLE} ->
           [err |-> ~FloatText(v), v |-> FloatValue(v)]
      [] OTHER -> [err |-> FALSE, v |-> BytesValue(v)]

\* Mutant of isEOFPacket: the length bound is exclusive.
isEOFPacketShort(b) == b[1] = 254 /\ Len(b) < 5

\* b[0] == EOF_HEADER && len(b) <= 5
isEOFPacket(b) == b[1] = 254 /\ Len(b) <= 5

\* i = i + n
NextField(i, n) == i + n

(***************************************************************************)
(* parseText: one length-encoded string per field, from the cursor on;    *)
(* NULL (0xFB) is nil; a short packet is an error (io.EOF) and a wrapped  *)
(* length a panic; an empty string is a nil slice, parsed like any text.  *)
(***************************************************************************)
\* The cursor s after one more field: its string g (from cursor on) and,
\* for a non-NULL one, the value t parseText makes of it.
TextAppend(s, g, t) ==
    IF t.err THEN [res |-> "err"]
    ELSE [s EXCEPT !.i = NextField(s.i, g.n[1]), !.vals = Append(s.vals, t.v)]
TextCell(s, p, fld, g) ==
    CASE g.res = "EOF" -> [res |-> "err"]
      [] g.res = "panic" -> [res |-> "panic"]
      [] g.res = "nil" /\ g.isNull ->
           [s EXCEPT !.i = NextField(s.i, g.n[1]), !.vals = Append(s.vals, NilValue)]
      [] g.res = "nil" -> TextAppend(s, g, TextValue(<<>>, fld))
      [] OTHER -> TextAppend(s, g, TextValue(SubSeq(p, s.i + g.lo[1] + 1, s.i + g.hi[1]), fld))
TextStep(s, p, fld) ==
    IF s.res # "ok" THEN s
    ELSE TextCell(s, p, fld, getLengthEncodedString(SubSeq(p, s.i + 1, Len(p))))

parseText(p, fields) ==
    LET st[f \in 0..Len(fields)] ==
            IF f = 0 THEN [res |-> "ok", i |-> 0, vals |-> <<>>]
            ELSE TextStep(st[f - 1], p, fields[f])
    IN st[Len(fields)]

(***************************************************************************)
(* FieldData.parse: the catalog is skipped, schema, table, org table,     *)
(* name and org name are read as length-encoded strings, then one byte is *)
(* skipped and charset (2), column length (4), type (1), flag (2) and     *)
(* decimals (1) are read, each panicking past the end, and the 2-byte     *)
(* filler is skipped without reading.  Bytes after it are a default value *)
(* whose int(length) is checked against len(p) in int64 before slicing.   *)
(***************************************************************************)
NoField == [name |-> <<>>, type |-> 0, flag |-> 0, default |-> <<>>]

\* The cursor s after the k-th string b of the column definition, read by
\* g: the catalog (k = 1) is skipped, the name (k = 5) kept.
StringDone(s, b, k, g) ==
    CASE g.res = "panic" -> [res |-> "panic", i |-> 0, name |-> <<>>]
      [] g.res = "EOF" -> [res |-> "err", i |-> 0, name |-> <<>>]
      [] OTHER -> [res |-> "ok", i |-> s.i + g.n[1],
                   name |-> IF k = 5 /\ g.res = "slice" THEN SubSeq(b, g.lo[1] + 1, g.hi[1])
                            ELSE s.name]
StringRead(s, b, k) ==
    StringDone(s, b, k, IF k = 1 THEN skipLengthEncodedString(b) ELSE getLengthEncodedString(b))
StringStep(s, p, k) == IF s.res # "ok" THEN s ELSE StringRead(s, SubSeq(p, s.i + 1, Len(p)), k)

\* The cursor after the catalog and the five names, and the name.
FieldStrings(p) ==
    LET c[k \in 0..6] ==
            IF k = 0 THEN [res |-> "ok", i |-> 0, name |-> <<>>] ELSE StringStep(c[k - 1], p, k)
    IN c[6]

\* The field read from p after its strings s, with default value dv.
FieldOf(p, s, dv) ==
    [name |-> s.name, type |-> p[s.i + 8], flag |-> p[s.i + 9] + 256 * p[s.i + 10], default |-> dv]

\* The default value: its length d read at cursor e, and hi = e + n +
\* int(length) in int64.
DefaultEnd(p, s, e, d, hi) ==
    CASE SCmp(hi, WordOf(Len(p))) > 0 -> [res |-> "err", field |-> NoField]
      [] SCmp(hi, WordOf(e + d.n)) < 0 -> [res |-> "panic", field |-> NoField]
      [] OTHER -> [res |-> "ok", field |-> FieldOf(p, s, SubSeq(p, e + d.n + 1, hi[1]))]
DefaultValue(p, s, e, d) ==
    IF d.panic THEN [res |-> "panic", field |-> NoField]
    ELSE DefaultEnd(p, s, e, d, AddW(WordOf(e + d.n), d.num))

FieldFixed(p, s) ==
    CASE s.res # "ok" -> [res |-> s.res, field |-> NoField]
      [] Len(p) < s.i + 11 -> [res |-> "panic", field |-> NoField]
      [] Len(p) <= s.i + 13 -> [res |-> "ok", field |-> FieldOf(p, s, <<>>)]
      [] OTHER -> DefaultValue(p, s, s.i + 13, getLengthEncodedInt(SubSeq(p, s.i + 14, Len(p))))

FieldParse(p) == FieldFixed(p, FieldStrings(p))

\* The status of an EOF packet, read from b[3:] (CLIENT_PROTOCOL_41 is
\* negotiated); an EOF shorter than 5 bytes panics there.
EOFStatus(b) == b[4] + 256 * b[5]

\* The least of a non-empty set of numbers.
Least(S) == CHOOSE j \in S : \A k \in S : j <= k

\* The index of the first EOF packet of pk from index j on, or Len(pk) + 1
\* (readPacket would block there).
FirstEOF(pk, j) ==
    LET ends == {k \in j..Len(pk) : isEOFPacket(pk[k])}
    IN IF ends = {} THEN Len(pk) + 1 ELSE Least(ends)

(***************************************************************************)
(* readResultColumns: column packets from index 2 up to an EOF, whose     *)
(* count must be the column count.  The loop stops at the first column    *)
(* packet that indexes past Fields (one more than the count: a panic) or  *)
(* that FieldData.parse rejects.                                          *)
(***************************************************************************)
ColumnsEnd(pk, cc, eof, parsed, stop) ==
    CASE stop # {} /\ Least(stop) - 2 >= cc -> [res |-> "panic"]
      [] stop # {} /\ parsed[Least(stop)].res = "err" -> [res |-> "err", n |-> Least(stop)]
      [] stop # {} -> [res |-> "panic"]
      [] eof > Len(pk) -> [res |-> "blocked"]
      [] Len(pk[eof]) < 5 -> [res |-> "panic"]
      [] eof - 2 # cc -> [res |-> "malformed", n |-> eof]
      [] OTHER -> [res |-> "ok", n |-> eof, fields |-> [c \in 1..cc |-> parsed[c + 1].field]]
ColumnsParsed(pk, cc, eof, parsed) ==
    ColumnsEnd(pk, cc, eof, parsed,
               {j \in 2..(eof - 1) : j - 2 >= cc \/ parsed[j].res # "ok"})
ColumnsUpTo(pk, cc, eof) ==
    ColumnsParsed(pk, cc, eof, [j \in 2..(eof - 1) |-> FieldParse(pk[j])])
ReadColumns(pk, cc) == ColumnsUpTo(pk, cc, FirstEOF(pk, 2))

\* readResultRows: row packets from index j up to an EOF, then parseText of
\* each with the columns' fields; the first row that fails decides.
RowsEnd(pk, j, fields, eof, parsed, bad) ==
    CASE eof > Len(pk) -> [res |-> "blocked"]
      [] Len(pk[eof]) < 5 -> [res |-> "panic"]
      [] bad # {} -> [res |-> parsed[Least(bad)].res]
      [] OTHER -> [res |-> "rows", n |-> eof, fields |-> fields, status |-> EOFStatus(pk[eof]),
                   values |-> [r \in 1..(eof - j) |-> parsed[r].vals]]
RowsParsed(pk, j, fields, eof, parsed) ==
    RowsEnd(pk, j, fields, eof, parsed, {r \in 1..(eof - j) : parsed[r].res # "ok"})
RowsUpTo(pk, j, fields, eof) ==
    RowsParsed(pk, j, fields, eof, [r \in 1..(eof - j) |-> parseText(pk[j + r - 1], fields)])
ReadRows(pk, j, fields) == RowsUpTo(pk, j, fields, FirstEOF(pk, j))

\* readResultset: the first payload is exactly a length-encoded column count.
ResultsetColumns(pk, cols) == IF cols.res # "ok" THEN cols ELSE ReadRows(pk, cols.n + 1, cols.fields)
ResultsetCount(pk, c) ==
    CASE c.panic -> [res |-> "panic"]
      [] c.n # Len(pk[1]) -> [res |-> "malformed", n |-> 1]
      [] OTHER -> ResultsetColumns(pk, ReadColumns(pk, c.num[1] + 256 * c.num[2]))
readResultset(pk) == ResultsetCount(pk, getLengthEncodedInt(pk[1]))

\* handleOKPacket on a connection of capability c.capability: affected
\* rows and insert id as length-encoded ints, then, with PROTOCOL_41
\* (512) or TRANSACTIONS (8192), the 2-byte status, which also becomes
\* c.status (statusSet); otherwise r.Status stays 0.
HasOKStatus(capability) == (capability & 512) # 0 \/ (capability & 8192) # 0
handleOKPacket(capability, b) ==
    LET a == getLengthEncodedInt(SubSeq(b, 2, Len(b)))
        id == getLengthEncodedInt(SubSeq(b, 2 + a.n, Len(b)))
        i == 2 + a.n + id.n
    IN IF a.panic \/ id.panic \/ (HasOKStatus(capability) /\ Len(b) < i + 1)
       THEN [res |-> "panic"]
       ELSE [res |-> "ok", affected |-> a.num, insertId |-> id.num, n |-> 1,
             statusSet |-> HasOKStatus(capability),
             status |-> IF HasOKStatus(capability) THEN LE(SubSeq(b, i, i + 1)) ELSE 0]

\* After the handshake c.capability holds CLIENT_PROTOCOL_41: every
\* greeting the spec lets the primary send announces it.
CLIENT_PROTOCOL_41_FLAG == 512

\* readResult: the first payload's byte selects OK, ERR, LOCAL INFILE or a
\* result set.
readResult(pk) ==
    CASE pk = <<>> -> [res |-> "blocked"]
      [] pk[1][1] = 0 -> handleOKPacket(CLIENT_PROTOCOL_41_FLAG, pk[1])
      [] pk[1][1] = 255 -> [res |-> "err", n |-> 1]
      [] pk[1][1] = 251 -> [res |-> "malformed", n |-> 1]
      [] OTHER -> readResultset(pk)

\* Resultset.GetValue: an out-of-range row or column is an error.
GetValue(values, ncols, row, column) ==
    IF row >= Len(values) \/ row < 0 \/ column >= ncols \/ column < 0
    THEN [res |-> "err"]
    ELSE [res |-> "ok", v |-> values[row + 1][column + 1]]

(***************************************************************************)
(* strconv.FormatUint and FormatInt: the decimal digits of a Word, by     *)
(* repeated division by 10 from the most significant byte.                *)
(***************************************************************************)
DivMod10(w) ==
    LET r[j \in 0..8] == IF j = 0 THEN 0 ELSE (r[j - 1] * 256 + w[9 - j]) % 10
    IN [q |-> [k \in 1..8 |-> (r[8 - k] * 256 + w[k]) \div 10], r |-> r[8]]

\* One division of FormatUint: the quotient d.q is left, the digit d.r
\* goes in front of a.s.
DigitOut(a, d) == [w |-> d.q, s |-> <<48 + d.r>> \o a.s]
FormatStep(a, k) == IF k > 1 /\ a.w = Zero THEN a ELSE DigitOut(a, DivMod10(a.w))

FormatUint(w) ==
    LET f[k \in 0..20] == IF k = 0 THEN [w |-> w, s |-> <<>>] ELSE FormatStep(f[k - 1], k)
    IN f[20].s

\* Mutant of FormatInt: an int64 is printed as the uint64 of its bits.
FormatIntUnsigned(w) == FormatUint(w)

FormatInt(w) ==
    IF IsNeg(w) THEN <<45>> \o FormatUint(SubW(Zero, w)) ELSE FormatUint(w)

\* Resultset.GetString: the value as text; nil is "".  parseText never
\* makes a Go string, so the string arm is the []byte one.
GetString(values, ncols, row, column) ==
    LET d == GetValue(values, ncols, row, column)
    IN CASE d.res # "ok" -> [res |-> "err", s |-> <<>>]
         [] d.v.t = "bytes" -> [res |-> "ok", s |-> d.v.b]
         [] d.v.t = "int64" -> [res |-> "ok", s |-> FormatInt(d.v.w)]
         [] d.v.t = "uint64" -> [res |-> "ok", s |-> FormatUint(d.v.w)]
         [] d.v.t = "float64" -> [res |-> "float", s |-> <<>>]
         [] OTHER -> [res |-> "ok", s |-> <<>>]

\* Resultset.GetUint64: integers keep their bits, text is ParseUint'd, nil
\* is 0.
GetUint64(values, ncols, row, column) ==
    LET d == GetValue(values, ncols, row, column)
        u == ParseUint(d.v.b)
    IN CASE d.res # "ok" -> [res |-> "err", w |-> Zero]
         [] d.v.t \in {"uint64", "int64"} -> [res |-> "ok", w |-> d.v.w]
         [] d.v.t = "bytes" -> [res |-> IF u.err THEN "err" ELSE "ok", w |-> u.w]
         [] d.v.t = "float64" -> [res |-> "float", w |-> Zero]
         [] OTHER -> [res |-> "ok", w |-> Zero]

\* Resultset.GetInt64: int64(GetUint64), the same 64 bits.
GetInt64(values, ncols, row, column) == GetUint64(values, ncols, row, column)

(***************************************************************************)
(* Follower.GetLeaderPosition: the reply to SHOW MASTER STATUS; column 0  *)
(* of row 0 is the file, column 1 the position, truncated to uint32.  An  *)
(* OK reply has a nil *Resultset, which the getters dereference.          *)
(***************************************************************************)
\* The reply r to SHOW MASTER STATUS, its file and position cells.
LeaderCells(r, file, pos) ==
    CASE "err" \in {file.res, pos.res} -> [res |-> "err"]
      [] "float" \in {file.res, pos.res} -> [res |-> "float"]
      [] OTHER -> [res |-> "ok", file |-> file.s, pos |-> [j \in 1..4 |-> pos.w[j]]]
LeaderReply(r, poscol) ==
    CASE r.res \in {"blocked", "panic"} -> [res |-> r.res]
      [] r.res = "ok" -> [res |-> "panic"]
      [] r.res # "rows" -> [res |-> "err"]
      [] OTHER -> LeaderCells(r, GetString(r.values, Len(r.fields), 0, 0),
                              GetInt64(r.values, Len(r.fields), 0, poscol))

\* Mutant of GetLeaderPosition: the position is read from column 0.
GetLeaderPositionColumnZero(pk) == LeaderReply(readResult(pk), 0)

GetLeaderPosition(pk) == LeaderReply(readResult(pk), 1)
=============================================================================
