--------------------------- MODULE MCResultReader ---------------------------
(***************************************************************************)
(* Checks readResult on every reply the primary can send to a text query, *)
(* built by a reference encoder from the protocol (spec section 4.3): OK  *)
(* with affected rows and insert id, ERR, or a result set of column       *)
(* definitions, EOF, text rows of length-encoded strings or NULL, EOF.    *)
(* The reply is followed on the connection by the next one.               *)
(***************************************************************************)
EXTENDS ResultReader, MCCodecValues

CONSTANTS
    Strings,      \* values of string columns, as byte sequences
    Counts,       \* affected-row counts of OK replies
    MaxRows,      \* rows of a result set
    ColumnKinds   \* the kinds of column a result set has

VARIABLE in

\* Decimal digits as ASCII, and a minus sign.
Ascii(ds) == [i \in 1..Len(ds) |-> 48 + ds[i]]
Minus(s) == <<45>> \o s
MaxW == [j \in 1..8 |-> 255]

\* Each kind of column: its type and flags, and the texts the primary
\* sends for it with the value parseText must make of each.
Column(kind) ==
    CASE kind = "str" -> [type |-> MYSQL_TYPE_VAR_STRING, flag |-> 0]
      [] kind = "u64" -> [type |-> MYSQL_TYPE_LONGLONG, flag |-> 33]
      [] kind = "i64" -> [type |-> MYSQL_TYPE_LONGLONG, flag |-> 1]
      [] kind = "long" -> [type |-> MYSQL_TYPE_LONG, flag |-> 0]
      [] kind = "double" -> [type |-> MYSQL_TYPE_DOUBLE, flag |-> 0]
Samples(kind) ==
    CASE kind = "str" -> {<<s, BytesValue(s)>> : s \in Strings}
      [] kind = "u64" ->
           {<<Ascii(<<0>>), IntValue("uint64", Zero)>>,
            <<Ascii(<<1, 8, 4, 4, 6, 7, 4, 4, 0, 7, 3, 7, 0, 9, 5, 5, 1, 6, 1, 5>>),
              IntValue("uint64", MaxW)>>}
      [] kind = "i64" ->
           {<<Ascii(<<4, 2>>), IntValue("int64", WordOf(42))>>,
            <<Minus(Ascii(<<1>>)), IntValue("int64", MaxW)>>,
            <<Minus(Ascii(<<9, 2, 2, 3, 3, 7, 2, 0, 3, 6, 8, 5, 4, 7, 7, 5, 8, 0, 8>>)),
              IntValue("int64", Pow63)>>}
      [] kind = "long" -> {<<Minus(Ascii(<<5>>)), BytesValue(Minus(Ascii(<<5>>)))>>}
      [] kind = "double" ->
           {<<s, FloatValue(s)>> : s \in {Ascii(<<1>>) \o <<46>> \o Ascii(<<5>>),
                                          Minus(Ascii(<<2>>) \o <<101, 45>> \o Ascii(<<3>>))}}

\* A cell of a row: NULL, or one of its column's samples.
NullCell == [null |-> TRUE, text |-> <<>>, v |-> NilValue]
Cells(kind) == {NullCell} \cup {[null |-> FALSE, text |-> x[1], v |-> x[2]] : x \in Samples(kind)}
\* A row of one or two columns, and up to MaxRows of them.
RowCells(kinds) ==
    IF Len(kinds) = 1 THEN {<<x>> : x \in Cells(kinds[1])}
    ELSE {<<x, y>> : x \in Cells(kinds[1]), y \in Cells(kinds[2])}
RowsOf(kinds) == UNION {[1..r -> RowCells(kinds)] : r \in 0..MaxRows}
\* One column of each kind, and two where one of them is a string column.
KindLists == [1..1 -> ColumnKinds] \cup
             {kl \in [1..2 -> ColumnKinds] : "str" \in {kl[1], kl[2]}}
ResultSets == UNION {[kind : {"RS"}, cols : {kinds}, rows : RowsOf(kinds)] : kinds \in KindLists}

\* SHOW MASTER STATUS: File and Position (BIGINT UNSIGNED), no row or one;
\* the positions are 4, 2^31 and 2^32 - 1.
Positions == {<<Ascii(<<4>>), WordOf(4)>>,
              <<Ascii(<<2, 1, 4, 7, 4, 8, 3, 6, 4, 8>>), <<0, 0, 0, 128, 0, 0, 0, 0>>>>,
              <<Ascii(<<4, 2, 9, 4, 9, 6, 7, 2, 9, 5>>), <<255, 255, 255, 255, 0, 0, 0, 0>>>>}
MasterStatus ==
    [kind : {"RS"}, cols : {<<"str", "u64">>},
     rows : {<<>>} \cup {<<<<[null |-> FALSE, text |-> f, v |-> BytesValue(f)],
                              [null |-> FALSE, text |-> p[1], v |-> IntValue("uint64", p[2])]>>>> :
                            f \in Strings \ {<<>>}, p \in Positions}]

Replies == [kind : {"OK"}, affected : Counts] \cup [kind : {"ERR"}] \cup ResultSets
Inputs == [reply : Replies, next : {[kind |-> "ERR"]}, query : {"any"}] \cup
          [reply : MasterStatus, next : {[kind |-> "ERR"]}, query : {"master"}]

\* Each input is an initial state; a step keeps it.
Init == in \in Inputs
Next == UNCHANGED in
Spec == Init /\ [][Next]_in

----------------------------------------------------------------------------
(* The reference encoder *)

LenEnc(k) == putLengthEncodedInt(WordOf(k))
LenStr(s) == LenEnc(Len(s)) \o s
OKPayload(k) == <<0>> \o LenEnc(k) \o <<0>> \o <<2, 0>>
ErrPayload == <<255, 40, 4>>
EOFPayload == <<254, 0, 0, 2, 0>>
\* Column c of a result set: catalog "def", schema, table and org table,
\* name and org name "c", 0x0c, charset 33, length 20, type, flag,
\* decimals 0 and the filler.
ColumnName(c) == <<96 + c>>
FieldPayload(c, col) ==
    LenStr(<<100, 101, 102>>) \o LenStr(<<115>>) \o LenStr(<<116>>) \o LenStr(<<116>>)
    \o LenStr(ColumnName(c)) \o LenStr(ColumnName(c)) \o <<12, 33, 0, 20, 0, 0, 0>>
    \o <<col.type, col.flag % 256, col.flag \div 256, 0, 0, 0>>
Cell(v) == IF v.null THEN <<251>> ELSE LenStr(v.text)
RowPayload(row) ==
    LET acc[f \in 0..Len(row)] == IF f = 0 THEN <<>> ELSE acc[f - 1] \o Cell(row[f])
    IN acc[Len(row)]

Payloads(r) ==
    CASE r.kind = "OK" -> <<OKPayload(r.affected)>>
      [] r.kind = "ERR" -> <<ErrPayload>>
      [] OTHER -> <<LenEnc(Len(r.cols))>> \o [c \in 1..Len(r.cols) |-> FieldPayload(c, Column(r.cols[c]))]
                  \o <<EOFPayload>> \o [k \in 1..Len(r.rows) |-> RowPayload(r.rows[k])]
                  \o <<EOFPayload>>

RefFields(r) == [c \in 1..Len(r.cols) |->
                   [name |-> ColumnName(c), type |-> Column(r.cols[c]).type,
                    flag |-> Column(r.cols[c]).flag, default |-> <<>>]]
RefValues(r) == [k \in 1..Len(r.rows) |-> [c \in 1..Len(r.cols) |-> r.rows[k][c].v]]

----------------------------------------------------------------------------

(***************************************************************************)
(* readResult returns what the reply says (OK with its affected rows, the *)
(* error, or every row of the result set with NULLs as nil) and consumes  *)
(* exactly the reply's packets, so the next command reads its own reply:   *)
(* EOF detection by 0xFE and length <= 5 tells EOF from rows, and the     *)
(* first byte tells OK, ERR and a column count apart.                      *)
(***************************************************************************)
ResultMatches(x, r, n) ==
    CASE x.reply.kind = "OK" ->
           r = [res |-> "ok", affected |-> WordOf(x.reply.affected), insertId |-> Zero, n |-> n,
                statusSet |-> TRUE, status |-> 2]
      [] x.reply.kind = "ERR" -> r = [res |-> "err", n |-> n]
      [] OTHER -> r = [res |-> "rows", n |-> n, fields |-> RefFields(x.reply), status |-> 2,
                       values |-> RefValues(x.reply)]
ReadResultCorrect ==
    ResultMatches(in, readResult(Payloads(in.reply) \o Payloads(in.next)), Len(Payloads(in.reply)))

(***************************************************************************)
(* The getters give back what the primary sent: GetString the text of     *)
(* every string and integer cell ("" for NULL), so ParseInt, ParseUint,   *)
(* FormatInt and FormatUint agree across the sign and 64-bit edges, and   *)
(* GetInt64 the integer of every BIGINT cell (0 for NULL); a row or a     *)
(* column past the end is an error.  FLOAT/DOUBLE cells are left out      *)
(* (FormatFloat is not modelled); an INT cell stays text in parseText.    *)
(***************************************************************************)
GettersMatch(x, values) ==
    LET nc == Len(x.reply.cols)
        nr == Len(x.reply.rows)
    IN /\ \A k \in 1..nr, c \in 1..nc :
              /\ x.reply.cols[c] # "double" =>
                   GetString(values, nc, k - 1, c - 1) = [res |-> "ok", s |-> x.reply.rows[k][c].text]
              /\ x.reply.cols[c] \in {"u64", "i64"} =>
                   GetInt64(values, nc, k - 1, c - 1) = [res |-> "ok", w |-> x.reply.rows[k][c].v.w]
       /\ GetString(values, nc, nr, 0).res = "err"
       /\ GetString(values, nc, 0, nc).res = "err"
GettersCorrect ==
    in.reply.kind = "RS" =>
        GettersMatch(in, readResult(Payloads(in.reply) \o Payloads(in.next)).values)

(***************************************************************************)
(* GetLeaderPosition returns column 0 of row 0 of SHOW MASTER STATUS as   *)
(* the file and column 1 as the position, and an error when the primary   *)
(* reports no row (binary logging off).                                   *)
(***************************************************************************)
LeaderPositionCorrect ==
    in.query = "master" =>
        GetLeaderPosition(Payloads(in.reply) \o Payloads(in.next)) =
            IF in.reply.rows = <<>> THEN [res |-> "err"]
            ELSE [res |-> "ok", file |-> in.reply.rows[1][1].text,
                  pos |-> [j \in 1..4 |-> in.reply.rows[1][2].v.w[j]]]

=============================================================================
