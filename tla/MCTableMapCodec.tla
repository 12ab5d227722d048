-------------------------- MODULE MCTableMapCodec --------------------------
(***************************************************************************)
(* Checks NewTableMapEvent on TABLE_MAP bodies as the primary writes them *)
(* with the 8-byte post-header of current formats: a 6-byte table id, 2   *)
(* flag bytes, the database and table names each with its length byte    *)
(* and terminating zero, the length-encoded column count, one type byte   *)
(* per column, the length-encoded metadata block holding each column's    *)
(* metadata in MySQL's layout, and the null bitmap.  A body may carry one *)
(* trailing byte too many.                                                *)
(***************************************************************************)
EXTENDS TableMapCodec, MCCodecValues

CONSTANTS
    MapColumns,      \* the column kinds a table has
    MaxMapColumns,   \* columns of a table, besides the wide one
    WideColumns      \* the column count of the one wide table

VARIABLE in

SE == INSTANCE SequencesExt

\* A column kind: its type byte, the metadata bytes MySQL writes for it
\* and the uint16 they stand for.  STRING: real type and length; VARCHAR
\* and VAR_STRING: the maximum length, little-endian; BIT: bits mod 8 then
\* bytes; NEWDECIMAL: precision then scale; BLOB: the length-prefix size;
\* FLOAT/DOUBLE: the value size; TIME2/DATETIME2/TIMESTAMP2: the
\* fractional precision; integers: none.
Kind(k) ==
    CASE k = "tiny" -> [type |-> MYSQL_TYPE_TINY, meta |-> <<>>, value |-> 0]
      [] k = "long" -> [type |-> MYSQL_TYPE_LONG, meta |-> <<>>, value |-> 0]
      [] k = "string" -> [type |-> MYSQL_TYPE_STRING, meta |-> <<254, 40>>, value |-> 254 * 256 + 40]
      [] k = "varchar" -> [type |-> MYSQL_TYPE_VARCHAR, meta |-> <<44, 1>>, value |-> 300]
      [] k = "varstring" -> [type |-> MYSQL_TYPE_VAR_STRING, meta |-> <<20, 0>>, value |-> 20]
      [] k = "bit" -> [type |-> MYSQL_TYPE_BIT, meta |-> <<3, 2>>, value |-> 2 * 256 + 3]
      [] k = "decimal" -> [type |-> MYSQL_TYPE_NEWDECIMAL, meta |-> <<10, 2>>, value |-> 10 * 256 + 2]
      [] k = "blob" -> [type |-> MYSQL_TYPE_BLOB, meta |-> <<2>>, value |-> 2]
      [] k = "double" -> [type |-> MYSQL_TYPE_DOUBLE, meta |-> <<8>>, value |-> 8]
      [] k = "time2" -> [type |-> MYSQL_TYPE_TIME2, meta |-> <<3>>, value |-> 3]
      [] k = "enum" -> [type |-> MYSQL_TYPE_ENUM, meta |-> <<>>, value |-> 0]

\* Types MySQL writes under another type byte in a table map, and which
\* the decoder refuses (spec section 7, UnsupportedColumnType).
Refused == {MYSQL_TYPE_NEWDATE, MYSQL_TYPE_ENUM, MYSQL_TYPE_SET, MYSQL_TYPE_TINY_BLOB,
            MYSQL_TYPE_MEDIUM_BLOB, MYSQL_TYPE_LONG_BLOB}

\* Tables of up to MaxMapColumns columns, and a wide one whose null
\* bitmap takes two bytes.
Wide == [c \in 1..WideColumns |-> IF c % 2 = 0 THEN "varchar" ELSE "tiny"]
ColumnLists == UNION {[1..n -> MapColumns] : n \in 0..MaxMapColumns} \cup {Wide}

Inputs == [id : {<<1, 255, 0, 0, 1, 0>>}, db : {<<>>, <<100, 98>>}, table : {<<116>>},
           cols : ColumnLists, extra : {<<>>, <<0>>}]

\* Each input is an initial state; a step keeps it.
Init == in \in Inputs
Next == UNCHANGED in
Spec == Init /\ [][Next]_in

----------------------------------------------------------------------------
(* The reference encoder *)

LenEnc(k) == putLengthEncodedInt(WordOf(k))
Types(x) == [c \in 1..Len(x.cols) |-> Kind(x.cols[c]).type]
MetaBlock(x) == SE!FlattenSeq([c \in 1..Len(x.cols) |-> Kind(x.cols[c]).meta])
Nulls(x) == [k \in 1..((Len(x.cols) + 7) \div 8) |-> 85]
Body(x) ==
    x.id \o <<1, 0>> \o <<Len(x.db)>> \o x.db \o <<0>> \o <<Len(x.table)>> \o x.table \o <<0>>
    \o LenEnc(Len(x.cols)) \o Types(x) \o LenEnc(Len(MetaBlock(x))) \o MetaBlock(x)
    \o Nulls(x) \o x.extra

Decoded(x) ==
    [res |-> "ok", id |-> x.id \o <<0, 0>>, flags |-> 1, db |-> x.db, table |-> x.table,
     count |-> WordOf(Len(x.cols)), types |-> Types(x),
     meta |-> [c \in 1..Len(x.cols) |-> Kind(x.cols[c]).value], nulls |-> Nulls(x)]

----------------------------------------------------------------------------

(***************************************************************************)
(* NewTableMapEvent returns the id, flags, names, types, each column's    *)
(* metadata and the null bitmap the primary wrote: parseMetadata reads    *)
(* each type's metadata with the width and byte order MySQL writes it,    *)
(* so no column takes another's bytes; a table with a refused type is an  *)
(* error, and so is a null bitmap that is not (count + 7) / 8 bytes.      *)
(***************************************************************************)
TableMapDecodeCorrect ==
    NewTableMapEvent(8, Body(in)) =
        IF \E c \in 1..Len(in.cols) : Kind(in.cols[c]).type \in Refused THEN [res |-> "err"]
        ELSE IF in.extra # <<>> THEN [res |-> "err"]
        ELSE Decoded(in)

=============================================================================
