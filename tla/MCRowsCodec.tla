----------------------------- MODULE MCRowsCodec -----------------------------
(***************************************************************************)
(* Checks RowsCodec on well-formed rows event bodies of a two-column      *)
(* table: each body is encoded from row images by a reference encoder     *)
(* written from the row-image format (NULL bitmap over the present        *)
(* columns, then the present non-NULL values in column order).            *)
(***************************************************************************)
EXTENDS RowsCodec, MCCodecValues

CONSTANTS
    TableTypes,   \* column type tuples of the table
    Vals          \* byte values of TINY and GEOMETRY columns

VARIABLE in

Cols == 0..1
\* A NULL column of an image (bytes are 0..255).
NullMark == -1
\* A row image: each column NULL or a one-byte value.
Images == [Cols -> {NullMark} \cup Vals]
\* Column bitmaps name at least one column.
Bitmaps == 1..3

Inputs ==
    [upd : {FALSE}, types : TableTypes, bm1 : Bitmaps, bm2 : {0},
     images : UNION {[1..k -> Images] : k \in 1..2}] \cup
    [upd : {TRUE}, types : TableTypes, bm1 : Bitmaps, bm2 : Bitmaps,
     images : [1..2 -> Images]]


Init == in \in Inputs
\* Each input is an initial state; a step keeps it.
Next == UNCHANGED in
Spec == Init /\ [][Next]_in

----------------------------------------------------------------------------
(* Reference encoder and decoder *)

Present(bm, j) == (bm \div 2^j) % 2 = 1
\* The bitmap of the k-th image: bitmap2 for an update's after images.
BitmapOf(k) == IF in.upd /\ k % 2 = 0 THEN in.bm2 ELSE in.bm1

Encode(img, bm) ==
    LET P == SelectSeq(<<0, 1>>, LAMBDA j : Present(bm, j))
        nulls[k \in 0..Len(P)] ==
            IF k = 0 THEN 0
            ELSE nulls[k - 1] + (IF img[P[k]] = NullMark THEN 2^(k - 1) ELSE 0)
        vals == SelectSeq(P, LAMBDA j : img[j] # NullMark)
    IN (IF P = <<>> THEN <<>> ELSE <<nulls[Len(P)]>>)
         \o [k \in 1..Len(vals) |-> img[vals[k]]]

Body ==
    LET enc[k \in 0..Len(in.images)] ==
            IF k = 0 THEN <<>> ELSE enc[k - 1] \o Encode(in.images[k], BitmapOf(k))
    IN enc[Len(in.images)]

\* The row a well-formed image decodes to: absent and NULL columns are nil,
\* a TINY byte is its int8 reading.
RefRow(img, bm) ==
    [j \in Cols |-> IF Present(bm, j) /\ img[j] # NullMark
                    THEN (IF img[j] >= 128 THEN img[j] - 256 ELSE img[j])
                    ELSE Nil]
RefRows == [k \in 1..Len(in.images) |-> RefRow(in.images[k], BitmapOf(k))]

\* Every value of the body has a type parseValue decodes.
AllDecode ==
    \A k \in 1..Len(in.images) : \A j \in Cols :
        Present(BitmapOf(k), j) /\ in.images[k][j] # NullMark => in.types[j + 1] = "TINY"

Decoded == NewRowsEvent(Body, in.types, in.upd, <<in.bm1>>, <<in.bm2>>)

----------------------------------------------------------------------------
(* Properties *)

(***************************************************************************)
(* NewRowsEvent decodes a well-formed body to exactly its row images, in  *)
(* order, with NULLs and absent columns nil, when every value decodes;    *)
(* and whenever it returns an event, its rows are those images.  This is  *)
(* parseRows' NULL-bitmap indexing over the present columns and the       *)
(* loop's cursor arithmetic for both bitmaps of an update.                *)
(***************************************************************************)
RowsDecodeCorrect ==
    /\ AllDecode => Decoded = [res |-> "ok", rows |-> RefRows]
    /\ Decoded.res = "ok" => Decoded.rows = RefRows

(***************************************************************************)
(* An update event that NewRowsEvent returns holds its rows in before/    *)
(* after pairs (spec section 8: UPDATE row count even).  parseRows'       *)
(* (0, nil) on a value error lets the after-image call read the failed    *)
(* before image.                                                           *)
(***************************************************************************)
UpdateRowsPaired ==
    (in.upd /\ Decoded.res = "ok") => Len(Decoded.rows) % 2 = 0
=============================================================================
