---------------------------- MODULE BinlogStream ----------------------------
(***************************************************************************)
(* What a Streamer promises its consumer, stated without the decoder's    *)
(* incremental state: on each stream the consumer receives, in wire       *)
(* order and without gaps, a prefix of the packets the primary sends for  *)
(* the dump, never past a packet that cannot be decoded, and nothing once *)
(* the stream has ended with an error.                                    *)
(*                                                                         *)
(* Decodable is the reference definition of the decoder: it looks at the  *)
(* whole prefix of the stream before packet k, where BinlogParser keeps   *)
(* only a format flag and a registry that ROTATE empties.                 *)
(***************************************************************************)
EXTENDS BinlogParser

VARIABLES
    stream,     \* the packets the primary sends on the current dump
    delivered,  \* the packets the consumer has received from it, in order
    ended       \* the consumer has received the stream's terminal error

vars == <<stream, delivered, ended>>

\* Index of the last ROTATE before packet k (0 if none).
LastRotate(s, k) ==
    Max({0} \cup {j \in 1..(k - 1) : s[j].ev.type = "ROTATE"})

\* The table map in force for a rows event at k: the last one for its
\* table id since the last ROTATE.
MapsInForce(s, k) ==
    {j \in (LastRotate(s, k) + 1)..(k - 1) :
        s[j].ev.type = "TABLE_MAP" /\ s[j].ev.table = s[k].ev.table}

\* Image i of a rows event uses the after-image bitmap when it is the
\* second of an update's pair.
BitmapOf(e, i) ==
    IF e.type = "UPDATE_ROWS_V1" /\ i % 2 = 0 THEN e.bitmaps[2] ELSE e.bitmaps[1]

Decodable(s, k) ==
    LET e == s[k].ev IN
    CASE e.type = "TABLE_MAP" ->
            /\ \E j \in 1..(k - 1) : s[j].ev.type = "FORMAT_DESCRIPTION"
            /\ \A c \in Cols : e.cols[c] \notin MetadataRejected
      [] e.type \in RowsTypes ->
            /\ MapsInForce(s, k) # {}
            /\ LET cols == s[Max(MapsInForce(s, k))].ev.cols
               IN \A i \in DOMAIN e.images :
                      ImageDecodes(cols, BitmapOf(e, i), e.images[i])
      [] OTHER -> TRUE

Init ==
    /\ stream = <<>>
    /\ delivered = <<>>
    /\ ended = FALSE

\* A new dump begins at a start position the follower may send.
Start ==
    /\ \E sp \in StartPositions :
          stream' = DumpStream(sp[1], IF sp[2] < 4 THEN 4 ELSE sp[2])
    /\ delivered' = <<>>
    /\ ended' = FALSE

Deliver ==
    LET n == Len(delivered) IN
    /\ ~ended
    /\ n < Len(stream)
    /\ \A k \in 1..(n + 1) : Decodable(stream, k)
    /\ delivered' = Append(delivered, stream[n + 1])
    /\ UNCHANGED <<stream, ended>>

End ==
    /\ ~ended
    /\ ended' = TRUE
    /\ UNCHANGED <<stream, delivered>>

Next == Start \/ Deliver \/ End

Spec == Init /\ [][Next]_vars
=============================================================================
