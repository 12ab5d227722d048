----------------------------- MODULE MCFollower -----------------------------
(***************************************************************************)
(* Model values for Follower: a two-file binlog with one table of two     *)
(* columns (LONG, GEOMETRY) whose GEOMETRY values are NULL, so every row   *)
(* decodes; a second binlog whose GEOMETRY value is not NULL.             *)
(***************************************************************************)
EXTENDS Follower

\* Row image with column 1 set and column 2 NULL, or both set.
ImgValNull == [c \in Cols |-> IF c = 1 THEN "val" ELSE "null"]
ImgValVal == [c \in Cols |-> "val"]

T1Cols == [c \in Cols |-> IF c = 1 THEN "LONG" ELSE "GEOMETRY"]

\* File 1: table 1 is mapped and written, then ROTATE to file 2, which
\* maps table 1 again and updates it.
MCFiles ==
    << << FdeEv, TableMapEv(1, T1Cols),
          RowsEv("WRITE_ROWS_V1", 1, Cols, {}, <<ImgValNull>>),
          RotateEv(2, 4) >>,
       << FdeEv, TableMapEv(1, T1Cols),
          RowsEv("UPDATE_ROWS_V1", 1, Cols, Cols, <<ImgValNull, ImgValNull>>) >> >>

\* The same, with a non-NULL GEOMETRY value in the write.
MCFilesGeometry ==
    << << FdeEv, TableMapEv(1, T1Cols),
          RowsEv("WRITE_ROWS_V1", 1, Cols, {}, <<ImgValVal>>),
          RotateEv(2, 4) >>,
       << FdeEv, TableMapEv(1, T1Cols),
          RowsEv("UPDATE_ROWS_V1", 1, Cols, Cols, <<ImgValNull, ImgValNull>>) >> >>

\* From the start (0 is clamped to 4), and from file 2 at its rows event,
\* in the middle of a transaction.
MCRequests == {<<1, 0>>, <<2, 6>>}
\* From the start of the binlog only: no artificial FORMAT_DESCRIPTION.
MCRequestsFromStart == {<<1, 0>>}
=============================================================================
