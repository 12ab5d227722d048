------------------------------ MODULE MCCodecs ------------------------------
(***************************************************************************)
(* The decoders and encoders of the protocol, checked together: each      *)
(* state is one test case of one of the harnesses MCByteCodec (util.go),  *)
(* MCRowsCodec (rows events), MCResultReader (query replies),             *)
(* MCValueCodec (column values), MCTableMapCodec (TABLE_MAP bodies),       *)
(* MCEventCodec (whole events) and MCHandshake (session setup and          *)
(* commands), tagged with its harness.                                     *)
(***************************************************************************)
EXTENDS MCCodecValues

CONSTANTS
    Values, MaxTail,              \* MCByteCodec
    TableTypes, Vals,             \* MCRowsCodec
    Strings, Counts, MaxRows, ColumnKinds,  \* MCResultReader
    Time2Metas, DecimalShapes,    \* MCValueCodec
    MapColumns, MaxMapColumns, WideColumns,  \* MCTableMapCodec
    EventKinds, Frames, Formats,  \* MCEventCodec
    ServerCaps, Names, Hosts, Ports  \* MCHandshake

VARIABLE in

BC == INSTANCE MCByteCodec WITH in <- in.v
RC == INSTANCE MCRowsCodec WITH in <- in.v
RR == INSTANCE MCResultReader WITH in <- in.v
VC == INSTANCE MCValueCodec WITH in <- in.v
TM == INSTANCE MCTableMapCodec WITH in <- in.v
EV == INSTANCE MCEventCodec WITH in <- in.v
HS == INSTANCE MCHandshake WITH in <- in.v

Init ==
    \/ \E x \in BC!Inputs : in = [part |-> "bytes", v |-> x]
    \/ \E x \in RC!Inputs : in = [part |-> "rows", v |-> x]
    \/ \E x \in RR!Inputs : in = [part |-> "result", v |-> x]
    \/ \E x \in VC!Inputs : in = [part |-> "value", v |-> x]
    \/ \E x \in TM!Inputs : in = [part |-> "tablemap", v |-> x]
    \/ \E x \in EV!Inputs : in = [part |-> "event", v |-> x]
    \/ \E x \in HS!Inputs : in = [part |-> "handshake", v |-> x]
\* Each input is an initial state; a step keeps it.
Next == UNCHANGED in
Spec == Init /\ [][Next]_in

----------------------------------------------------------------------------
(* The properties of the seven harnesses, each on its own inputs; their    *)
(* statements are in the harness modules.                                  *)

\* getLittle/BigEndianFixedLengthInt and getBinaryInt8/16/24/Uint24 read
\* the integer their bytes encode.
FixedWidthIntsMatch == in.part = "bytes" => BC!FixedWidthIntsMatch

\* bitCount, byteCountFromBitCount and getBit agree with the bits of the
\* bitmap.
BitmapHelpersMatch == in.part = "bytes" => BC!BitmapHelpersMatch

\* getLengthEncodedInt reads back what putLengthEncodedInt wrote, in the
\* shortest form.
LenEncIntRoundTrip == in.part = "bytes" => BC!LenEncIntRoundTrip

\* getLengthEncodedString returns the string, NULL or io.EOF that the
\* bytes encode.
LenEncStringCorrect == in.part = "bytes" => BC!LenEncStringCorrect

\* NewRowsEvent decodes a well-formed rows body to its row images.
RowsDecodeCorrect == in.part = "rows" => RC!RowsDecodeCorrect

\* readResult returns the OK, ERR or result set the primary sent.
ReadResultCorrect == in.part = "result" => RR!ReadResultCorrect

\* GetString and GetInt64 give back each cell's text and integer, and an
\* error past the last row or column.
GettersCorrect == in.part = "result" => RR!GettersCorrect

\* GetLeaderPosition reads the file and position SHOW MASTER STATUS sent,
\* and errs when it sent no row.
LeaderPositionCorrect == in.part = "result" => RR!LeaderPositionCorrect

\* parseValue decodes each column value to what it stands for and consumes
\* exactly its bytes.
ValuesDecodeCorrect == in.part = "value" => VC!ValuesDecodeCorrect

\* NewTableMapEvent returns the names, types, per-column metadata and null
\* bitmap the primary wrote, and errs on a refused type or a bad bitmap.
TableMapDecodeCorrect == in.part = "tablemap" => TM!TableMapDecodeCorrect

\* Parse returns each event's header and decoded body, an EventError when
\* the body's decoder refuses it, and an error for a bad frame.
EventsDecodeCorrect == in.part = "event" => EV!EventsDecodeCorrect

\* handshake opens the connection exactly on a protocol-10 greeting and an
\* OK, keeping the id, whole salt, status and negotiated capabilities, and
\* closes it on every error.
HandshakeCorrect == in.part = "handshake" => HS!HandshakeCorrect

\* writeAuthHandshake's response reads, on the server, as the negotiated
\* flags, the user, the scramble of the password and the database.
AuthResponseCorrect == in.part = "handshake" => HS!AuthResponseCorrect

\* The COM_REGISTER_SLAVE, COM_BINLOG_DUMP and semi-sync ACK
\* payloads read back as the fields the follower passed.
CommandsCorrect == in.part = "handshake" => HS!CommandsCorrect
=============================================================================
