# TLA+ models of autobahn-binlog

This directory holds TLA+ specifications of the Go package in `src/`, a MySQL
replication client. It covers the follower session, its ingest goroutine, the
Streamer that hands events to a consumer, and the stateful binlog decoder.
It also covers the packet framing of the connection, the reader of
query replies, and the byte-level decoders of `util.go`, of event headers
and of every event body the parser dispatches on.
TLC runs check them against the behaviours that are hard to test:
- interleavings of API callers, the goroutine and the consumer;
- Close racing a read or a send;
- network failures, including one in the middle of a fragmented command;
- decoder state carried from one stream to the next;
- integer widths and wrap at the boundaries of the wire encodings.

## The system

| Part | Source | What it does |
|---|---|---|
| Follower | `follower.go` | `RegisterFollower` (Close, then dial, checksum queries, `COM_REGISTER_SLAVE`), `StartSync` (under `f.m`: check, clamp the position to ≥ 4, `COM_BINLOG_DUMP`, `startStream`), `Close` (under `f.m`: read deadline, stop token, `wg.Wait`, close the connection). |
| Ingest goroutine | `follower.go` `parseEventsTo`, `parseEvent` | Reads a packet, decodes it, advances `NextPosition`, then either sends the event on `str.ch` or takes the stop token. Every error ends the goroutine through `closeWithError`. |
| Streamer | `streamer.go` | `ch` (cap 1024) and `ech` (cap 4). `GetEvent` selects on both; its error is sticky. `closeWithError` never blocks. |
| BinlogParser | `parser.go`, `eventtype-*.go` | Keeps the current FORMAT_DESCRIPTION and a registry of table maps that ROTATE empties. A TABLE_MAP needs the format. Rows events need their table's map and loop over row images. |
| Conn | `conn.go` | Packet framing with a sequence counter, the handshake, and queries. |
| Result, Field, util | `result.go`, `field.go`, `util.go` | Result-set decoding and byte codecs. |

The MySQL primary is the environment. Every dump it sends begins with an
artificial ROTATE (log_pos 0) naming the start. When the start is past the
FORMAT_DESCRIPTION, it sends that file's FORMAT_DESCRIPTION next, with log_pos
0. It then follows each real ROTATE into the next file.

## Modules

- **`Binlog`**: the environment. Events are records holding only what the
  control depends on: the type, the table, a table map's column types, and a
  rows event's bitmaps and NULL pattern per image. A packet is an event plus
  its header's `log_pos`. `DumpStream(f, p)` is what the primary sends for a
  dump from `(f, p)`. The event constructors map to the Go event types.
- **`BinlogParser`**: the decoder as operators over `[format, tables]`.
  - `Decode` is `parseEvent`'s dispatch.
  - `DecodeTableMap` is `NewTableMapEvent`/`parseMetadata`: it panics on a nil
    format and rejects the unsupported metadata types.
  - `DecodeRowsHeader` is the table lookup.
  - `RowsLoopStep` is one iteration of `NewRowsEvent`'s loop. When a value
    fails, `parseRows` returns `(0, nil)`, so the cursor stays put. An update
    still makes its after-image call at that cursor.
- **`BinlogStream`**: the abstract specification of a stream. The consumer
  receives, in order and without gaps, a prefix of the dump that stops before
  any packet the reference decoder `Decodable` rejects, and nothing after an
  error. `Decodable` looks at the whole stream prefix, whereas the real decoder
  keeps incremental state.
- **`Follower`**: the session, the goroutine, the Streamer and one consumer.
  - Caller actions are split where another thread can interleave:
    - `RegisterFollower` and `Close` enter Close;
    - `CloseLock` runs up to `wg.Wait`;
    - `CloseWait` runs from `wg.Wait` to unlock;
    - `RegConnect` is `f.c = NewConn` without the lock;
    - `RegCommand` is the rest of `registerFollower`;
    - `StartSync` is atomic under `f.m`.
  - Goroutine actions: `Read` (with `Exit` on an error), `RowStep`, `RowsEnd`,
    `Deliver`.
  - Consumer actions: `GetEventRecv`, `GetEventErr`, `StreamClose`.
  - Environment actions: `Tick` (the read deadline passes) and `Break` (the
    network fails, or the primary sends ERR).
  - `crashed` records a nil dereference or slice panic; it stops every thread.
- **`MCFollower`**: the model values. The binlog has two files and one table
  (LONG, GEOMETRY). The write in file 1 has a NULL GEOMETRY; file 2 maps the
  table again and updates it. `MCFilesGeometry` has a non-NULL GEOMETRY.
  Requests are (file 1, 0), clamped to 4, and (file 2, 6): the second starts at
  an update in the middle of a transaction, so its table map is not in the
  dump.

- **`Framing`**: `conn.go`'s packet framing between one Conn and the
  primary.
  - State: `c.seq` (`cseq`), the reader's buffer (`racc`) and the fragments
    in flight each way.
  - Conn actions:
    - `StartCommand` is `writeCommand*`: `resetSequence`, then `writePacket`.
    - `WriteFragment` is one iteration of `writePacket`'s loop, or its final
      write. A payload that is an exact multiple of `MaxPayload` ends with an
      empty fragment.
    - `ReadFragment` is one call of `readPacketTo`. It checks the length
      (`< 1`) before the sequence, then copies, then recurses on a full
      fragment.
    - `Break` is a socket error; `Close` is `close`.
  - The primary (`ServerRead`, `ServerWrite`) reassembles each command and
    sends a reply of a length from `Responses`, fragmented the same way. It
    restarts its counter after each reply.
  - `SeqMod` stands for the uint8 wrap and `MaxPayload` for `0xFFFFFF`.
    Fragmentation and wrap only depend on lengths relative to those bounds.
- **`PacketChannel`**: the abstract specification of the framing layer, a
  request/response channel. Commands reach the primary whole and in order,
  and each reply reaches the Conn whole and in order until the link breaks.
- **`ByteCodec`**: the `util.go` codecs as operators over byte sequences.
  - A 64-bit value is an 8-byte little-endian word (`AddW`, `SubW`, `UCmp`,
    `SCmp`), so uint64/int64 wrap is kept.
  - The operators are the 8/16/24-bit readers, the fixed-length
    little/big-endian readers, the length-encoded int and string codecs,
    `bitCountInByte`, `bitCount` and `getBit`.
  - `getLengthEncodedString` computes `n = n + int(num)` in int64 and panics
    where Go's slice expression would.
- **`RowsCodec`** (extends `ByteCodec`): `parseRows` byte by byte and
  `NewRowsEvent`'s loop.
  - The NULL bitmap is indexed by `nullBitIndex` over the present columns.
  - A value error returns `(0, nil)`.
  - An update makes its second call with bitmap2 at the cursor that the first
    call left.
  - `parseValue` is given two types: TINY, and one it rejects (GEOMETRY).
  - Also: the table-id width of `NewTableMapEvent` (4 or 6 bytes, by
    post-header length) and of `NewRowsEvent` (always 6).
- **`ResultReader`** (extends `ValueCodec`): `readResult`, `handleOKPacket`,
  `readResultset`, `readResultColumns` with `FieldData.parse`,
  `readResultRows`, `isEOFPacket`, `parseText`, `GetValue`, `GetString`,
  `GetUint64`, `GetInt64` and `Follower.GetLeaderPosition`, over the
  payloads `readPacket` returns (the reply packets, then the next reply).
  - A reader's result is a record `res`: `ok`, `err`, `rows`, `malformed`,
    `panic` (a Go panic: an index past a slice) or `blocked` (`readPacket`
    would wait for a packet that never comes).
  - A row value is `nil`, a `[]byte`, an `int64` or `uint64` (a Word) or a
    `float64` kept as its text. `strconv.ParseUint`/`ParseInt` are digit
    loops on Words with the 64-bit range checks; `FormatUint`/`FormatInt`
    divide a Word by 10; `ParseFloat` is reduced to its syntax check.
  - A loop over packets or fields is a recursive function whose step is an
    operator taking the previous step's value as an argument.
- **`TableMapCodec`** (extends `ValueCodec`): `NewTableMapEvent` and
  `parseMetadata` over the bytes of a TABLE_MAP body.
  - `MetaValue`/`MetaWidth` are `parseMetadata`'s switch: STRING and
    NEWDECIMAL two bytes high first, VAR_STRING/VARCHAR/BIT two bytes
    little-endian, BLOB/DOUBLE/FLOAT/GEOMETRY/TIME2/DATETIME2/TIMESTAMP2 one
    byte, the refused types an error, the rest 0 bytes.
  - `NewTableMapEvent` is split at each read (`TableMapCount`,
    `TableMapTypes`, `TableMapBlock`, `TableMapNulls`); every slice that can
    run past the body is followed by an index or `b[i:]` past its length, so
    it is a panic.
- **`EventCodec`** (extends `TableMapCodec`): `BinlogParser.Parse` over the
  bytes of one event: `NewEventHeader`, the `len(b) = event_size` check,
  `parseEvent`'s dispatch to `NewFormatDescriptionEvent`, `NewRotateEvent`,
  `NewTableMapEvent`, `NewQueryEvent`, `NewXidEvent`,
  `NewBeginLoadQueryEvent`, `NewExecuteLoadQueryEvent` and
  `NewGenericEvent`, and the `EventError` wrap. The parser's format is an
  argument: its post-header lengths, or `None` (nil). A rows event's result
  is only the marker `rows`: its decoding is `RowsCodec`'s. Each decoder's
  panic condition is Go's (e.g. QUERY panics below 14 + status-vars +
  db-name bytes).
- **`MCByteCodec`, `MCRowsCodec`, `MCResultReader`**: one
  harness each. The variable `in` is one input and every state is one test
  case (`Next` keeps it). Each harness has a reference written from the wire
  format:
  - little-endian values and two's complement;
  - the shortest length encoding;
  - an encoder of row images (NULL bitmap over the present columns, then the
    values);
  - an encoder of OK, ERR and result-set replies, with full column
    definitions and the value each cell must read back as.
  The decoder must give back what the reference put in.
  `MCCodecValues` holds their bounded inputs. `MCCodecs` runs the seven
  harnesses (with `MCValueCodec`, `MCTableMapCodec`, `MCEventCodec` and `MCHandshake`) together, each input tagged with its
  harness.
- **`ValueCodec`** (extends `ByteCodec`): `parseValue` and every decoder it
  calls, as operators returning `[v, n, err]`.
  - `FoldType` is the unfolding of `MYSQL_TYPE_STRING` metadata into the
    real type and length (lines 135-150).
  - `parseString`, `parseBit`/`parseBitType`, `parseYear`, the ENUM, SET and
    BLOB arms, `parseTimestamp2Type`, `decodeDatetime2`, `parseTime2Type` and
    `parseDecimalType` with `parseDecimalDecompressValue`.
  - Go's `&`, `|` and `^` on bytes with fixed masks are written as the
    arithmetic they amount to (`Bits45`, `FlipSign`, `Masked`).
  - `decodeDatetime2` and `parseTime2Type` follow the int64 arithmetic of
    `intPart<<24 + frac`, including the borrow of negative values and the
    `-2^63` that negation leaves negative, without building 64-bit numbers.
  - `parseTime2Type` keeps the switch as Go runs it: cases 1, 3 and 5 are
    empty and case 6 never sets `intPart`.
  - Values are abstract: a float is its bit pattern, a decimal is its sign
    and digit strings (what `strconv.ParseFloat` is given), a TIMESTAMP is
    its instant, a time or date is its fields.
- **`MCTableMapCodec`**: TABLE_MAP bodies as the primary writes them, with
  tables of up to two columns of every kind in `MapColumns` and one table of
  nine columns (a two-byte null bitmap), with and without a trailing byte.
- **`MCEventCodec`**: whole events: the v4 header and a body of each type
  (`EventKinds`: a format description with header length 19 and 20, ROTATE,
  XID, QUERY, the two LOAD events, GTID as a generic event, TABLE_MAP and a
  rows event), framed correctly, with a size one too large, a size below
  19, or cut inside the header (`Frames`), before and after the first
  format description (`Formats`).
- **`Handshake`** (extends `ResultReader`): the session setup and the
  client commands as operators over payloads.
  - `handshake` is `Conn.handshake`: `readInitialHandshake` (the version
    skip by `IndexByte`, the id, the 8 salt bytes, the lower capabilities,
    and the 4.1 tail when the greeting is longer: `Greeting`), then
    `writeAuthHandshake`, then `readOKPacket` (reusing `handleOKPacket`, which reads the OK's status
    into `c.status` only when PROTOCOL_41 or TRANSACTIONS was negotiated).
    Its result (`Outcome`) says whether the step closed the connection,
    the response payload sent and the connection's fields.
  - `pk` is the payloads readPacket returns; a read error is the empty
    payload (readPacket never returns one), no payload left is `blocked`,
    and a failed `writePacket` is the flag `wrote`.
  - `AuthCapability` is the client's flags masked by the server's, plus
    CONNECT_WITH_DB when a database is named; `writeAuthHandshake` lays
    out the response byte by byte.
  - `scramble41` keeps its empty result for an empty password; SHA1 is
    abstracted to 20 opaque tokens determined by salt and password, so
    a scramble of the wrong salt is a different value.
  - `makeCommandWithArg`, `makeRegisterFollowerCommand` (with the uint8
    length bytes as `% 256`), `makeBinlogDumpCommand` and
    `makeSemiSyncAck` build the command payloads.
- **`MCHandshake`**: greetings of a 4.1 and a pre-4.1 server (protocol
  10, with and without a version string, under each of `ServerCaps`), an
  ERR greeting, protocol 9 and a read error, each followed by OK, ERR,
  another byte, a read error or nothing, with and without a failed write,
  for users, passwords and databases in `Names`; and the command payloads
  for every host in `Hosts`, port in `Ports`, id and position at 1/4 and
  2^31-1. Its references are a server's decoders of the response and the
  commands.
- **`MCValueCodec`**: the harness of `ValueCodec`. Its reference encoders
  write each type the way the MySQL server does (biased big-endian
  temporals, the negative TIME2 fraction, complemented decimal groups,
  length prefixes, folded CHAR metadata), and the decoder must return the
  value and consume exactly its bytes. `Time2Metas` picks the TIME2
  precisions; `DecimalShapes` the (precision, scale) pairs.

## Runs

| Run | Cfg | Expect | What it shows |
|---|---|---|---|
| session | `MCFollower.cfg` | pass | `StreamRefinement`: the Follower implements `BinlogStream` under the mapping stream ← dump of `streamStart`, delivered ← received, ended ← `s.err` set. `StopOnlyWhenClosed`: a stale stop token never stops a new stream. `CloseReturns`: every Close returns. `NeverPanics`: no nil format or slice past the body panics the goroutine. `TypeOK`: every variable in its domain, and the WaitGroup never counts two goroutines. |
| lost_events | `MCFollowerLostEvents.cfg` | violation | `NoEventBehindError`: GetEvent's random select returns the terminal error while events are still queued, and those events are lost. |
| register_race | `MCFollowerRegisterRace.cfg` | violation | `DumpAfterRegister`: with two callers, StartSync dumps on a connection RegisterFollower assigned without the lock and has not registered yet. |
| rows_hang | `MCFollowerRowsHang.cfg` | violation | `CloseReturns`: a non-NULL GEOMETRY value makes the rows loop spin forever, and Close never returns. |
| resume_fde | `MCFollowerResumeFde.cfg` | violation | `NextPositionWhileStreaming`: after the artificial FORMAT_DESCRIPTION, NextPosition is (file, 0), and resuming there replays the file. |
| resume_stop | `MCFollowerResumeStop.cfg` | violation | `NextPositionAfterExit`: when Close stops the goroutine at its select, NextPosition is already past the event it dropped. |
| codecs | `MCCodecs.cfg` | pass | `FixedWidthIntsMatch`, `BitmapHelpersMatch`, `LenEncIntRoundTrip`, `LenEncStringCorrect`: the `util.go` codecs agree with their references. `RowsDecodeCorrect`: a well-formed rows body decodes to its images, and nothing else is ever returned as an event. `ReadResultCorrect`: `readResult` returns the OK, ERR or result set (fields, status and typed values) that was sent and consumes exactly its packets. `GettersCorrect`: `GetString` gives back each cell's text, `GetInt64` each BIGINT's integer (at 0, 42, -1, -2^63 and 2^64-1), and both fail past the last row or column. `LeaderPositionCorrect`: `GetLeaderPosition` returns the file and the position (4, 2^31, 2^32-1) of SHOW MASTER STATUS, and an error when there is no row. `ValuesDecodeCorrect`: `parseValue` decodes every supported type to its value and consumes exactly its bytes (TIME2 of precision 0, 2 and 4). `TableMapDecodeCorrect`: `NewTableMapEvent` returns the id, flags, names, types, each column's metadata and the null bitmap that were written, errs on a refused type and on a bitmap of the wrong size. `EventsDecodeCorrect`: `Parse` returns the header and the decoded body of every event type, an `EventError` for a format description whose header length is not 19, and an error for a cut header or a stated size that is not the length. `HandshakeCorrect`: `handshake` succeeds exactly on a protocol-10 greeting, a written response and an OK, and then holds the greeting's id and whole salt (20 bytes, or 8 from a pre-4.1 server), the negotiated capabilities, and the OK's status, or the greeting's when neither PROTOCOL_41 nor TRANSACTIONS was negotiated (then `handleOKPacket` reads none); every error closes the connection, and with no reply it waits. `AuthResponseCorrect`: the response reads, on the server, as those capabilities, max packet 0, collation 33, zero filler, the user, the scramble of the password with the whole salt, and the database, with nothing after. `CommandsCorrect`: COM_REGISTER_SLAVE (hostnames up to 255 bytes), COM_BINLOG_DUMP and the semi-sync ACK read back as their fields. |
| lenenc_hostile | `MCByteCodecHostile.cfg` | violation | `LenEncStringCorrect`: a length of 2^63 - 8 or more wraps `n` in int64, the bounds check passes, and the slice panics. The spec says short input is a MalformedPacket error. |
| framing | `MCFraming.cfg` | pass | `FramingErrorFree`: the sequence counters stay in step across fragments, wrap and commands. `ChannelRefinement`: Framing implements `PacketChannel`. `CommandCompletes`: every command ends in a reply or a closed connection. `TypeOK`. |
| framing_exact_multiple | `MCFramingExactMultiple.cfg` | violation | `FramingErrorFree`: a reply of exactly `MaxPayload` bytes ends with an empty fragment, which `readPacketTo` rejects as an invalid payload length. |
| rows_misaligned | `MCRowsCodecMisaligned.cfg` | violation | `UpdateRowsPaired`: a failing before image in an UPDATE event lets the after-image call reread the same bytes. The event comes back without error and with an odd number of rows. |
| time2_fraction | `MCValueCodecTime2.cfg` | violation | `ValuesDecodeCorrect`: every TIME2 value with fractional precision 1, 3, 5 or 6 decodes as `00:00:00`, e.g. `-838:59:59` at precision 1. Spec section 4.4 says the value is the biased 3-byte integer. |

The resume properties compare what a dump from `NextPosition` would send with
what the current dump still had to send after the packets handed to the
Streamer. Events with log_pos 0 are ignored on both sides.

The mutants in `PROJECT.json` each kill one property of the pass run:

- a `checkExec` without the `f.running` test breaks `TypeOK`: a second
  StartSync starts a second goroutine and the WaitGroup counts two;
- a `startStream` that keeps the old stop channel breaks `StopOnlyWhenClosed`;
- a ROTATE that does not empty the registry breaks `StreamRefinement`, because
  a stale map decodes the mid-transaction update;
- a Close that sets no read deadline breaks `CloseReturns`;
- a decoder that does not keep the FORMAT_DESCRIPTION breaks `NeverPanics`,
  because the next table map finds no format;
- codecs:
  - a big-endian reader whose shifts are off by one byte breaks
    `FixedWidthIntsMatch`;
  - an unmasked `getBit` breaks `BitmapHelpersMatch`;
  - a one-byte form up to 251 breaks `LenEncIntRoundTrip`;
  - a strict `len(b) > n` breaks `LenEncStringCorrect`;
  - a NULL bit read at the column index breaks `RowsDecodeCorrect`;
  - `isEOFPacket` with `< 5` breaks `ReadResultCorrect`;
  - a `FormatInt` that prints an int64 as the uint64 of its bits breaks
    `GettersCorrect` (-1 comes back as 18446744073709551615);
  - a `GetLeaderPosition` that reads the position from column 0 breaks
    `LeaderPositionCorrect`;
  - a `parseString` taking a 1-byte prefix up to 256 breaks
    `ValuesDecodeCorrect`;
  - VARCHAR metadata read high byte first breaks `TableMapDecodeCorrect`;
  - a `NewQueryEvent` that does not skip the zero after the db name breaks
    `EventsDecodeCorrect`;
  - a greeting parser that drops the last 12 salt bytes breaks
    `HandshakeCorrect`;
  - a capability that never gets CONNECT_WITH_DB breaks
    `AuthResponseCorrect` (the server reads no database);
  - a COM_REGISTER_SLAVE port written high byte first breaks
    `CommandsCorrect`;
- framing:
  - a counter that does not wrap breaks `TypeOK`;
  - a command without `resetSequence` breaks `FramingErrorFree`;
  - a reader that overwrites rather than appends breaks `ChannelRefinement`;
  - a loop with `>` for `>=` breaks `CommandCompletes`, because the primary
    waits for a final fragment.

## Bounds

| Bound | Value | Why it is enough |
|---|---|---|
| Callers | 1 (2 in register_race) | One caller already races with the goroutine, the consumer and the environment; f.m only matters with two. |
| Conns | 2 | Enough for a re-register after the first connection closes. |
| ChCap, ErrCap | 1 | A full channel is then reachable, so backpressure and drop-on-full both occur. |
| Binlog | 2 files | Crosses a real ROTATE, re-maps a table, and includes a write, an update and both dump starts (with and without the artificial FDE). |

Framing and the codecs have their own bounds:

| Bound | Value | Why it is enough |
|---|---|---|
| MaxPayload, SeqMod | 2, 4 | Commands of 1, 2 and 5 bytes give a short packet, an exact multiple with its empty fragment, and three fragments. Two such cycles wrap the counter. |
| Responses, MaxCmds | {1, 3}, 2 | A short reply, a two-fragment reply, and a second command after a reply. The exact-multiple reply {2} is the violation run. |
| Length-encoded values | 0-4, 250-252, 65535-65536, 2^24-1, 2^24, 2^40 | Both sides of every width boundary and of the NULL marker, plus a nine-byte value. Tails of 0..3 bytes give strings that fit and strings that do not. |
| Byte slices | 1..3 bytes over {0, 1, 127, 128, 254, 255} | The sign bit and the markers at every position of the 8/16/24-bit readers and of the bitmaps. |
| Rows | 2 columns, 1..2 images, 3 bitmaps, values {0, 1, 2, 3, 255} | Every present/absent and NULL pattern of two columns, a negative int8, and an update pair. |
| Column values | each type at its extremes and zero; strings of 0 and 2 bytes at lengths 10, 255, 256, 300, 1020; TIME2 at 0, ±00:00:01, ±12:34:56, ±838:59:59 and DATETIME2 at zero, 1000-01-01, 2024-02-29, 9999-12-31, with fractions 0 and 0.5 s; decimals (4,2), (10,1), (11,10), (18,9), (3,0) | Both sides of the string prefix boundary and of every CHAR folding arm, each decimal group kind (leading and trailing compressed, whole groups of 9, none) with positive and negative signs, and the borrow of negative temporals with a fraction. |
| Table maps | 0..2 columns of TINY, LONG, STRING, VARCHAR (300), VAR_STRING, BIT, NEWDECIMAL, BLOB, DOUBLE, TIME2 and ENUM; 9 columns | Every metadata width and byte order next to every other, a refused type in either place, and the null bitmap at one and two bytes. |
| Events | one of each dispatched type, 4 frames, nil and 5.6 format | Every arm of `parseEvent` and of Parse's checks; a TABLE_MAP only with a format, as the primary sends. |
| Handshakes | `ServerCaps` {2^31-1, 0xA205, 0x8200, 0xF7FF, 0x8005}; names of 0 and 2 bytes; hosts of 0, 1 and 255 bytes; ports 3306, 65535 | Servers with every flag, exactly the client's, only PROTOCOL_41 and SECURE_CONNECTION, all low flags, and neither PROTOCOL_41 nor TRANSACTIONS (so the OK's status is not read); pre-4.1 greetings keep the low half. Empty and non-empty user, password (no scramble) and database (CONNECT_WITH_DB), and the longest host the uint8 length holds. 2^31-1 is the largest integer TLC holds, so it stands for the top of the uint32 range. |
| Replies | 1..2 columns (every kind alone, and each kind beside a string column), 0..2 rows, strings {"", 1 byte, 0xFE 0xFB}; column kinds VAR_STRING, BIGINT UNSIGNED, BIGINT, INT and DOUBLE | Empty and NULL values, a cell whose text begins with the EOF marker (after its length byte, so no row is mistaken for EOF: that half of the EOF hazard is not exercised), the 64-bit edges of both integer parsers and formatters, an INT column that stays text, a float in exponent form, and positions at 2^31 and 2^32-1 for GetLeaderPosition. |

The session run reaches about 111,000 distinct states in under two minutes.
Framing reaches 856 and the codecs 22,701 (under two minutes with coverage). Every action fires.

## Fairness

- **Weak fairness:**
  - the goroutine's actions: the runtime schedules a runnable goroutine;
  - `Tick`: the deadline timer fires;
  - `CloseWait`, `RegConnect` and `RegCommand`: dial and queries finish or
    fail.
- **Strong fairness:** `CloseLock`. `sync.Mutex` enters starvation mode, so a
  waiter that is repeatedly enabled gets the lock.
- **No fairness:**
  - callers starting calls;
  - the consumer: nobody has to read events, which is what makes backpressure
    reach Close;
  - the network failing.

Framing: weak fairness on `WriteFragment`, `ReadFragment`, `Close`,
`ServerRead` and `ServerWrite`. The goroutine that runs the Conn is
scheduled, and TCP delivers what was written. Starting a command and the
network failing are not forced. A closed Conn stops, so the run has
`CHECK_DEADLOCK FALSE`.

## Not modelled, and the plan

- **Semi-sync ACK:** `semiSyncEnabled` is never set, so the ACK path
  (`replySemiSyncAck` and the header strip in `parseEvent`) is dead code;
  only the ACK payload (`makeSemiSyncAck`) is checked.
- **GetLeaderPosition alongside the dump:** the reply decoding is in
  `ResultReader`, but the query runs on `f.c` without `f.m` while the
  goroutine reads the dump from the same connection, and `f.c` may be nil.
  Once the dump has started the bytes the query reads are binlog packets,
  which no bounded reply set represents faithfully. It is left as a hazard.
- **NextPosition data race and uint32 truncation:**
  - A caller's read that races the goroutine's write could return any mix of
    the old and new file and position. That would be a nondeterministic
    choice in a caller action, which the model does not have yet. It is
    listed as a hazard.
  - The truncation only bites for binlog files past 4 GiB, which the binlog
    model does not have.
- **`parseValue`'s MYSQL_TYPE_DATETIME arm:** `time.Date` normalises
  out-of-range fields (the zero date becomes -0001-11-30), a calendar
  computation the model would have to replicate in full; it is the one
  type `ValueCodec` leaves out.
- **Float values and formatting:** FLOAT/DOUBLE keep their bit pattern,
  NEWDECIMAL its digit string (the rounding of `strconv.ParseFloat` is not
  modelled), TIMESTAMP/TIMESTAMP2 their instant (`t.Format` in local time
  is not).
- **The old table-id format:** with a 6-byte TABLE_MAP post-header,
  `NewTableMapEvent` reads a 4-byte id and `NewRowsEvent` 6 bytes. Servers
  since 5.1 write 8 (as does the repository's MySQL 5.5.34 test data),
  where both read the same six bytes, so a check at 8 would say nothing;
  there is no run slot for a violation run at 6, and it is left as a
  hazard.
- **parseBinary, FieldNames, FormatFloat:** `parseBinary` serves prepared
  statements, which the package never issues; the `FieldNames` map is never
  read; `strconv.FormatFloat`, the rounding of `ParseFloat` and
  `uint64(float64)` are float formatting, so float cells keep their text
  and their getters are not checked.
- **Malformed event bodies:** `EventCodec` models the panic of each decoder
  on a body too short for it, and the FORMAT_DESCRIPTION's unchecked binlog
  version, but a primary writing a matching short size, a version other
  than 4, or a JSON column (which `parseMetadata` gives width 0) is outside
  what the spec lets it send; these are listed as hazards.
- **Short EOF packets and OK replies to SHOW MASTER STATUS:** both panic
  in the code and in `ResultReader`, but a 4.1 primary sends neither, so no
  property asks for them (the short EOF is listed as a hazard).
- **Handshake details:** SHA1 itself (`scramble41` keeps only what its
  result depends on); a 4.1 greeting cut inside its tail, whose salt read
  runs past the payload into buffer bytes the model does not represent
  (`Greeting` returns `overrun`, which no server of the spec sends);
  `readUntilEOF` and the `putBinaryUint*` helpers, which nothing in the
  package calls; and the `formatBinary*` helpers, which only `parseBinary`
  (prepared statements, never issued) uses.
- **Not planned:** logging and `Hostname`.
