---------------------------- MODULE MCCodecValues ----------------------------
(***************************************************************************)
(* The bounded inputs of the codec harnesses MCByteCodec, MCRowsCodec,    *)
(* MCResultReader, MCTableMapCodec, MCEventCodec and MCHandshake, and of  *)
(* MCCodecs, which runs them together.                                     *)
(***************************************************************************)
EXTENDS ByteCodec

\* Lengths around the one-, three-, four- and nine-byte encodings, and the
\* string lengths the tail can and cannot hold.
MCValues == {WordOf(k) : k \in {0, 1, 2, 3, 4, 250, 251, 252, 65535, 65536,
                                16777215, 16777216}}
            \cup {<<0, 0, 0, 0, 0, 1, 0, 0>>}
\* Lengths past 2^63 - 9, which wrap n = n + int(num) in int64.
MCHostileValues == MCValues \cup {<<247, 255, 255, 255, 255, 255, 255, 127>>,
                                  <<0, 0, 0, 0, 0, 0, 0, 128>>,
                                  <<255, 255, 255, 255, 255, 255, 255, 255>>}

\* Values whose bits, read as a NULL bitmap, cover every pattern of two
\* columns, and a byte that is negative as int8.
MCVals == {0, 1, 2, 3, 255}
MCTinyTable == {<<"TINY", "TINY">>}
MCGeometryTable == {<<"TINY", "GEOMETRY">>}

\* Empty, one-byte, and bytes that are markers as first bytes; counts
\* around the one- and three-byte length encodings.
MCStrings == {<<>>, <<7>>, <<254, 251>>}
MCCounts == {0, 250, 251, 300}
\* Decimal shapes: both parts compressed, a full integer group, a full
\* fraction group beside a one-digit one, full groups on both sides, and
\* no fraction.
MCDecimalShapes == {<<4, 2>>, <<10, 1>>, <<11, 10>>, <<18, 9>>, <<3, 0>>}

\* The post-header lengths of a 5.6 format description, TABLE_MAP's (the
\* 19th) being 8; the parser's format before the first one (nil) and
\* after it.
MCFmtLengths == [k \in 1..38 |-> IF k = 19 THEN 8 ELSE 0]
MCFormats == {<<>>, MCFmtLengths}

\* User, password and database names: none and two bytes.  Follower
\* hostnames: none, one byte, and the longest whose length fits
\* the uint8 prefix of COM_REGISTER_SLAVE.
MCNames == {<<>>, <<114, 111>>}
MCHosts == {<<>>, <<104>>, [k \in 1..255 |-> 104]}
=============================================================================
