----------------------------- MODULE ValueCodec -----------------------------
(***************************************************************************)
(* parseValue of eventtype-rows.go: the decoding of one column value of a *)
(* rows event from its bytes, MySQL type code and table-map metadata.     *)
(*                                                                         *)
(* A decoded value is a record whose field k names the Go value's shape:  *)
(* "int" (int8/16/32 or an int64 that fits), "int64" (a Word), "float"    *)
(* (math.FloatNNfrombits of the Word of bits), "bytes"/"str" (a byte     *)
(* sequence), "time"/"date"/"datetime"/"year" (the fields the Sprintf or  *)
(* Itoa prints, sentinels included), "instant" (the time.Unix argument; *)
(* Format's layout is not modelled) and "decimal" (the string handed to   *)
(* strconv.ParseFloat, as a sign and two digit sequences).  A result is   *)
(* [v, n, err]: the value, the bytes consumed and whether err is set.     *)
(***************************************************************************)
EXTENDS ByteCodec

\* MySQL column type codes (mysql_com.h).
MYSQL_TYPE_DECIMAL == 0
MYSQL_TYPE_TINY == 1
MYSQL_TYPE_SHORT == 2
MYSQL_TYPE_LONG == 3
MYSQL_TYPE_FLOAT == 4
MYSQL_TYPE_DOUBLE == 5
MYSQL_TYPE_NULL == 6
MYSQL_TYPE_TIMESTAMP == 7
MYSQL_TYPE_LONGLONG == 8
MYSQL_TYPE_INT24 == 9
MYSQL_TYPE_DATE == 10
MYSQL_TYPE_TIME == 11
MYSQL_TYPE_DATETIME == 12
MYSQL_TYPE_YEAR == 13
MYSQL_TYPE_NEWDATE == 14
MYSQL_TYPE_VARCHAR == 15
MYSQL_TYPE_BIT == 16
MYSQL_TYPE_TIMESTAMP2 == 17
MYSQL_TYPE_DATETIME2 == 18
MYSQL_TYPE_TIME2 == 19
MYSQL_TYPE_NEWDECIMAL == 246
MYSQL_TYPE_ENUM == 247
MYSQL_TYPE_SET == 248
MYSQL_TYPE_TINY_BLOB == 249
MYSQL_TYPE_MEDIUM_BLOB == 250
MYSQL_TYPE_LONG_BLOB == 251
MYSQL_TYPE_BLOB == 252
MYSQL_TYPE_VAR_STRING == 253
MYSQL_TYPE_STRING == 254
MYSQL_TYPE_GEOMETRY == 255

Ok(v, n) == [v |-> v, n |-> n, err |-> FALSE]
Err(v, n) == [v |-> v, n |-> n, err |-> TRUE]
Nil == [k |-> "nil"]

\* The unsigned value of a short big- or little-endian byte sequence.
BE(s) == LET f[i \in 0..Len(s)] == IF i = 0 THEN 0 ELSE f[i - 1] * 256 + s[i]
         IN f[Len(s)]
LE(s) == LET f[i \in 0..Len(s)] == IF i = 0 THEN 0 ELSE f[i - 1] * 256 + s[Len(s) - i + 1]
         IN f[Len(s)]

\* int32(binary.LittleEndian.Uint32(data)).
getBinaryInt32(data) ==
    LET hi == IF data[4] >= 128 THEN data[4] - 256 ELSE data[4]
    IN hi * 2^24 + data[3] * 2^16 + data[2] * 2^8 + data[1]

\* The Word of the first k bytes of data, little-endian: Uint32/Uint64.
LEWord(data, k) == [j \in 1..8 |-> IF j <= k THEN data[j] ELSE 0]

\* Go's / and % on int64 truncate toward zero.
GoQuo(a, b) == IF a >= 0 THEN a \div b ELSE -((-a) \div b)
GoRem(a, b) == IF a >= 0 THEN a % b ELSE -((-a) % b)

----------------------------------------------------------------------------
\* Go's bit operations on a byte b, in arithmetic: b & 0x30 is Bits45(b);
\* b | 0x30 adds the bits missing; (b & 0x30) ^ 0x30 is 0x30 less them;
\* b1 | x << 4 with x <= 0x30 adds; b ^ 0x80 flips the top bit; b ^ mask
\* with mask 0 or 0xFF keeps or inverts b.
Bits45(b) == ((b \div 16) % 4) * 16
FlipSign(b) == (b + 128) % 256
Masked(b, mask) == IF mask = 255 THEN 255 - b ELSE b

(* MYSQL_TYPE_STRING: the table map folds the real type and two length   *)
(* bits into the metadata's high byte.                                     *)
FoldType(tp, meta) ==
    LET b0 == meta \div 256
        b1 == meta % 256
    IN CASE tp # MYSQL_TYPE_STRING -> [tp |-> tp, length |-> 0]
         [] meta < 256 -> [tp |-> tp, length |-> meta]
         [] Bits45(b0) # 48 -> [tp |-> b0 + 48 - Bits45(b0), length |-> b1 + (48 - Bits45(b0)) * 16]
         [] OTHER -> [tp |-> b0, length |-> b1]

\* Mutant of parseString: a column of length 256 still takes a 1-byte prefix.
parseStringShortUpTo256(data, length) ==
    IF length <= 256
    THEN Ok([k |-> "str", s |-> SubSeq(data, 2, data[1] + 1)], data[1] + 1)
    ELSE LET l == data[1] + 256 * data[2]
         IN Ok([k |-> "str", s |-> SubSeq(data, 3, l + 2)], l + 2)

\* parseString: a 1-byte length below 256, else a 2-byte little-endian one.
parseString(data, length) ==
    IF length < 256
    THEN Ok([k |-> "str", s |-> SubSeq(data, 2, data[1] + 1)], data[1] + 1)
    ELSE LET l == data[1] + 256 * data[2]
         IN Ok([k |-> "str", s |-> SubSeq(data, 3, l + 2)], l + 2)

\* parseBit: the bytes as a big-endian integer, widened to int64.  Every
\* arm of the switch on 1..8 bytes reads the same big-endian value.
parseBit(b, numBits, length) ==
    CASE numBits > 1 /\ length \in 1..8 ->
           [value |-> getBigEndianFixedLengthInt(SubSeq(b, 1, length)), err |-> FALSE]
      [] numBits > 1 -> [value |-> Zero, err |-> TRUE]
      [] length # 1 -> [value |-> Zero, err |-> TRUE]
      [] OTHER -> [value |-> WordOf(b[1]), err |-> FALSE]

parseBitType(b, meta) ==
    LET numBits == (meta \div 256) * 8 + (meta % 256)
        numBytes == byteCountFromBitCount(numBits)
        r == parseBit(b, numBits, numBytes)
    IN [v |-> [k |-> "int64", w |-> r.value], n |-> numBytes, err |-> r.err]

parseYear(b) ==
    Ok([k |-> "year", y |-> IF b[1] = 0 THEN 0 ELSE b[1] + 1900], 1)

\* The fractional tail of TIMESTAMP2 and DATETIME2, starting at byte i.
FracTail(data, i, meta) ==
    CASE meta \in {1, 2} -> data[i] * 10000
      [] meta \in {3, 4} -> BE(SubSeq(data, i, i + 1)) * 100
      [] meta \in {5, 6} -> BE(SubSeq(data, i, i + 2))
      [] OTHER -> 0

parseTimestamp2Type(data, meta) ==
    LET numBytes == 4 + (meta + 1) \div 2
        sec == getBigEndianFixedLengthInt(SubSeq(data, 1, 4))
    IN IF sec = Zero
       THEN Ok([k |-> "datetime", y |-> 0, mo |-> 0, d |-> 0, h |-> 0, mi |-> 0, s |-> 0], numBytes)
       ELSE Ok([k |-> "instant", sec |-> sec, usec |-> FracTail(data, 5, meta)], numBytes)

(***************************************************************************)
(* decodeDatetime2.  intPart = BE5 - 2^39 is H * 2^17 + L with L the low  *)
(* 17 bits; tmp = intPart << 24 + frac with 0 <= frac < 2^24.  When      *)
(* intPart < 0, |tmp| >> 24 is -intPart, less one if frac > 0; the one   *)
(* tmp that is -2^63 (all five bytes zero, frac 0) stays negative.        *)
(***************************************************************************)
decodeDatetime2(data, meta) ==
    LET n == 5 + (meta + 1) \div 2
        H == data[1] * 2^15 + data[2] * 2^7 + data[3] \div 2 - 2^22
        L == (data[3] % 2) * 2^16 + data[4] * 256 + data[5]
        frac == FracTail(data, 6, meta)
        minTmp == H = -(2^22) /\ L = 0 /\ frac = 0
        R == -L - (IF frac > 0 THEN 1 ELSE 0)
        ymd == CASE H >= 0 -> H [] minTmp -> H [] OTHER -> -H + R \div 2^17
        hms == CASE H >= 0 -> L [] minTmp -> 0 [] OTHER -> R % 2^17
        ym == ymd \div 32
    IN IF H = 0 /\ L = 0
       THEN Ok([k |-> "datetime", y |-> 0, mo |-> 0, d |-> 0, h |-> 0, mi |-> 0, s |-> 0], n)
       ELSE Ok([k |-> "datetime", y |-> GoQuo(ym, 13), mo |-> GoRem(ym, 13),
                d |-> GoRem(ymd, 32), h |-> hms \div 4096,
                mi |-> (hms \div 64) % 64, s |-> hms % 64], n)

(***************************************************************************)
(* parseTime2Type.  Go's cases 1, 3 and 5 have empty bodies and no        *)
(* fallthrough; case 6 sets tmp but not intPart.  intPart is 24 bits and  *)
(* |frac term| < 2^24, so |tmp| >> 24 is computed without tmp itself.     *)
(***************************************************************************)
\* The integer and fractional parts of one case: when the integer part is
\* negative and the fraction positive, one is borrowed from the integer.
Borrowed(intPart, frac, wrap, scale) ==
    IF intPart < 0 /\ frac > 0
    THEN [i |-> intPart + 1, f |-> (frac - wrap) * scale]
    ELSE [i |-> intPart, f |-> frac * scale]

Time2Part(data, meta) ==
    LET intPart == BE(SubSeq(data, 1, 3)) - 8388608
    IN CASE meta \in {1, 3, 5, 6} -> [i |-> 0, f |-> 0]
         [] meta = 2 -> Borrowed(intPart, data[4], 256, 10000)
         [] meta = 4 -> Borrowed(intPart, BE(SubSeq(data, 4, 5)), 65536, 100)
         [] OTHER -> [i |-> intPart, f |-> 0]

\* hms = |tmp| >> 24 for tmp = intPart << 24 + f, and the fields printed.
Time2Fields(neg, hms) ==
    [k |-> "time", neg |-> neg, h |-> (hms \div 4096) % 1024, mi |-> (hms \div 64) % 64,
     s |-> hms % 64]
Time2Value(p) ==
    IF p.i < 0 \/ (p.i = 0 /\ p.f < 0)
    THEN Time2Fields(TRUE, -p.i + (-p.f) \div 2^24)
    ELSE Time2Fields(FALSE, p.i + p.f \div 2^24)

parseTime2Type(data, meta) ==
    LET numBytes == 3 + (meta + 1) \div 2
        p == Time2Part(data, meta)
    IN IF p.i = 0
       THEN Ok([k |-> "time", neg |-> FALSE, h |-> 0, mi |-> 0, s |-> 0], numBytes)
       ELSE Ok(Time2Value(p), numBytes)

----------------------------------------------------------------------------
(* parseDecimalType: MySQL's packed decimal, printed digit group by digit *)
(* group into the string strconv.ParseFloat reads.  Rounding to float64  *)
(* is not modelled: the value is the decimal string.                     *)

compressedBytes == <<0, 1, 1, 2, 2, 3, 3, 4, 4, 4>>
CB(i) == compressedBytes[i + 1]

\* The decimal digits fmt prints for x >= 0 ("%d"), and zero-padded to at
\* least w digits ("%0*d", "%09d").
NumDigits(x) == CHOOSE k \in 1..10 : (k = 10 \/ x < 10^k) /\ (k = 1 \/ x >= 10^(k - 1))
Digits(x) == [i \in 1..NumDigits(x) |-> (x \div 10^(NumDigits(x) - i)) % 10]
Pad(x, w) == LET d == Digits(x) IN [i \in 1..(w - Len(d)) |-> 0] \o d

\* parseDecimalDecompressValue: size bytes from position pos, each XORed
\* with the mask, read big-endian.
parseDecimalDecompressValue(compIndx, data, pos, mask) ==
    [size |-> CB(compIndx),
     value |-> BE([i \in 1..CB(compIndx) |-> Masked(data[pos + i], mask)])]

\* The i-th uncompressed 4-byte group from position pos, XORed with mask.
Group(data, pos, i, mask) ==
    BE([j \in 1..4 |-> Masked(data[pos + 4 * (i - 1) + j], mask)])

\* count groups from position pos, each printed "%09d".
Groups(data, pos, count, mask) ==
    LET acc[i \in 0..count] ==
            IF i = 0 THEN <<>> ELSE acc[i - 1] \o Pad(Group(data, pos, i, mask), 9)
    IN acc[count]

\* The group counts of precision and scale.
DecimalShape(meta) ==
    LET integral == meta \div 256 - (meta % 256)
        decimals == meta % 256
    IN [uncompIntegral |-> integral \div 9, uncompFractional |-> decimals \div 9,
        compIntegral |-> integral % 9, compFractional |-> decimals % 9]

\* The digits of buf, the data with its sign bit cleared: the leading
\* compressed group, the integer groups, the point, the fraction groups and
\* the trailing compressed group.
DecimalDigits(sh, buf, mask) ==
    LET p1 == CB(sh.compIntegral) + 4 * sh.uncompIntegral
        p2 == p1 + 4 * sh.uncompFractional
    IN [int |-> Digits(parseDecimalDecompressValue(sh.compIntegral, buf, 0, mask).value)
                \o Groups(buf, CB(sh.compIntegral), sh.uncompIntegral, mask),
        frac |-> Groups(buf, p1, sh.uncompFractional, mask)
                 \o (IF CB(sh.compFractional) > 0
                     THEN Pad(parseDecimalDecompressValue(sh.compFractional, buf, p2, mask).value,
                              sh.compFractional)
                     ELSE <<>>),
        pos |-> p2 + CB(sh.compFractional)]

DecimalValue(neg, ds) ==
    Ok([k |-> "decimal", neg |-> neg, int |-> ds.int, frac |-> ds.frac], ds.pos)

parseDecimalType(data, meta) ==
    LET neg == data[1] < 128
    IN DecimalValue(neg, DecimalDigits(DecimalShape(meta), [data EXCEPT ![1] = FlipSign(@)],
                                       IF neg THEN 255 ELSE 0))

----------------------------------------------------------------------------
(* parseValue.  MYSQL_TYPE_DATETIME (time.Date of the packed fields,      *)
(* which normalises out-of-range ones) has no arm: it is not modelled.    *)

Unsupported(tp) ==
    tp \notin {MYSQL_TYPE_NULL, MYSQL_TYPE_TINY, MYSQL_TYPE_SHORT, MYSQL_TYPE_INT24,
               MYSQL_TYPE_LONG, MYSQL_TYPE_LONGLONG, MYSQL_TYPE_NEWDECIMAL,
               MYSQL_TYPE_FLOAT, MYSQL_TYPE_DOUBLE, MYSQL_TYPE_BIT, MYSQL_TYPE_TIMESTAMP,
               MYSQL_TYPE_TIMESTAMP2, MYSQL_TYPE_DATETIME, MYSQL_TYPE_DATETIME2,
               MYSQL_TYPE_TIME, MYSQL_TYPE_TIME2, MYSQL_TYPE_DATE, MYSQL_TYPE_YEAR,
               MYSQL_TYPE_ENUM, MYSQL_TYPE_SET, MYSQL_TYPE_BLOB, MYSQL_TYPE_VARCHAR,
               MYSQL_TYPE_VAR_STRING, MYSQL_TYPE_STRING}

parseValue(data, type, meta) ==
    LET f == FoldType(type, meta)
        tp == f.tp
        u24 == LE(SubSeq(data, 1, 3))
        set == parseBit(data, meta % 256, ((meta % 256) + 7) \div 8)
    IN CASE tp = MYSQL_TYPE_NULL -> Ok(Nil, 0)
         [] tp = MYSQL_TYPE_TINY -> Ok([k |-> "int", i |-> getBinaryInt8(data)], 1)
         [] tp = MYSQL_TYPE_SHORT -> Ok([k |-> "int", i |-> getBinaryInt16(data)], 2)
         [] tp = MYSQL_TYPE_INT24 ->
              Ok([k |-> "int", i |-> getBinaryInt24(SubSeq(data, 1, 3))], 3)
         [] tp = MYSQL_TYPE_LONG -> Ok([k |-> "int", i |-> getBinaryInt32(data)], 4)
         [] tp = MYSQL_TYPE_LONGLONG -> Ok([k |-> "int64", w |-> LEWord(data, 8)], 8)
         [] tp = MYSQL_TYPE_NEWDECIMAL -> parseDecimalType(data, meta)
         [] tp = MYSQL_TYPE_FLOAT -> Ok([k |-> "float32", bits |-> LEWord(data, 4)], 4)
         [] tp = MYSQL_TYPE_DOUBLE -> Ok([k |-> "float64", bits |-> LEWord(data, 8)], 8)
         [] tp = MYSQL_TYPE_BIT -> parseBitType(data, meta)
         [] tp = MYSQL_TYPE_TIMESTAMP ->
              Ok([k |-> "instant", sec |-> LEWord(data, 4), usec |-> 0], 4)
         [] tp = MYSQL_TYPE_TIMESTAMP2 -> parseTimestamp2Type(data, meta)
         [] tp = MYSQL_TYPE_DATETIME2 -> decodeDatetime2(data, meta)
         [] tp = MYSQL_TYPE_TIME ->
              Ok([k |-> "time", neg |-> FALSE, h |-> u24 \div 10000,
                  mi |-> (u24 % 10000) \div 100, s |-> u24 % 100], 3)
         [] tp = MYSQL_TYPE_TIME2 -> parseTime2Type(data, meta)
         [] tp = MYSQL_TYPE_DATE ->
              Ok([k |-> "date", y |-> u24 \div 512, mo |-> (u24 \div 32) % 16,
                  d |-> u24 % 32], 3)
         [] tp = MYSQL_TYPE_YEAR -> parseYear(data)
         [] tp = MYSQL_TYPE_ENUM /\ meta % 256 = 1 -> Ok([k |-> "int", i |-> data[1]], 1)
         [] tp = MYSQL_TYPE_ENUM /\ meta % 256 = 2 ->
              Ok([k |-> "int", i |-> BE(SubSeq(data, 1, 2))], 2)
         [] tp = MYSQL_TYPE_ENUM -> Err(Nil, 0)
         [] tp = MYSQL_TYPE_SET ->
              [v |-> [k |-> "int64", w |-> set.value], n |-> ((meta % 256) + 7) \div 8,
               err |-> set.err]
         [] tp = MYSQL_TYPE_BLOB /\ meta \in 1..4 ->
              LET length == LE(SubSeq(data, 1, meta))
              IN Ok([k |-> "bytes", s |-> SubSeq(data, meta + 1, meta + length)],
                    length + meta)
         [] tp = MYSQL_TYPE_BLOB -> Err(Nil, 0)
         [] tp \in {MYSQL_TYPE_VARCHAR, MYSQL_TYPE_VAR_STRING} -> parseString(data, meta)
         [] tp = MYSQL_TYPE_STRING -> parseString(data, f.length)
         [] Unsupported(tp) -> Err(Nil, 0)
=============================================================================
