---------------------------- MODULE MCValueCodec ----------------------------
(***************************************************************************)
(* Checks parseValue on column values built by a reference encoder from   *)
(* the MySQL row formats of spec section 4.4: each input is a type code,  *)
(* its table-map metadata, the value's bytes followed by the next         *)
(* column's, and the value the bytes stand for.                           *)
(***************************************************************************)
EXTENDS ValueCodec, MCCodecValues

CONSTANTS
    Time2Metas,     \* fractional-second precisions of TIME2 columns
    DecimalShapes   \* <<precision, scale>> of DECIMAL columns

VARIABLE in

\* The first byte of the next column.
Next0 == <<99>>

\* w bytes of x, two's complement when x < 0.
LEBytes(x, w) == [i \in 1..w |-> (x \div 256^(i - 1)) % 256]
BEBytes(x, w) == [i \in 1..w |-> (x \div 256^(w - i)) % 256]

Case(tp, meta, bytes, v) == [tp |-> tp, meta |-> meta, data |-> bytes \o Next0,
                             want |-> Ok(v, Len(bytes))]
ErrCase(tp, meta, bytes) == [tp |-> tp, meta |-> meta, data |-> bytes \o Next0,
                             want |-> [err |-> TRUE]]
IntV(x) == [k |-> "int", i |-> x]
Time(neg, h, mi, s) == [k |-> "time", neg |-> neg, h |-> h, mi |-> mi, s |-> s]
ZeroDatetime == [k |-> "datetime", y |-> 0, mo |-> 0, d |-> 0, h |-> 0, mi |-> 0, s |-> 0]
Payload == <<7, 8>>

IntCases ==
    {Case(MYSQL_TYPE_TINY, 0, LEBytes(x, 1), IntV(x)) : x \in {-128, -1, 0, 127}} \cup
    {Case(MYSQL_TYPE_SHORT, 0, LEBytes(x, 2), IntV(x)) : x \in {-32768, -1, 300}} \cup
    {Case(MYSQL_TYPE_INT24, 0, LEBytes(x, 3), IntV(x)) : x \in {-8388608, -1, 8388607}} \cup
    {Case(MYSQL_TYPE_LONG, 0, LEBytes(x, 4), IntV(x)) : x \in {-2147483647 - 1, -1, 2147483647}}

\* BIT(m): meta is (m div 8) << 8 | m mod 8; (m + 7) div 8 big-endian bytes.
BitCases ==
    {Case(MYSQL_TYPE_BIT, (m \div 8) * 256 + (m % 8), BEBytes(x, (m + 7) \div 8),
          [k |-> "int64", w |-> WordOf(x)]) :
        <<m, x>> \in {<<1, 1>>, <<7, 100>>, <<9, 257>>, <<16, 65535>>, <<31, 2^30 + 5>>}}

\* DECIMAL(p, s): the integer digits in 9-digit groups from the point, a
\* leading partial group in compressedBytes bytes, the fraction likewise
\* from the point; the sign bit set, and every byte inverted when negative.
DigitsValue(ds) == LET v[i \in 0..Len(ds)] == IF i = 0 THEN 0 ELSE v[i - 1] * 10 + ds[i]
                   IN v[Len(ds)]
\* count 9-digit groups of ds from position start, four bytes each.
GroupBytes(ds, start, count) ==
    LET acc[g \in 0..count] ==
            IF g = 0 THEN <<>>
            ELSE acc[g - 1] \o BEBytes(DigitsValue(SubSeq(ds, start + 9 * (g - 1), start + 9 * g - 1)), 4)
    IN acc[count]
DecimalBytes(neg, int, frac) ==
    LET cI == Len(int) % 9
        cF == Len(frac) % 9
        raw == BEBytes(DigitsValue(SubSeq(int, 1, cI)), CB(cI))
               \o GroupBytes(int, cI + 1, Len(int) \div 9)
               \o GroupBytes(frac, 1, Len(frac) \div 9)
               \o BEBytes(DigitsValue(SubSeq(frac, Len(frac) - cF + 1, Len(frac))), CB(cF))
        signed == [raw EXCEPT ![1] = FlipSign(@)]
    IN IF neg THEN [i \in 1..Len(signed) |-> 255 - signed[i]] ELSE signed
\* Digit patterns: all nines, a mixed one, and one with leading zeros.
DigitPatterns(n) == {[i \in 1..n |-> 9], [i \in 1..n |-> (i * 7) % 10],
                     [i \in 1..n |-> IF i = n THEN 5 ELSE 0]}
DecimalCases ==
    UNION {{Case(MYSQL_TYPE_NEWDECIMAL, ps[1] * 256 + ps[2], DecimalBytes(neg, int, frac),
                 [k |-> "decimal", neg |-> neg, int |-> int, frac |-> frac]) :
               neg \in BOOLEAN, int \in DigitPatterns(ps[1] - ps[2]),
               frac \in DigitPatterns(ps[2])} : ps \in DecimalShapes}

\* The fractional tail of TIMESTAMP2, DATETIME2 and TIME2 for a precision
\* meta: hundredths in a byte, ten-thousandths in two, microseconds in
\* three, big-endian.  frac may be negative (TIME2).
FracBytes(frac, meta) ==
    CASE meta \in {1, 2} -> <<GoQuo(frac, 10000) % 256>>
      [] meta \in {3, 4} -> BEBytes(GoQuo(frac, 100) % 65536, 2)
      [] meta \in {5, 6} -> BEBytes(frac % 2^24, 3)
      [] OTHER -> <<>>
\* Precisions with microseconds; precision 0 stores none.
Fracs(metas) == {mu \in metas \X {0, 500000} : mu[1] = 0 => mu[2] = 0}

Timestamp2Cases ==
    {Case(MYSQL_TYPE_TIMESTAMP2, meta, BEBytes(sec, 4) \o FracBytes(us, meta),
          IF sec = 0 THEN ZeroDatetime
          ELSE [k |-> "instant", sec |-> WordOf(sec), usec |-> us]) :
        <<meta, us>> \in Fracs(0..6), sec \in {0, 1, 2147483647}}

\* DATETIME2: ((year * 13 + month) << 5 | day) << 17 | hour << 12 |
\* minute << 6 | second, plus 2^39, in five big-endian bytes.
Datetimes == {<<2024, 2, 29, 23, 59, 59>>, <<1000, 1, 1, 0, 0, 0>>, <<9999, 12, 31, 12, 30, 15>>}
Datetime2Bytes(t) ==
    LET X == (t[1] * 13 + t[2]) * 32 + t[3] + 2^22
        hms == t[4] * 4096 + t[5] * 64 + t[6]
    IN <<X \div 2^15, (X \div 2^7) % 256, (X % 128) * 2 + hms \div 2^16,
         (hms \div 256) % 256, hms % 256>>
Datetime2Cases ==
    {Case(MYSQL_TYPE_DATETIME2, meta, Datetime2Bytes(t) \o FracBytes(us, meta),
          [k |-> "datetime", y |-> t[1], mo |-> t[2], d |-> t[3],
           h |-> t[4], mi |-> t[5], s |-> t[6]]) :
        <<meta, us>> \in Fracs({0, 3, 6}), t \in Datetimes}
    \cup {Case(MYSQL_TYPE_DATETIME2, 0, <<128, 0, 0, 0, 0>>, ZeroDatetime)}

(***************************************************************************)
(* TIME2: the packed time hour << 12 | minute << 6 | second, shifted left *)
(* 24 and plus the microseconds, negated when negative: the integer part  *)
(* is its floor over 2^24, the fraction its truncated remainder.          *)
(***************************************************************************)
Times == {<<0, 0, 1>>, <<12, 34, 56>>, <<838, 59, 59>>}
Time2Bytes(neg, t, us, meta) ==
    LET P == t[1] * 4096 + t[2] * 64 + t[3]
        I == CASE ~neg -> P [] us > 0 -> -P - 1 [] OTHER -> -P
        F == IF neg THEN -us ELSE us
    IN BEBytes(I + 2^23, 3) \o FracBytes(F, meta)
Time2Cases ==
    {Case(MYSQL_TYPE_TIME2, meta, Time2Bytes(neg, t, us, meta), Time(neg, t[1], t[2], t[3])) :
        <<meta, us>> \in Fracs(Time2Metas), neg \in BOOLEAN, t \in Times}
    \cup {Case(MYSQL_TYPE_TIME2, meta, BEBytes(2^23, 3) \o FracBytes(0, meta), Time(FALSE, 0, 0, 0)) :
            meta \in Time2Metas}
\* TIME: hour * 10000 + minute * 100 + second; DATE: year << 9 | month << 5
\* | day; both in three little-endian bytes.  YEAR: the year less 1900.
DateTimeCases ==
    {Case(MYSQL_TYPE_TIME, 0, LEBytes(t[1] * 10000 + t[2] * 100 + t[3], 3), Time(FALSE, t[1], t[2], t[3])) :
        t \in Times \cup {<<0, 0, 0>>}} \cup
    {Case(MYSQL_TYPE_DATE, 0, LEBytes(d[1] * 512 + d[2] * 32 + d[3], 3),
          [k |-> "date", y |-> d[1], mo |-> d[2], d |-> d[3]]) :
        d \in {<<0, 0, 0>>, <<2024, 2, 29>>, <<9999, 12, 31>>}} \cup
    {Case(MYSQL_TYPE_YEAR, 0, <<IF y = 0 THEN 0 ELSE y - 1900>>, [k |-> "year", y |-> y]) :
        y \in {0, 1901, 2155}}

(***************************************************************************)
(* Strings.  A CHAR(n) column is MYSQL_TYPE_STRING with metadata         *)
(* real_type ^ ((n & 0x300) >> 4) << 8 | n & 0xFF; ENUM and SET columns   *)
(* are STRING with real_type << 8 | pack length (ENUM: bytes, SET: bits). *)
(* Lengths up to 255 take a one-byte prefix, longer ones two bytes.      *)
(***************************************************************************)
StrV(s) == [k |-> "str", s |-> s]
Prefixed(n, s) == LEBytes(Len(s), IF n < 256 THEN 1 ELSE 2) \o s
CharMeta(n) == (MYSQL_TYPE_STRING - ((n \div 256) % 4) * 16) * 256 + (n % 256)
StringCases ==
    {Case(tp, n, Prefixed(n, s), StrV(s)) :
        tp \in {MYSQL_TYPE_VARCHAR, MYSQL_TYPE_VAR_STRING}, n \in {10, 255, 256, 300},
        s \in {<<>>, Payload}} \cup
    {Case(MYSQL_TYPE_STRING, CharMeta(n), Prefixed(n, s), StrV(s)) :
        n \in {10, 255, 256, 300, 1020}, s \in {<<>>, Payload}} \cup
    {Case(MYSQL_TYPE_STRING, 5, Prefixed(5, Payload), StrV(Payload))} \cup
    {Case(MYSQL_TYPE_BLOB, w, LEBytes(Len(s), w) \o s, [k |-> "bytes", s |-> s]) :
        w \in 1..4, s \in {<<>>, Payload}} \cup
    {Case(MYSQL_TYPE_STRING, MYSQL_TYPE_ENUM * 256 + 1, <<x>>, IntV(x)) : x \in {1, 255}} \cup
    {Case(MYSQL_TYPE_STRING, MYSQL_TYPE_ENUM * 256 + 2, BEBytes(300, 2), IntV(300))} \cup
    {Case(MYSQL_TYPE_STRING, MYSQL_TYPE_SET * 256 + m, BEBytes(x, (m + 7) \div 8),
          [k |-> "int64", w |-> WordOf(x)]) : <<m, x>> \in {<<1, 1>>, <<5, 21>>, <<8, 255>>}}

\* The types parseValue rejects, and pack lengths it does not know.
ErrCases ==
    {ErrCase(tp, 0, <<1, 2, 3, 4>>) :
        tp \in {MYSQL_TYPE_DECIMAL, MYSQL_TYPE_NEWDATE, MYSQL_TYPE_TINY_BLOB,
                MYSQL_TYPE_MEDIUM_BLOB, MYSQL_TYPE_LONG_BLOB, MYSQL_TYPE_GEOMETRY, 100}} \cup
    {ErrCase(MYSQL_TYPE_BLOB, w, <<1, 2, 3, 4>>) : w \in {0, 5}} \cup
    {ErrCase(MYSQL_TYPE_STRING, MYSQL_TYPE_ENUM * 256 + 3, <<1, 2, 3>>)}

\* The LONGLONG of spec section 8, scenario 5, and NULL.
OtherCases ==
    {Case(MYSQL_TYPE_LONGLONG, 0, <<255, 100, 1, 120, 255, 255, 255, 255>>,
          [k |-> "int64", w |-> <<255, 100, 1, 120, 255, 255, 255, 255>>]),
     Case(MYSQL_TYPE_NULL, 0, <<>>, Nil)}

Inputs ==
    IntCases \cup BitCases \cup DecimalCases \cup Timestamp2Cases \cup Datetime2Cases
    \cup Time2Cases \cup DateTimeCases \cup StringCases \cup ErrCases \cup OtherCases

\* Each input is an initial state; a step keeps it.
Init == in \in Inputs
Next == UNCHANGED in
Spec == Init /\ [][Next]_in

----------------------------------------------------------------------------
\* strconv.ParseFloat reads "-007.50" and "-7.50" alike: leading zeros of
\* the integer digits do not count.
Unpadded(ds) ==
    IF \A i \in 1..Len(ds) : ds[i] = 0 THEN <<>>
    ELSE LET f == CHOOSE i \in 1..Len(ds) : ds[i] # 0 /\ \A j \in 1..(i - 1) : ds[j] = 0
         IN SubSeq(ds, f, Len(ds))
Canonical(v) == IF v.k = "decimal" THEN [v EXCEPT !.int = Unpadded(@)] ELSE v

(***************************************************************************)
(* parseValue decodes every value of every type the row formats define to *)
(* the value it stands for and consumes exactly its bytes, so the next    *)
(* column starts where the rows loop puts it; an unknown type or pack    *)
(* length is an error.                                                    *)
(***************************************************************************)
ValuesDecodeCorrect ==
    LET r == parseValue(in.data, in.tp, in.meta)
    IN IF in.want.err THEN r.err
       ELSE ~r.err /\ r.n = in.want.n /\ Canonical(r.v) = Canonical(in.want.v)
=============================================================================
