----------------------------- MODULE ByteCodec -----------------------------
(***************************************************************************)
(* The byte codecs of util.go as operators.  A byte is 0..255 and a byte  *)
(* slice b is a sequence; Go's b[i] is b[i + 1] here.                      *)
(*                                                                         *)
(* A uint64 (and Go's 64-bit int) is a Word: its eight little-endian      *)
(* bytes.  TLC's integers are 32-bit, so 64-bit arithmetic is done on     *)
(* Words, wrapping modulo 2^64 as Go does; byte(n >> 8k) is n[k + 1].     *)
(***************************************************************************)
EXTENDS Integers, Sequences, Bitwise

Word == [1..8 -> 0..255]
Zero == [j \in 1..8 |-> 0]

\* The Word of a small non-negative integer k < 2^31.
WordOf(k) == [j \in 1..8 |-> IF j > 4 THEN 0 ELSE (k \div 256^(j - 1)) % 256]

\* Addition modulo 2^64 (uint64 and, in two's complement, int64).
AddW(a, b) ==
    LET carry[j \in 0..8] ==
            IF j = 0 THEN 0 ELSE (a[j] + b[j] + carry[j - 1]) \div 256
    IN [j \in 1..8 |-> (a[j] + b[j] + carry[j - 1]) % 256]

\* Subtraction modulo 2^64, byte by byte with a borrow.
SubW(a, b) ==
    LET borrow[j \in 0..8] ==
            IF j = 0 THEN 0 ELSE IF a[j] < b[j] + borrow[j - 1] THEN 1 ELSE 0
    IN [j \in 1..8 |-> (a[j] + 256 - b[j] - borrow[j - 1]) % 256]

\* Unsigned comparison: the most significant differing byte decides; -1, 0, 1.
UCmp(a, b) ==
    LET c[j \in 0..8] ==
            IF j = 0 THEN 0
            ELSE IF a[j] # b[j]
                 THEN (IF a[j] < b[j] THEN -1 ELSE 1)
                 ELSE c[j - 1]
    IN c[8]

IsNeg(a) == a[8] >= 128

\* Comparison of the two words read as int64.
SCmp(a, b) ==
    IF IsNeg(a) # IsNeg(b) THEN (IF IsNeg(a) THEN -1 ELSE 1) ELSE UCmp(a, b)

----------------------------------------------------------------------------
(* Fixed-width integers *)

byteCountFromBitCount(n) == (n + 7) \div 8

getBinaryUint24(data) == data[1] + data[2] * 256 + data[3] * 65536

\* int8(b[0]), int16(Uint16(data)).
getBinaryInt8(b) == IF b[1] >= 128 THEN b[1] - 256 ELSE b[1]
getBinaryInt16(data) ==
    LET u == data[1] + data[2] * 256 IN IF u >= 2^15 THEN u - 2^16 ELSE u

\* u32 |= 0xFF000000 when bit 23 is set; int32 of that is u - 2^24.
getBinaryInt24(data) ==
    LET u == getBinaryUint24(data)
    IN IF u & 8388608 # 0 THEN u - 16777216 ELSE u

\* num |= uint64(b) << (i * 8): a shift of 64 or more yields 0 in Go, so
\* bytes past the eighth are dropped.
ShiftedByte(b, i) == [j \in 1..8 |-> IF j = i + 1 THEN b ELSE 0]
OrW(a, b) == [j \in 1..8 |-> a[j] | b[j]]

getLittleEndianFixedLengthInt(buf) ==
    LET num[i \in 0..Len(buf)] ==
            IF i = 0 THEN Zero ELSE OrW(num[i - 1], ShiftedByte(buf[i], i - 1))
    IN num[Len(buf)]

\* Mutant of getBigEndianFixedLengthInt: shifts by (len - i) bytes.
getBigEndianShiftOffByOne(buf) ==
    LET num[i \in 0..Len(buf)] ==
            IF i = 0 THEN Zero
            ELSE OrW(num[i - 1], ShiftedByte(buf[i], Len(buf) - (i - 1)))
    IN num[Len(buf)]

getBigEndianFixedLengthInt(buf) ==
    LET num[i \in 0..Len(buf)] ==
            IF i = 0 THEN Zero
            ELSE OrW(num[i - 1], ShiftedByte(buf[i], Len(buf) - (i - 1) - 1))
    IN num[Len(buf)]

----------------------------------------------------------------------------
(* Length-encoded integers and strings.  A read past the end of b is an  *)
(* index-out-of-range panic, reported as panic |-> TRUE.                 *)

\* The value of the k bytes of b after the first, as a Word.
Following(b, k) == [j \in 1..8 |-> IF j <= k THEN b[j + 1] ELSE 0]

Needed(b) == CASE b[1] = 252 -> 3 [] b[1] = 253 -> 4 [] b[1] = 254 -> 9
                [] OTHER -> 1

getLengthEncodedInt(b) ==
    IF b = <<>> \/ Len(b) < Needed(b)
    THEN [num |-> Zero, isNull |-> FALSE, n |-> 0, panic |-> TRUE]
    ELSE CASE b[1] = 251 -> [num |-> Zero, isNull |-> TRUE, n |-> 1, panic |-> FALSE]
           [] b[1] = 252 -> [num |-> Following(b, 2), isNull |-> FALSE, n |-> 3, panic |-> FALSE]
           [] b[1] = 253 -> [num |-> Following(b, 3), isNull |-> FALSE, n |-> 4, panic |-> FALSE]
           [] b[1] = 254 -> [num |-> Following(b, 8), isNull |-> FALSE, n |-> 9, panic |-> FALSE]
           [] OTHER -> [num |-> WordOf(b[1]), isNull |-> FALSE, n |-> 1, panic |-> FALSE]

\* Mutant of putLengthEncodedInt: the one-byte form also takes 251.
putLengthEncodedIntUpTo251(n) ==
    CASE UCmp(n, WordOf(251)) <= 0 -> <<n[1]>>
      [] UCmp(n, WordOf(65535)) <= 0 -> <<252, n[1], n[2]>>
      [] UCmp(n, WordOf(16777215)) <= 0 -> <<253, n[1], n[2], n[3]>>
      [] OTHER -> <<254>> \o [j \in 1..8 |-> n[j]]

putLengthEncodedInt(n) ==
    CASE UCmp(n, WordOf(250)) <= 0 -> <<n[1]>>
      [] UCmp(n, WordOf(65535)) <= 0 -> <<252, n[1], n[2]>>
      [] UCmp(n, WordOf(16777215)) <= 0 -> <<253, n[1], n[2], n[3]>>
      [] OTHER -> <<254>> \o [j \in 1..8 |-> n[j]]

(***************************************************************************)
(* getLengthEncodedString: n = n + int(num) in int64; if len(b) >= n it   *)
(* returns b[n - int(num) : n], which panics unless 0 <= lo <= hi.  The   *)
(* result is the slice as [lo, hi] (Go indices), or an error, or a panic. *)
(***************************************************************************)
\* The slice b[lo:hi] with hi = n, which panics unless 0 <= lo <= hi.
LenEncBounds(n, lo) ==
    IF SCmp(WordOf(0), lo) <= 0 /\ SCmp(lo, n) <= 0
    THEN [res |-> "slice", lo |-> lo, hi |-> n, n |-> n]
    ELSE [res |-> "panic"]
\* After the count r, with n the end and fits whether len(b) reaches it.
LenEncEnd(r, n, fits) ==
    CASE UCmp(r.num, WordOf(1)) < 0 -> [res |-> "nil", isNull |-> r.isNull, n |-> WordOf(r.n)]
      [] fits -> LenEncBounds(n, SubW(n, r.num))
      [] OTHER -> [res |-> "EOF", n |-> n]
LenEncCount(b, r, n) == LenEncEnd(r, n, SCmp(WordOf(Len(b)), n) >= 0)
LenEncString(b, r) ==
    IF r.panic THEN [res |-> "panic"] ELSE LenEncCount(b, r, AddW(WordOf(r.n), r.num))

\* Mutant of getLengthEncodedString: data length checked with >.
getLengthEncodedStringStrict(b) ==
    LET r == getLengthEncodedInt(b)
        n == AddW(WordOf(r.n), r.num)
    IN IF r.panic THEN [res |-> "panic"] ELSE LenEncEnd(r, n, SCmp(WordOf(Len(b)), n) > 0)

getLengthEncodedString(b) == LenEncString(b, getLengthEncodedInt(b))

\* skipLengthEncodedString: the same count, without slicing.
skipLengthEncodedString(b) ==
    LET r == getLengthEncodedInt(b)
        n == AddW(WordOf(r.n), r.num)
    IN CASE r.panic -> [res |-> "panic"]
         [] UCmp(r.num, WordOf(1)) < 0 -> [res |-> "ok", n |-> WordOf(r.n)]
         [] SCmp(WordOf(Len(b)), n) >= 0 -> [res |-> "ok", n |-> n]
         [] OTHER -> [res |-> "EOF", n |-> n]

----------------------------------------------------------------------------
(* Bitmaps *)

\* bitCountInByte: the number of set bits of every byte value, at x + 1.
bitCountInByte ==
    << 0, 1, 1, 2, 1, 2, 2, 3, 1, 2, 2, 3, 2, 3, 3, 4,
       1, 2, 2, 3, 2, 3, 3, 4, 2, 3, 3, 4, 3, 4, 4, 5,
       1, 2, 2, 3, 2, 3, 3, 4, 2, 3, 3, 4, 3, 4, 4, 5,
       2, 3, 3, 4, 3, 4, 4, 5, 3, 4, 4, 5, 4, 5, 5, 6,
       1, 2, 2, 3, 2, 3, 3, 4, 2, 3, 3, 4, 3, 4, 4, 5,
       2, 3, 3, 4, 3, 4, 4, 5, 3, 4, 4, 5, 4, 5, 5, 6,
       2, 3, 3, 4, 3, 4, 4, 5, 3, 4, 4, 5, 4, 5, 5, 6,
       3, 4, 4, 5, 4, 5, 5, 6, 4, 5, 5, 6, 5, 6, 6, 7,
       1, 2, 2, 3, 2, 3, 3, 4, 2, 3, 3, 4, 3, 4, 4, 5,
       2, 3, 3, 4, 3, 4, 4, 5, 3, 4, 4, 5, 4, 5, 5, 6,
       2, 3, 3, 4, 3, 4, 4, 5, 3, 4, 4, 5, 4, 5, 5, 6,
       3, 4, 4, 5, 4, 5, 5, 6, 4, 5, 5, 6, 5, 6, 6, 7,
       2, 3, 3, 4, 3, 4, 4, 5, 3, 4, 4, 5, 4, 5, 5, 6,
       3, 4, 4, 5, 4, 5, 5, 6, 4, 5, 5, 6, 5, 6, 6, 7,
       3, 4, 4, 5, 4, 5, 5, 6, 4, 5, 5, 6, 5, 6, 6, 7,
       4, 5, 5, 6, 5, 6, 6, 7, 5, 6, 6, 7, 6, 7, 7, 8 >>

bitCount(bitmap) ==
    LET n[i \in 0..Len(bitmap)] ==
            IF i = 0 THEN 0 ELSE n[i - 1] + bitCountInByte[bitmap[i] + 1]
    IN n[Len(bitmap)]

\* Mutant of getBit: the shift is not masked to the byte (off & 7).
getBitUnmasked(bitmap, off) ==
    LET s == 2^off IN IF s > 255 THEN 0 ELSE bitmap[off \div 8 + 1] & s

\* bitmap[off/8] & (1 << (off & 7)).
getBit(bitmap, off) == bitmap[off \div 8 + 1] & 2^(off & 7)
=============================================================================
