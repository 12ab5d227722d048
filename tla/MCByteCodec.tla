---------------------------- MODULE MCByteCodec ----------------------------
(***************************************************************************)
(* Checks the util.go codecs of ByteCodec against reference definitions   *)
(* written from the MySQL wire format (spec section 4.1), over bounded    *)
(* inputs.  The variable in is one input; every state is one test case.   *)
(***************************************************************************)
EXTENDS ByteCodec, FiniteSets, MCCodecValues

CONSTANTS
    Values,     \* uint64 values, as Words, to length-encode
    MaxTail     \* bytes that follow a length-encoded string's header

VARIABLE in

\* Short byte slices over the byte values where the codecs change behaviour.
EdgeBytes == {0, 1, 127, 128, 254, 255}
ByteSeqs == UNION {[1..k -> EdgeBytes] : k \in 1..3}

\* A byte slice; or a value whose encoding is followed by tail bytes.
Inputs ==
    [kind : {"bytes"}, b : ByteSeqs] \cup
    [kind : {"word"}, w : Values, tail : 0..MaxTail]


Init == in \in Inputs
\* Each input is an initial state; a step keeps it.
Next == UNCHANGED in
Spec == Init /\ [][Next]_in

----------------------------------------------------------------------------
(* Reference definitions *)

\* The unsigned value of a little-endian slice, and its signed reading.
LEValue(b) == LET v[i \in 0..Len(b)] ==
                      IF i = 0 THEN 0 ELSE v[i - 1] + b[i] * 256^(i - 1)
              IN v[Len(b)]
Reverse(b) == [i \in 1..Len(b) |-> b[Len(b) - i + 1]]
Signed(v, bits) == IF v >= 2^(bits - 1) THEN v - 2^bits ELSE v

\* Set bits, counted by division.
Ones(x) == Cardinality({k \in 0..7 : (x \div 2^k) % 2 = 1})

\* The shortest length-encoding of a value: 251 is the NULL marker.
MinWidth(w) == CASE UCmp(w, WordOf(251)) < 0 -> 1
                 [] UCmp(w, WordOf(65536)) < 0 -> 3
                 [] UCmp(w, WordOf(16777216)) < 0 -> 4
                 [] OTHER -> 9

\* A length-encoded string of length num followed by tail bytes: nil when
\* empty, the bytes after the header when they are all there, else EOF.
RefString(h, num, tail) ==
    CASE num = Zero -> [res |-> "nil"]
      [] UCmp(num, WordOf(tail)) <= 0 ->
           [res |-> "slice", lo |-> WordOf(h), hi |-> WordOf(h + num[1])]
      [] OTHER -> [res |-> "EOF"]

Encoded == putLengthEncodedInt(in.w) \o [i \in 1..in.tail |-> 7]

----------------------------------------------------------------------------
(* Properties *)

\* Fixed-width readers (rows decoding of MEDIUMINT, TIME2, DATETIME2,
\* NEWDECIMAL) give the value of the bytes in their byte order, and the
\* signed readers the two's-complement reading at their width.
FixedWidthIntsMatch ==
    in.kind = "bytes" =>
        LET b == in.b IN
        /\ getLittleEndianFixedLengthInt(b) = WordOf(LEValue(b))
        /\ getBigEndianFixedLengthInt(b) = WordOf(LEValue(Reverse(b)))
        /\ getBinaryInt8(b) = Signed(b[1], 8)
        /\ Len(b) >= 2 => getBinaryInt16(b) = Signed(LEValue(SubSeq(b, 1, 2)), 16)
        /\ Len(b) = 3 => getBinaryInt24(b) = Signed(LEValue(b), 24)

\* The rows decoder's bitmap helpers: bitCount is the number of set bits
\* (which sizes the NULL bitmap), getBit tests bit off of the little-endian
\* bitmap, and the byte table counts every byte correctly.
BitmapHelpersMatch ==
    /\ \A x \in 0..255 : bitCountInByte[x + 1] = Ones(x)
    /\ in.kind = "bytes" =>
         /\ bitCount(in.b) = LET c[i \in 0..Len(in.b)] ==
                                     IF i = 0 THEN 0 ELSE c[i - 1] + Ones(in.b[i])
                             IN c[Len(in.b)]
         /\ \A off \in 0..(8 * Len(in.b) - 1) :
              (getBit(in.b, off) # 0) <=> ((LEValue(in.b) \div 2^off) % 2 = 1)

\* putLengthEncodedInt writes the shortest encoding, and getLengthEncodedInt
\* reads the same value back, never as NULL, consuming every byte.
LenEncIntRoundTrip ==
    in.kind = "word" =>
        LET enc == putLengthEncodedInt(in.w)
            r == getLengthEncodedInt(enc)
        IN /\ Len(enc) = MinWidth(in.w)
           /\ r = [num |-> in.w, isNull |-> FALSE, n |-> Len(enc), panic |-> FALSE]

\* A length-encoded string followed by some of its bytes: get returns the
\* string, nil or io.EOF as RefString says, and never panics; skip consumes
\* the same bytes and reports EOF in the same cases.
LenEncStringCorrect ==
    in.kind = "word" =>
        LET h == Len(putLengthEncodedInt(in.w))
            ref == RefString(h, in.w, in.tail)
            g == getLengthEncodedString(Encoded)
            s == skipLengthEncodedString(Encoded)
        IN /\ g.res = ref.res
           /\ ref.res = "slice" => g.lo = ref.lo /\ g.hi = ref.hi
           /\ s.res = IF ref.res = "EOF" THEN "EOF" ELSE "ok"
           /\ s.res = "ok" => s.n = IF ref.res = "slice" THEN ref.hi ELSE WordOf(h)
=============================================================================
