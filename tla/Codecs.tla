------------------------------- MODULE Codecs -------------------------------
(* base64.cpp, hex_encode.cpp and url_encode.cpp: bytes to text and back, and *)
(* the swap of byteorder.cpp. Bytes are 0..255. A character of base64 or of  *)
(* a hexadecimal text is the number it stands for, the other characters have *)
(* numbers of their own; the text of a URL is the codes of its characters.   *)
EXTENDS Integers, Sequences, SequencesExt

At(s, pos) == IF pos < Len(s) THEN s[pos + 1] ELSE -1      \* 0 after the end
-----------------------------------------------------------------------------
\* base64. Both alphabets have 62 characters in common; '+' and '/' are 62 and
\* 63 like their positions, '-' and '_' are 72 and 73.
Newline == 200
Equals == 201
Dot == 202
base64Char(pos, url) == IF url /\ pos >= 62 THEN pos + 10 ELSE pos
\* A mutant: the alphabet of URLs is forgotten.
getPosOfPlainChar(chr) == IF chr \in 0..63 THEN chr ELSE -1

getPosOfChar(chr) ==
    IF chr \in 0..63 THEN chr ELSE IF chr \in {72, 73} THEN chr - 10 ELSE -1

RECURSIVE EncodeFrom(_, _, _)
EncodeFrom(bytes, pos, url) ==
    LET trailing == IF url THEN Dot ELSE Equals
        a == bytes[pos + 1]
        b == bytes[pos + 2]
        c == bytes[pos + 3]
        left == Len(bytes) - pos
        positions == CASE left = 1 -> <<a \div 4, (a % 4) * 16>>
                       [] left = 2 -> <<a \div 4, (a % 4) * 16 + b \div 16, (b % 16) * 4>>
                       [] left >= 3 -> <<a \div 4, (a % 4) * 16 + b \div 16,
                                         (b % 16) * 4 + c \div 64, c % 64>>
    IN  IF left <= 0 THEN <<>>
        ELSE [i \in DOMAIN positions |-> base64Char(positions[i], url)]
             \o [i \in 1..4 - Len(positions) |-> trailing]
             \o EncodeFrom(bytes, pos + 3, url)
Base64Encode(bytes, url) == EncodeFrom(bytes, 0, url)

\* insertLineBreaks: none at the end.
RECURSIVE insertLineBreaks(_, _, _)
insertLineBreaks(str, pos, distance) ==
    IF pos >= Len(str) THEN str
    ELSE insertLineBreaks(InsertAt(str, pos + 1, Newline), pos + distance + 1, distance)
EncodeWithLineBreaks(bytes, distance) ==
    insertLineBreaks(Base64Encode(bytes, FALSE), distance, distance)

\* The bytes of a text from pos; <<Bad>> at its end when it is no base64.
Bad == -1
RECURSIVE DecodeFrom(_, _)
DecodeFrom(text, pos) ==
    LET p(i) == getPosOfChar(At(text, pos + i))
        Ends(i) == pos + i >= Len(text) \/ At(text, pos + i) \in {Equals, Dot}
        one == p(0) * 4 + p(1) \div 16
        two == (p(1) % 16) * 16 + p(2) \div 4
        three == (p(2) % 4) * 64 + p(3)
    IN  IF pos >= Len(text) THEN <<>>
        ELSE IF p(1) < 0 \/ p(0) < 0 THEN <<Bad>>
        ELSE <<one>> \o
             IF Ends(2) THEN DecodeFrom(text, pos + 4)
             ELSE IF p(2) < 0 THEN <<Bad>>
             ELSE <<two>> \o
                  IF Ends(3) THEN DecodeFrom(text, pos + 4)
                  ELSE IF p(3) < 0 THEN <<Bad>>
                  ELSE <<three>> \o DecodeFrom(text, pos + 4)

Base64Decode(text, removeLinebreaks) ==
    LET clean == IF removeLinebreaks THEN SelectSeq(text, LAMBDA c : c # Newline) ELSE text
        bytes == DecodeFrom(clean, 0)
    IN  IF bytes # <<>> /\ Last(bytes) = Bad THEN <<>> ELSE bytes
-----------------------------------------------------------------------------
\* Hexadecimal. Any letter is taken for a digit, 'z' for 35; the delimiter is
\* one character, or none.
Colon == 300
NoDelimiter == 0
HexDecodeChar(ch) == IF ch \in 0..35 THEN ch ELSE Bad

\* Needs room for the zero at the end too; 0 characters when there is none.
HexEncodeWithDelimiter(source, buflen, delimiter) ==
    LET needed == IF delimiter # NoDelimiter THEN Len(source) * 3 ELSE Len(source) * 2 + 1
    IN  IF buflen = 0 \/ buflen < needed THEN <<>>
        ELSE FlattenSeq([i \in DOMAIN source |->
                <<source[i] \div 16, source[i] % 16>>
                \o IF delimiter # NoDelimiter /\ i < Len(source) THEN <<delimiter>> ELSE <<>>])
HexEncode(source, delimiter) == HexEncodeWithDelimiter(source, Len(source) * 3, delimiter)

RECURSIVE HexDecodeFrom(_, _, _)
HexDecodeFrom(source, pos, delimiter) ==
    LET h1 == HexDecodeChar(At(source, pos))
        h2 == HexDecodeChar(At(source, pos + 1))
        more == delimiter # NoDelimiter /\ Len(source) - (pos + 2) > 1
    IN  IF pos >= Len(source) THEN <<>>
        ELSE IF Len(source) - pos < 2 \/ h1 = Bad \/ h2 = Bad THEN <<Bad>>
        ELSE IF more /\ At(source, pos + 2) # delimiter THEN <<Bad>>
        ELSE <<(h1 * 16 + h2) % 256>>       \* h1 << 4 | h2 of digits below 16
             \o HexDecodeFrom(source, IF more THEN pos + 3 ELSE pos + 2, delimiter)

HexDecodeWithDelimiter(source, buflen, delimiter) ==
    LET needed == IF delimiter # NoDelimiter THEN (Len(source) + 1) \div 3
                  ELSE Len(source) \div 2
        bytes == HexDecodeFrom(source, 0, delimiter)
    IN  IF buflen = 0 \/ buflen < needed \/ (bytes # <<>> /\ Last(bytes) = Bad) THEN <<>>
        ELSE bytes
-----------------------------------------------------------------------------
\* URLs. Upper case digits are written, either case is read.
Percent == 37
Plus == 43
Space == 32
Digit(n) == IF n < 10 THEN 48 + n ELSE 55 + n
Unreserved(cc) ==
    cc \in 65..90 \cup 97..122 \cup 48..57 \cup {46, 95, 45, 42, 126}
UrlEncode(str) ==
    FlattenSeq([i \in DOMAIN str |->
        IF Unreserved(str[i]) THEN <<str[i]>>
        ELSE <<Percent, Digit(str[i] \div 16), Digit(str[i] % 16)>>])

HexOf(ch) == CASE ch \in 48..57 -> ch - 48 [] ch \in 65..90 -> ch - 55
               [] ch \in 97..122 -> ch - 87 [] OTHER -> Bad
\* The buffer of s_transform has one byte more than the source, for the zero.
RECURSIVE UrlDecodeFrom(_, _)
UrlDecodeFrom(source, pos) ==
    LET ch == At(source, pos)
        h1 == HexOf(At(source, pos + 1))
        h2 == HexOf(At(source, pos + 2))
    IN  IF pos >= Len(source) THEN <<>>
        ELSE IF ch = Plus THEN <<Space>> \o UrlDecodeFrom(source, pos + 1)
        ELSE IF ch = Percent /\ pos + 2 < Len(source) /\ h1 # Bad /\ h2 # Bad
        THEN <<(h1 * 16 + h2) % 256>> \o UrlDecodeFrom(source, pos + 3)
        ELSE <<ch>> \o UrlDecodeFrom(source, pos + 1)
UrlDecode(source) == UrlDecodeFrom(source, 0)
-----------------------------------------------------------------------------
\* byteorder.cpp: ByteSwap exchanges the two ends of what it has not reached.
ByteSwap(bytes) ==
    LET Exchange(s, i) ==
            [s EXCEPT ![Len(s) - i] = s[i + 1], ![i + 1] = s[Len(s) - i]]
    IN  FoldLeft(Exchange, bytes, [i \in 1..Len(bytes) \div 2 |-> i - 1])

-----------------------------------------------------------------------------
\* Bytes where the bits of a group meet, the characters URLs treat specially.
Bytes == {0, 37, 43, 65, 127, 128, 255}
CodecInputs == UNION {[1..n -> Bytes] : n \in 0..4}

\* Every text gives its bytes back: with either alphabet, with line breaks of
\* any distance, with a delimiter and without, and after a second swap.
CodecRoundTrips(bytes) ==
    /\ \A url \in BOOLEAN : Base64Decode(Base64Encode(bytes, url), FALSE) = bytes
    /\ \A distance \in 1..4 : Base64Decode(EncodeWithLineBreaks(bytes, distance), TRUE) = bytes
    /\ \A delimiter \in {NoDelimiter, Colon} :
        LET text == HexEncode(bytes, delimiter)
        IN  HexDecodeWithDelimiter(text, Len(text), delimiter) = bytes
    /\ UrlDecode(UrlEncode(bytes)) = bytes
    /\ ByteSwap(ByteSwap(bytes)) = bytes

\* The text of base64 is the bits of the bytes in groups of six, filled up to
\* a multiple of four characters; no line is longer than the distance; the
\* padding may be left away; the swap is the reverse.
BitsOf(n, width) == [i \in 1..width |-> (n \div 2^(width - i)) % 2]
CodecAgrees(bytes) ==
    LET text == Base64Encode(bytes, FALSE)
        bits == FlattenSeq([i \in DOMAIN bytes |-> BitsOf(bytes[i], 8)])
        filled == bits \o [i \in 1..(-Len(bits)) % 6 |-> 0]
        letters == SelectSeq(text, LAMBDA c : c # Equals)
        broken == EncodeWithLineBreaks(bytes, 3)
    IN  /\ FlattenSeq([i \in DOMAIN letters |-> BitsOf(letters[i], 6)]) = filled
        /\ Len(text) % 4 = 0 /\ Len(text) - Len(letters) <= 2
        /\ Base64Decode(letters, FALSE) = bytes
        /\ \A i \in DOMAIN broken : (broken[i] = Newline) <=> (i % 4 = 0)
        /\ ByteSwap(bytes) = Reverse(bytes)
        /\ Len(UrlDecode(bytes)) <= Len(bytes)
=============================================================================
