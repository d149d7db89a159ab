------------------------------- MODULE Digests -------------------------------
(* md5.cpp, sha1.cpp, sha256.cpp, sha512.cpp: how a message that comes in *)
(* pieces is cut into blocks, padded and counted. The arithmetic of a block  *)
(* is in Transforms.tla: what a digest depends on besides it is the sequence *)
(* of blocks it was given, so here that sequence stands for the digest.      *)
(*                                                                           *)
(* The sizes are scaled: a block has BlockSize bytes instead of 64 or 128, a *)
(* word is WordSize bytes and an unsigned is below W instead of 2^32.        *)
EXTENDS Integers, Sequences, SequencesExt

BlockSize == 8
WordSize == 2
W == 128
Room == BlockSize - 2 * WordSize        \* what the two words of the length leave

Zeros(n) == [i \in 1..n |-> 0]
\* memcpy to an offset, or memset with Zeros: the rest of the buffer stays.
From(bytes, n) == SubSeq(bytes, n + 1, Len(bytes))
Put(buffer, at, bytes) ==
    SubSeq(buffer, 1, at) \o bytes \o From(buffer, at + Len(bytes))
\* The whole blocks at the start of bytes, and what follows them.
Whole(bytes) ==
    [b \in 1..(Len(bytes) \div BlockSize) |-> SubSeq(bytes, (b - 1) * BlockSize + 1, b * BlockSize)]
Rest(bytes) == From(bytes, (Len(bytes) \div BlockSize) * BlockSize)

\* The mark 0x80 and the bytes of a word, told apart from those of a message.
Mark == 1000
Bytes(word) == <<2000 + word, 3000 + word>>

Min2(a, b) == IF a < b THEN a ELSE b
Bit(condition) == IF condition THEN 1 ELSE 0
-----------------------------------------------------------------------------
\* MD5: in is the block being filled, low and high count bytes.
MD5Init == [hashed |-> <<>>, in |-> Zeros(BlockSize), low |-> 0, high |-> 0]

MD5Update(c, buf) ==
    LET low == (c.low + Len(buf)) % W
        counted == [c EXCEPT !.low = low, !.high = (@ + Bit(low < c.low)) % W]
        used == c.low % BlockSize
        t == BlockSize - used
        rest == From(buf, t)
    IN  IF t > Len(buf) THEN [counted EXCEPT !.in = Put(@, used, buf)]
        ELSE LET first == Put(c.in, used, SubSeq(buf, 1, t))
                 blocks == <<first>> \o Whole(rest)
             IN  [counted EXCEPT
                    !.hashed = @ \o blocks,
                    !.in = Put(blocks[Len(blocks)], 0, Rest(rest))]

MD5Final(c) ==
    LET used == c.low % BlockSize
        marked == Put(c.in, used, <<Mark>>)
        count == Room - 1 - used
        padded ==
            IF count < 0
            THEN [hashed |-> <<Put(marked, used + 1, Zeros(count + 2 * WordSize))>>,
                  in |-> Put(marked, 0, Zeros(Room))]
            ELSE [hashed |-> <<>>, in |-> Put(marked, used + 1, Zeros(count))]
        bits == Bytes((c.low * 8) % W) \o Bytes((c.high * 8 + c.low \div (W \div 8)) % W)
    IN  c.hashed \o padded.hashed \o <<Put(padded.in, Room, bits)>>
-----------------------------------------------------------------------------
\* SHA1: low and high count bits.
SHA1Reset == [hashed |-> <<>>, in |-> Zeros(BlockSize), low |-> 0, high |-> 0]

SHA1Update(c, data) ==
    LET j == (c.low \div 8) % BlockSize
        bits == (Len(data) * 8) % W
        low == (c.low + bits) % W
        high == (c.high + Bit(low < bits) + Len(data) \div (W \div 8)) % W
        counted == [c EXCEPT !.low = low, !.high = high]
        i == BlockSize - j
        first == Put(c.in, j, SubSeq(data, 1, i))
    IN  IF j + Len(data) <= BlockSize - 1 THEN [counted EXCEPT !.in = Put(@, j, data)]
        ELSE [counted EXCEPT
                !.hashed = @ \o <<first>> \o Whole(From(data, i)),
                !.in = Put(first, 0, Rest(From(data, i)))]

RECURSIVE SHA1Pad(_)
SHA1Pad(c) ==
    IF c.low % (8 * BlockSize) = 8 * Room THEN c ELSE SHA1Pad(SHA1Update(c, <<0>>))

SHA1Final(c) ==
    SHA1Update(SHA1Pad(SHA1Update(c, <<Mark>>)), Bytes(c.high) \o Bytes(c.low)).hashed
-----------------------------------------------------------------------------
\* SHA256: low and high count blocks, index the bytes of the one being filled.
SHA256Init ==
    [hashed |-> <<>>, block |-> Zeros(BlockSize), index |-> 0, low |-> 0, high |-> 0]

\* sha256_block, for each of the blocks.
Count256(c, blocks) ==
    [c EXCEPT !.hashed = @ \o blocks,
              !.low = (@ + Len(blocks)) % W,
              !.high = @ + (c.low + Len(blocks)) \div W]

SHA256Update(c, buffer) ==
    LET left == BlockSize - c.index
        filled == [c EXCEPT !.block = Put(@, c.index, SubSeq(buffer, 1, Min2(left, Len(buffer))))]
        Leftover(d, bytes) ==
            [Count256(d, Whole(bytes)) EXCEPT
                !.block = Put(@, 0, Rest(bytes)), !.index = Len(Rest(bytes))]
    IN  IF c.index = 0 THEN Leftover(c, buffer)
        ELSE IF Len(buffer) < left
        THEN [filled EXCEPT !.index = @ + Len(buffer)]
        ELSE Leftover(Count256(filled, <<filled.block>>), From(buffer, left))

SHA256Final(c) ==
    LET whole == ((c.index + WordSize) \div WordSize) * WordSize    \* up to the end of a word
        marked == SubSeq(Put(Put(c.block, c.index, <<Mark>>), c.index + 1,
                             Zeros(whole - c.index - 1)), 1, whole)
        perBlock == 8 * BlockSize
        bits == Bytes((c.high * perBlock + c.low \div (W \div perBlock)) % W)
                \o Bytes(((c.low * perBlock) % W) + c.index * 8)
    IN  c.hashed \o
        IF whole > Room
        THEN <<marked \o Zeros(BlockSize - whole), Zeros(Room) \o bits>>
        ELSE <<marked \o Zeros(Room - whole) \o bits>>
-----------------------------------------------------------------------------
\* SHA512: one count of bytes; the length is one word although two have room.
SHA512Init == [hashed |-> <<>>, block |-> Zeros(2 * BlockSize), len |-> 0, total |-> 0]

SHA512Update(c, message) ==
    LET room == BlockSize - c.len
        first == Put(c.block, c.len, SubSeq(message, 1, Min2(Len(message), room)))
        rest == From(message, room)
        blocks == <<SubSeq(first, 1, BlockSize)>> \o Whole(rest)
    IN  IF c.len + Len(message) < BlockSize
        THEN [c EXCEPT !.block = first, !.len = @ + Len(message)]
        ELSE [hashed |-> c.hashed \o blocks,
              block |-> Put(first, 0, Rest(rest)),
              len |-> Len(Rest(rest)),
              total |-> (c.total + Len(blocks) * BlockSize) % W]

SHA512Final(c) ==
    LET blocks == 1 + Bit(Room - 1 < c.len % BlockSize)
        end == blocks * BlockSize
        bits == ((c.total + c.len) * 8) % W
        cleared == Put(c.block, c.len, Zeros(end - c.len))
        marked == Put(cleared, c.len, <<Mark>>)
    IN  c.hashed \o Whole(SubSeq(Put(marked, end - WordSize, Bytes(bits)), 1, end))
-----------------------------------------------------------------------------
\* GetData and GetFile of each: the message in pieces of one size, the last
\* one shorter; GetDataSHA512 takes it in one piece.
Pieces(message, size) ==
    [p \in 1..((Len(message) + size - 1) \div size) |->
        SubSeq(message, (p - 1) * size + 1, Min2(p * size, Len(message)))]

GetMD5(pieces) == MD5Final(FoldLeft(MD5Update, MD5Init, pieces))
GetSHA1(pieces) == SHA1Final(FoldLeft(SHA1Update, SHA1Reset, pieces))
GetSHA256(pieces) == SHA256Final(FoldLeft(SHA256Update, SHA256Init, pieces))
GetSHA512(pieces) == SHA512Final(FoldLeft(SHA512Update, SHA512Init, pieces))
Digest(algorithm, pieces) ==
    CASE algorithm = "md5" -> GetMD5(pieces)
      [] algorithm = "sha1" -> GetSHA1(pieces)
      [] algorithm = "sha256" -> GetSHA256(pieces)
      [] algorithm = "sha512" -> GetSHA512(pieces)

\* The lengths around the end of a block and of the room in it, where the
\* count of bits, of bytes and of blocks passes a word.
Lengths ==
    0..(3 * BlockSize)
    \cup {W - 1, W, W + 1, W * BlockSize - 1, W * BlockSize, W * BlockSize + 3}
\* The buffers of GetFile and GetData hold whole blocks; update is written for
\* pieces of any size, and SHA1's is public.
PieceSizes == {1, 3, 2 * BlockSize - 1, 2 * BlockSize, 5 * BlockSize}
Message(n) == [i \in 1..n |-> i % 11]

DigestInputs ==
    {d \in [algorithm : {"md5", "sha1", "sha256", "sha512"}, length : Lengths,
            piece : PieceSizes] :
        d.length > 3 * BlockSize => d.piece = 5 * BlockSize}

\* The definition of the standards: the mark, zeros up to the room, the number
\* of bits in two words, the low one first for MD5 only.
Padded(algorithm, message) ==
    LET n == Len(message)
        zeros == Zeros((Room - 1 - n) % BlockSize)
        low == Bytes((8 * n) % W)
        high == Bytes(((8 * n) \div W) % W)
    IN  message \o <<Mark>> \o zeros \o
        IF algorithm = "md5" THEN low \o high ELSE high \o low

\* SHA512 counts the bits in one word and leaves the higher one zero: it is that
\* of the standard while the count fits. All else is at any length.
Short(message) == 8 * Len(message) < W
HighWord == (Room + 1)..(Room + WordSize)
WithoutHighWord(blocks) ==
    [b \in DOMAIN blocks |-> [i \in DOMAIN blocks[b] |->
        IF b = Len(blocks) /\ i \in HighWord THEN 0 ELSE blocks[b][i]]]

AgreesWithReference(d) ==
    LET message == Message(d.length)
        blocks == Digest(d.algorithm, Pieces(message, d.piece))
        padded == Whole(Padded(d.algorithm, message))
    IN  IF d.algorithm = "sha512"
        THEN /\ WithoutHighWord(blocks) = WithoutHighWord(padded)
             /\ Short(message) => \A i \in HighWord : Last(blocks)[i] = Last(padded)[i] % 1000
        ELSE blocks = padded
=============================================================================
