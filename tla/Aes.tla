--------------------------------- MODULE Aes ---------------------------------
(* aes.cpp: the block cipher AES-128, its modes, the padding and the two     *)
(* functions of the library. A byte is 0..255; a block, a key and an initial *)
(* vector are 16 of them, a state the columns of four bytes that a block     *)
(* has: state[i][j] of the code is byte 4 * i + j, here at 4 * i + j + 1.    *)
EXTENDS Integers, Sequences, SequencesExt, Bitwise

Nb == 4
Nk == 4
Nr == 10
AES_BLOCKLEN == 16

\* The bytes F of the places 1 to n, as a sequence that TLC has computed.
Each(n, F(_)) == [i \in 1..n |-> F(i)] \o <<>>

AddTable == [x \in 0..255 |-> [y \in 0..255 |-> x ^^ y]]
Add(x, y) == AddTable[x][y]
AddAll(s, t) == Each(Len(s), LAMBDA i : Add(s[i], t[i]))

xtime(x) == IF x >= 128 THEN Add((2 * x) % 256, 27) ELSE 2 * x

\* x times y in the field.
RECURSIVE Multiply(_, _)
Multiply(x, y) ==
    IF y = 0 THEN 0
    ELSE Add(IF y % 2 = 1 THEN x ELSE 0, Multiply(xtime(x), y \div 2))

\* The tables of the code hold what they are defined to hold: the inverse in
\* the field, turned and added to itself four times, the inverse of that, and
\* the powers of two.
Turn(x, n) == ((x * 2^n) % 256) + x \div 2^(8 - n)
sbox ==
    LET FieldInverse(x) == IF x = 0 THEN 0 ELSE CHOOSE y \in 1..255 : Multiply(x, y) = 1
        Affine(b) == Add(Add(Add(b, Turn(b, 1)), Add(Turn(b, 2), Turn(b, 3))), Add(Turn(b, 4), 99))
    IN  [x \in 0..255 |-> Affine(FieldInverse(x))]
rsbox == [y \in 0..255 |-> CHOOSE x \in 0..255 : sbox[x] = y]
Rcon == <<1, 2, 4, 8, 16, 32, 64, 128, 27, 54>>

-----------------------------------------------------------------------------
\* The words of all round keys, four bytes each.
Words(bytes) == [w \in 1..(Len(bytes) \div 4) |-> SubSeq(bytes, 4 * w - 3, 4 * w)]
NextWord(words, i) ==
    LET tempa == words[i]
        rotated == Each(4, LAMBDA b : sbox[tempa[(b % 4) + 1]])
        mixed == IF i % Nk = 0 THEN [rotated EXCEPT ![1] = Add(@, Rcon[i \div Nk])] ELSE tempa
    IN  AddAll(words[i - Nk + 1], mixed)
KeyExpansion(key) ==
    FlattenSeq(FoldLeft(LAMBDA words, i : Append(words, NextWord(words, i)),
                        Words(key), [n \in 1..(Nb * (Nr + 1) - Nk) |-> Nk + n - 1]))

AddRoundKey(round, state, RoundKey) ==
    Each(16, LAMBDA b : Add(state[b], RoundKey[round * 16 + b]))

SubBytes(state) == Each(16, LAMBDA b : sbox[state[b]])
InvSubBytes(state) == Each(16, LAMBDA b : rsbox[state[b]])

\* Row j of the state moves j columns to the left, or back to the right.
Moved(state, n) == Each(16, LAMBDA b : state[((b - 1 + 4 * n * ((b - 1) % 4)) % 16) + 1])
ShiftRows(state) == Moved(state, 1)
InvShiftRows(state) == Moved(state, 3)

\* What MixColumns makes of byte j of the column: its sum with the next one,
\* doubled, and the sum of all four.
MixColumns(state) ==
    Each(16, LAMBDA b :
        LET i == 4 * ((b - 1) \div 4)
            next == i + (b % 4) + 1
            Tmp == Add(Add(state[i + 1], state[i + 2]), Add(state[i + 3], state[i + 4]))
        IN  Add(state[b], Add(xtime(Add(state[b], state[next])), Tmp)))

MultiplyTable == [x \in 0..255 |-> [y \in {9, 11, 13, 14} |-> Multiply(x, y)]]

InvMixColumns(state) ==
    Each(16, LAMBDA b :
        LET i == 4 * ((b - 1) \div 4)
            Times(n, y) == MultiplyTable[state[i + ((b - 1 + n) % 4) + 1]][y]
        IN  Add(Add(Times(0, 14), Times(1, 11)), Add(Times(2, 13), Times(3, 9))))

\* The rounds from one on; asking for the length makes TLC compute a state
\* before the next round.
RECURSIVE Rounds(_, _, _), InvRounds(_, _, _)
Rounds(state, round, RoundKey) ==
    IF Len(state) = 16 /\ round < Nr
    THEN Rounds(AddRoundKey(round, MixColumns(ShiftRows(SubBytes(state))), RoundKey),
                round + 1, RoundKey)
    ELSE state
Cipher(block, RoundKey) ==
    LET state == Rounds(AddRoundKey(0, block, RoundKey), 1, RoundKey)
    IN  AddRoundKey(Nr, ShiftRows(SubBytes(state)), RoundKey)

InvRounds(state, round, RoundKey) ==
    IF Len(state) = 16 /\ round > 0
    THEN InvRounds(
            InvMixColumns(AddRoundKey(round, InvSubBytes(InvShiftRows(state)), RoundKey)),
            round - 1, RoundKey)
    ELSE state
InvCipher(block, RoundKey) ==
    LET state == InvRounds(AddRoundKey(Nr, block, RoundKey), Nr - 1, RoundKey)
    IN  AddRoundKey(0, InvSubBytes(InvShiftRows(state)), RoundKey)

-----------------------------------------------------------------------------
\* The modes; ctx is the round keys and the vector. A buffer has whole blocks
\* for CBC and any length for CTR.
Context(key, iv) == [RoundKey |-> KeyExpansion(key), Iv |-> iv]
BlockOf(buf, n) == SubSeq(buf, 16 * n - 15, 16 * n)

\* The blocks there are, the last one reached by any byte of it.
CBCEncrypt(ctx, buf, length) ==
    FoldLeft(LAMBDA c, n :
                LET block == Cipher(AddAll(BlockOf(buf, n), c.Iv), ctx.RoundKey)
                IN  [Iv |-> block, out |-> c.out \o block],
             [Iv |-> ctx.Iv, out |-> <<>>], [n \in 1..((length + 15) \div 16) |-> n])

CBCDecrypt(ctx, buf, length) ==
    FoldLeft(LAMBDA c, n :
                [Iv |-> BlockOf(buf, n),
                 out |-> c.out \o AddAll(InvCipher(BlockOf(buf, n), ctx.RoundKey), c.Iv)],
             [Iv |-> ctx.Iv, out |-> <<>>], [n \in 1..((length + 15) \div 16) |-> n])

\* The vector counts the blocks, its last byte first.
RECURSIVE Increment(_, _)
Increment(Iv, bi) ==
    IF bi = 0 THEN Iv
    ELSE IF Iv[bi] = 255 THEN Increment([Iv EXCEPT ![bi] = 0], bi - 1)
    ELSE [Iv EXCEPT ![bi] = @ + 1]

CTRXcrypt(ctx, buf) ==
    FoldLeft(LAMBDA c, n :
                LET part == SubSeq(buf, 16 * n - 15, IF 16 * n < Len(buf) THEN 16 * n ELSE Len(buf))
                IN  [Iv |-> Increment(c.Iv, 16),
                     out |-> c.out \o AddAll(part, Cipher(c.Iv, ctx.RoundKey))],
             [Iv |-> ctx.Iv, out |-> <<>>], [n \in 1..((Len(buf) + 15) \div 16) |-> n])

-----------------------------------------------------------------------------
\* The padding: where there is room for it in the buffer.
pad_buffer(buffer, data_length) ==
    LET pad_byte == 16 - (data_length % 16)
    IN  IF data_length + pad_byte > Len(buffer) THEN buffer
        ELSE SubSeq(buffer, 1, data_length) \o [i \in 1..pad_byte |-> pad_byte]
             \o SubSeq(buffer, data_length + pad_byte + 1, Len(buffer))

data_length(buffer) ==
    LET padding_value == buffer[Len(buffer)]
        size == Len(buffer)
    IN  IF \/ size % 16 # 0
           \/ padding_value \notin 1..16
           \/ size < padding_value + 1
           \/ \E i \in (size - padding_value + 1)..size : buffer[i] # padding_value
        THEN 0 ELSE size - padding_value

\* A buffer of whole blocks; a plain text that fills them leaves no room for a
\* padding, and then none is written.
Failed == [ok |-> FALSE, out |-> <<>>]
AES128CBCEncrypt(key, iv, paddingMode, plain) ==
    IF Len(key) # 16 \/ Len(iv) # 16 \/ plain = <<>> THEN Failed
    ELSE LET bufSize == 16 * ((Len(plain) + 15) \div 16)
             zeros == plain \o [i \in 1..(bufSize - Len(plain)) |-> 0]
             buffer == IF paddingMode = "PKCS7" THEN pad_buffer(zeros, Len(plain)) ELSE zeros
         IN  [ok |-> TRUE, out |-> CBCEncrypt(Context(key, iv), buffer, Len(plain)).out]

AES128CBCDecrypt(key, iv, paddingMode, cipher) ==
    IF Len(key) # 16 \/ Len(iv) # 16 \/ cipher = <<>> THEN Failed
    ELSE LET buffer == CBCDecrypt(Context(key, iv), cipher, Len(cipher)).out
         IN  [ok |-> TRUE,
              out |-> SubSeq(buffer, 1,
                        IF paddingMode = "PKCS7" THEN data_length(buffer) ELSE Len(buffer))]

-----------------------------------------------------------------------------
\* Plain texts around the ends of blocks, one of them ending like a padding;
\* vectors that carry to the next byte.
Keys == {[i \in 1..16 |-> (i * 29) % 256], [i \in 1..16 |-> 255]}
Ivs == {[i \in 1..16 |-> i - 1], [i \in 1..16 |-> IF i < 15 THEN 7 ELSE 255]}
Plain(n, last) == [i \in 1..n |-> IF i = n THEN last ELSE (i * 37) % 256]
AesInputs ==
    [key : Keys, iv : Ivs, paddingMode : {"PKCS7", "None"},
     plain : {Plain(n, last) : n \in {1, 15, 16, 17, 31, 32}, last \in {1, 200}}]

\* What is encrypted is decrypted to the same bytes: with PKCS7 unless they
\* fill their blocks, which then carry no padding, and without padding with
\* zeros up to the end of the block. CTR undoes itself.
AesRoundTrips(d) ==
    LET n == Len(d.plain)
        cipher == AES128CBCEncrypt(d.key, d.iv, d.paddingMode, d.plain)
        plain == AES128CBCDecrypt(d.key, d.iv, d.paddingMode, cipher.out)
        ctx == Context(d.key, d.iv)
    IN  /\ cipher.ok /\ plain.ok
        /\ d.paddingMode = "PKCS7" /\ n % 16 # 0 => plain.out = d.plain
        /\ d.paddingMode = "None" =>
            plain.out = d.plain \o [i \in 1..((16 - (n % 16)) % 16) |-> 0]
        /\ CTRXcrypt(ctx, CTRXcrypt(ctx, d.plain).out).out = d.plain

\* The answers that t_aes.cpp:9 knows; the vector of a call goes on where the
\* one before ended; the vector of CTR counts as one number of 128 bits.
Known ==
    [key |-> <<43, 126, 21, 22, 40, 174, 210, 166, 171, 247, 21, 136, 9, 207, 79, 60>>,
     plain |-> <<107, 193, 190, 226, 46, 64, 159, 150, 233, 61, 126, 17, 115, 147, 23, 42>>,
     cipher |-> <<118, 73, 171, 172, 129, 25, 178, 70, 206, 233, 142, 155, 18, 233, 25, 125>>]
Number(bytes) == FoldLeft(LAMBDA n, b : n * 256 + b, 0, bytes)
AesAgrees(d) ==
    LET ctx == Context(d.key, d.iv)
        whole == d.plain \o [i \in 1..(48 - Len(d.plain)) |-> 0]
        head == CBCEncrypt(ctx, SubSeq(whole, 1, 16), 16)
        tail == CBCEncrypt([ctx EXCEPT !.Iv = head.Iv], SubSeq(whole, 17, 48), 32)
    IN  /\ AES128CBCEncrypt(Known.key, [i \in 1..16 |-> i - 1], "None", Known.plain).out
            = Known.cipher
        /\ head.out \o tail.out = CBCEncrypt(ctx, whole, 48).out
        /\ Number(SubSeq(CTRXcrypt(ctx, d.plain).Iv, 14, 16))
            = (Number(SubSeq(d.iv, 14, 16)) + (Len(d.plain) + 15) \div 16) % 2^24
=============================================================================
