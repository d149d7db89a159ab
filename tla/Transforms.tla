----------------------------- MODULE Transforms -----------------------------
(* What md5.cpp, sha1.cpp, sha256.cpp and sha512.cpp make of one block, and   *)
(* crc32.cpp of a byte. Digests.tla has the blocks that they are given.       *)
(*                                                                            *)
(* A word of 32 or 64 bits is the sequence of its bits, the highest first; a  *)
(* constant is written in groups of 16 bits.                                  *)
EXTENDS Integers, Sequences, SequencesExt

Word(groups) ==
    [i \in 1..(16 * Len(groups)) |->
        (groups[((i - 1) \div 16) + 1] \div 2^(15 - ((i - 1) % 16))) % 2] \o <<>>
Words(rows) == [i \in DOMAIN rows |-> Word(rows[i])]

Xor(x, y) == [i \in DOMAIN x |-> (x[i] + y[i]) % 2] \o <<>>
Xor3(x, y, z) == [i \in DOMAIN x |-> (x[i] + y[i] + z[i]) % 2] \o <<>>
Not(x) == [i \in DOMAIN x |-> 1 - x[i]] \o <<>>
\* The bits of y where x has a one, of z where it has none.
Select(x, y, z) == [i \in DOMAIN x |-> IF x[i] = 1 THEN y[i] ELSE z[i]] \o <<>>
Majority(x, y, z) == [i \in DOMAIN x |-> (x[i] + y[i] + z[i]) \div 2] \o <<>>
RotateLeft(x, n) == SubSeq(x, n + 1, Len(x)) \o SubSeq(x, 1, n)
RotateRight(x, n) == RotateLeft(x, Len(x) - n)
ShiftRight(x, n) == [i \in 1..n |-> 0] \o SubSeq(x, 1, Len(x) - n)

\* The sum of up to five words without the carry that leaves the highest bit.
RECURSIVE Column(_, _, _), AddFrom(_, _, _, _)
Column(words, i, n) == IF n = 0 THEN 0 ELSE words[n][i] + Column(words, i, n - 1)
AddFrom(words, i, carry, sum) ==
    IF i = 0 THEN sum
    ELSE LET t == carry + Column(words, i, Len(words))
         IN  AddFrom(words, i - 1, t \div 2, <<t % 2>> \o sum)
Add(words) == AddFrom(words, Len(words[1]), 0, <<>>)
AddEach(state, result) == [i \in DOMAIN state |-> Add(<<state[i], result[i]>>)]

-----------------------------------------------------------------------------
\* MD5Transform. A step makes one new word and turns the four round.
MD5Table ==
    <<<<\hd76a, \ha478>>, <<\he8c7, \hb756>>, <<\h2420, \h70db>>, <<\hc1bd, \hceee>>, <<\hf57c, \h0faf>>,
      <<\h4787, \hc62a>>, <<\ha830, \h4613>>, <<\hfd46, \h9501>>, <<\h6980, \h98d8>>, <<\h8b44, \hf7af>>,
      <<\hffff, \h5bb1>>, <<\h895c, \hd7be>>, <<\h6b90, \h1122>>, <<\hfd98, \h7193>>, <<\ha679, \h438e>>,
      <<\h49b4, \h0821>>, <<\hf61e, \h2562>>, <<\hc040, \hb340>>, <<\h265e, \h5a51>>, <<\he9b6, \hc7aa>>,
      <<\hd62f, \h105d>>, <<\h0244, \h1453>>, <<\hd8a1, \he681>>, <<\he7d3, \hfbc8>>, <<\h21e1, \hcde6>>,
      <<\hc337, \h07d6>>, <<\hf4d5, \h0d87>>, <<\h455a, \h14ed>>, <<\ha9e3, \he905>>, <<\hfcef, \ha3f8>>,
      <<\h676f, \h02d9>>, <<\h8d2a, \h4c8a>>, <<\hfffa, \h3942>>, <<\h8771, \hf681>>, <<\h6d9d, \h6122>>,
      <<\hfde5, \h380c>>, <<\ha4be, \hea44>>, <<\h4bde, \hcfa9>>, <<\hf6bb, \h4b60>>, <<\hbebf, \hbc70>>,
      <<\h289b, \h7ec6>>, <<\heaa1, \h27fa>>, <<\hd4ef, \h3085>>, <<\h0488, \h1d05>>, <<\hd9d4, \hd039>>,
      <<\he6db, \h99e5>>, <<\h1fa2, \h7cf8>>, <<\hc4ac, \h5665>>, <<\hf429, \h2244>>, <<\h432a, \hff97>>,
      <<\hab94, \h23a7>>, <<\hfc93, \ha039>>, <<\h655b, \h59c3>>, <<\h8f0c, \hcc92>>, <<\hffef, \hf47d>>,
      <<\h8584, \h5dd1>>, <<\h6fa8, \h7e4f>>, <<\hfe2c, \he6e0>>, <<\ha301, \h4314>>, <<\h4e08, \h11a1>>,
      <<\hf753, \h7e82>>, <<\hbd3a, \hf235>>, <<\h2ad7, \hd2bb>>, <<\heb86, \hd391>>>>
MD5Shift == <<<<7, 12, 17, 22>>, <<5, 9, 14, 20>>, <<4, 11, 16, 23>>, <<6, 10, 15, 21>>>>
MD5Index(round, i) ==       \* which word of the block a step takes, from 0
    CASE round = 1 -> i [] round = 2 -> (5 * i + 1) % 16
      [] round = 3 -> (3 * i + 5) % 16 [] round = 4 -> (7 * i) % 16
MD5Function(round, x, y, z) ==
    CASE round = 1 -> Select(x, y, z) [] round = 2 -> Select(z, x, y)
      [] round = 3 -> Xor3(x, y, z)
      [] round = 4 -> Xor(y, Select(x, [i \in DOMAIN x |-> 1], Not(z)))

RECURSIVE MD5Steps(_, _, _)
MD5Steps(s, in, n) ==       \* s is a, b, c, d
    IF n = 64 \/ Len(s) # 4 THEN s
    ELSE LET round == (n \div 16) + 1
             i == n % 16
             w == Add(<<s[1], MD5Function(round, s[2], s[3], s[4]),
                        in[MD5Index(round, i) + 1], Word(MD5Table[n + 1])>>)
             b == Add(<<RotateLeft(w, MD5Shift[round][(i % 4) + 1]), s[2]>>)
         IN  MD5Steps(<<s[4], b, s[2], s[3]>>, in, n + 1)
MD5Transform(buf, in) == AddEach(buf, MD5Steps(buf, in, 0))
MD5Start ==
    Words(<<<<\h6745, \h2301>>, <<\hefcd, \hab89>>, <<\h98ba, \hdcfe>>, <<\h1032, \h5476>>>>)

-----------------------------------------------------------------------------
\* SHA1::transform, with the block spread to 80 words first.
RECURSIVE SHA1Spread(_)
SHA1Spread(w) ==
    LET n == Len(w) IN
    IF n = 80 THEN w
    ELSE SHA1Spread(Append(w,
            RotateLeft(Xor(Xor3(w[n - 2], w[n - 7], w[n - 13]), w[n - 15]), 1)))

SHA1Constants ==
    <<<<\h5a82, \h7999>>, <<\h6ed9, \heba1>>, <<\h8f1b, \hbcdc>>, <<\hca62, \hc1d6>>>>
SHA1Function(round, w, x, y) ==
    CASE round = 1 -> Select(w, x, y) [] round = 3 -> Majority(w, x, y) [] OTHER -> Xor3(w, x, y)

RECURSIVE SHA1Steps(_, _, _)
SHA1Steps(s, block, n) ==   \* s is v, w, x, y, z of the macros R0 to R4
    IF n = 80 \/ Len(s) # 5 THEN s
    ELSE LET round == (n \div 20) + 1
             z == Add(<<s[5], SHA1Function(round, s[2], s[3], s[4]), block[n + 1],
                        Word(SHA1Constants[round]), RotateLeft(s[1], 5)>>)
         IN  SHA1Steps(<<z, s[1], RotateLeft(s[2], 30), s[3], s[4]>>, block, n + 1)
SHA1Transform(state, block) == AddEach(state, SHA1Steps(state, SHA1Spread(block), 0))
SHA1Start == Append(MD5Start, Word(<<\hc3d2, \he1f0>>))

-----------------------------------------------------------------------------
\* sha256_transform and SHA512::transform differ in the width of a word, the
\* rotations and the number of steps; the constants of the first are the upper
\* halves of those of the second.
SHA2Table ==
    <<<<\h428a, \h2f98, \hd728, \hae22>>, <<\h7137, \h4491, \h23ef, \h65cd>>, <<\hb5c0, \hfbcf, \hec4d, \h3b2f>>,
      <<\he9b5, \hdba5, \h8189, \hdbbc>>, <<\h3956, \hc25b, \hf348, \hb538>>, <<\h59f1, \h11f1, \hb605, \hd019>>,
      <<\h923f, \h82a4, \haf19, \h4f9b>>, <<\hab1c, \h5ed5, \hda6d, \h8118>>, <<\hd807, \haa98, \ha303, \h0242>>,
      <<\h1283, \h5b01, \h4570, \h6fbe>>, <<\h2431, \h85be, \h4ee4, \hb28c>>, <<\h550c, \h7dc3, \hd5ff, \hb4e2>>,
      <<\h72be, \h5d74, \hf27b, \h896f>>, <<\h80de, \hb1fe, \h3b16, \h96b1>>, <<\h9bdc, \h06a7, \h25c7, \h1235>>,
      <<\hc19b, \hf174, \hcf69, \h2694>>, <<\he49b, \h69c1, \h9ef1, \h4ad2>>, <<\hefbe, \h4786, \h384f, \h25e3>>,
      <<\h0fc1, \h9dc6, \h8b8c, \hd5b5>>, <<\h240c, \ha1cc, \h77ac, \h9c65>>, <<\h2de9, \h2c6f, \h592b, \h0275>>,
      <<\h4a74, \h84aa, \h6ea6, \he483>>, <<\h5cb0, \ha9dc, \hbd41, \hfbd4>>, <<\h76f9, \h88da, \h8311, \h53b5>>,
      <<\h983e, \h5152, \hee66, \hdfab>>, <<\ha831, \hc66d, \h2db4, \h3210>>, <<\hb003, \h27c8, \h98fb, \h213f>>,
      <<\hbf59, \h7fc7, \hbeef, \h0ee4>>, <<\hc6e0, \h0bf3, \h3da8, \h8fc2>>, <<\hd5a7, \h9147, \h930a, \ha725>>,
      <<\h06ca, \h6351, \he003, \h826f>>, <<\h1429, \h2967, \h0a0e, \h6e70>>, <<\h27b7, \h0a85, \h46d2, \h2ffc>>,
      <<\h2e1b, \h2138, \h5c26, \hc926>>, <<\h4d2c, \h6dfc, \h5ac4, \h2aed>>, <<\h5338, \h0d13, \h9d95, \hb3df>>,
      <<\h650a, \h7354, \h8baf, \h63de>>, <<\h766a, \h0abb, \h3c77, \hb2a8>>, <<\h81c2, \hc92e, \h47ed, \haee6>>,
      <<\h9272, \h2c85, \h1482, \h353b>>, <<\ha2bf, \he8a1, \h4cf1, \h0364>>, <<\ha81a, \h664b, \hbc42, \h3001>>,
      <<\hc24b, \h8b70, \hd0f8, \h9791>>, <<\hc76c, \h51a3, \h0654, \hbe30>>, <<\hd192, \he819, \hd6ef, \h5218>>,
      <<\hd699, \h0624, \h5565, \ha910>>, <<\hf40e, \h3585, \h5771, \h202a>>, <<\h106a, \ha070, \h32bb, \hd1b8>>,
      <<\h19a4, \hc116, \hb8d2, \hd0c8>>, <<\h1e37, \h6c08, \h5141, \hab53>>, <<\h2748, \h774c, \hdf8e, \heb99>>,
      <<\h34b0, \hbcb5, \he19b, \h48a8>>, <<\h391c, \h0cb3, \hc5c9, \h5a63>>, <<\h4ed8, \haa4a, \he341, \h8acb>>,
      <<\h5b9c, \hca4f, \h7763, \he373>>, <<\h682e, \h6ff3, \hd6b2, \hb8a3>>, <<\h748f, \h82ee, \h5def, \hb2fc>>,
      <<\h78a5, \h636f, \h4317, \h2f60>>, <<\h84c8, \h7814, \ha1f0, \hab72>>, <<\h8cc7, \h0208, \h1a64, \h39ec>>,
      <<\h90be, \hfffa, \h2363, \h1e28>>, <<\ha450, \h6ceb, \hde82, \hbde9>>, <<\hbef9, \ha3f7, \hb2c6, \h7915>>,
      <<\hc671, \h78f2, \he372, \h532b>>, <<\hca27, \h3ece, \hea26, \h619c>>, <<\hd186, \hb8c7, \h21c0, \hc207>>,
      <<\heada, \h7dd6, \hcde0, \heb1e>>, <<\hf57d, \h4f7f, \hee6e, \hd178>>, <<\h06f0, \h67aa, \h7217, \h6fba>>,
      <<\h0a63, \h7dc5, \ha2c8, \h98a6>>, <<\h113f, \h9804, \hbef9, \h0dae>>, <<\h1b71, \h0b35, \h131c, \h471b>>,
      <<\h28db, \h77f5, \h2304, \h7d84>>, <<\h32ca, \hab7b, \h40c7, \h2493>>, <<\h3c9e, \hbe0a, \h15c9, \hbebc>>,
      <<\h431d, \h67c4, \h9c10, \h0d4c>>, <<\h4cc5, \hd4be, \hcb3e, \h42b6>>, <<\h597f, \h299c, \hfc65, \h7e2a>>,
      <<\h5fcb, \h6fab, \h3ad6, \hfaec>>, <<\h6c44, \h198c, \h4a47, \h5817>>>>
SHA2Start512 ==
    <<<<\h6a09, \he667, \hf3bc, \hc908>>, <<\hbb67, \hae85, \h84ca, \ha73b>>, <<\h3c6e, \hf372, \hfe94, \hf82b>>,
      <<\ha54f, \hf53a, \h5f1d, \h36f1>>, <<\h510e, \h527f, \hade6, \h82d1>>, <<\h9b05, \h688c, \h2b3e, \h6c1f>>,
      <<\h1f83, \hd9ab, \hfb41, \hbd6b>>, <<\h5be0, \hcd19, \h137e, \h2179>>>>
Upper(rows) == [i \in DOMAIN rows |-> <<rows[i][1], rows[i][2]>>]

S0(x) == IF Len(x) = 32 THEN Xor3(RotateRight(x, 2), RotateRight(x, 13), RotateRight(x, 22))
         ELSE Xor3(RotateRight(x, 28), RotateRight(x, 34), RotateRight(x, 39))
S1(x) == IF Len(x) = 32 THEN Xor3(RotateRight(x, 6), RotateRight(x, 11), RotateRight(x, 25))
         ELSE Xor3(RotateRight(x, 14), RotateRight(x, 18), RotateRight(x, 41))
s0(x) == IF Len(x) = 32 THEN Xor3(RotateRight(x, 7), RotateRight(x, 18), ShiftRight(x, 3))
         ELSE Xor3(RotateRight(x, 1), RotateRight(x, 8), ShiftRight(x, 7))
s1(x) == IF Len(x) = 32 THEN Xor3(RotateRight(x, 17), RotateRight(x, 19), ShiftRight(x, 10))
         ELSE Xor3(RotateRight(x, 19), RotateRight(x, 61), ShiftRight(x, 6))

RECURSIVE SHA2Spread(_, _)
SHA2Spread(w, steps) ==
    LET n == Len(w) IN
    IF n = steps THEN w
    ELSE SHA2Spread(Append(w, Add(<<s1(w[n - 1]), w[n - 6], s0(w[n - 14]), w[n - 15]>>)), steps)

RECURSIVE SHA2Steps(_, _, _, _)
SHA2Steps(s, w, table, n) ==    \* s is A to H, or wv
    IF n = Len(w) \/ Len(s) # 8 THEN s
    ELSE LET t1 == Add(<<s[8], S1(s[5]), Select(s[5], s[6], s[7]), Word(table[n + 1]), w[n + 1]>>)
             t2 == Add(<<S0(s[1]), Majority(s[1], s[2], s[3])>>)
         IN  SHA2Steps(<<Add(<<t1, t2>>), s[1], s[2], s[3], Add(<<s[4], t1>>), s[5], s[6], s[7]>>,
                       w, table, n + 1)
SHA256Transform(state, data) ==
    AddEach(state, SHA2Steps(state, SHA2Spread(data, 64), Upper(SHA2Table), 0))
SHA512Transform(state, data) ==
    AddEach(state, SHA2Steps(state, SHA2Spread(data, 80), SHA2Table, 0))

-----------------------------------------------------------------------------
\* CRC32
Crc32Table ==
    <<<<\h0000, \h0000>>, <<\h7707, \h3096>>, <<\hee0e, \h612c>>, <<\h9909, \h51ba>>, <<\h076d, \hc419>>, <<\h706a, \hf48f>>, <<\he963, \ha535>>,
      <<\h9e64, \h95a3>>, <<\h0edb, \h8832>>, <<\h79dc, \hb8a4>>, <<\he0d5, \he91e>>, <<\h97d2, \hd988>>, <<\h09b6, \h4c2b>>, <<\h7eb1, \h7cbd>>,
      <<\he7b8, \h2d07>>, <<\h90bf, \h1d91>>, <<\h1db7, \h1064>>, <<\h6ab0, \h20f2>>, <<\hf3b9, \h7148>>, <<\h84be, \h41de>>, <<\h1ada, \hd47d>>,
      <<\h6ddd, \he4eb>>, <<\hf4d4, \hb551>>, <<\h83d3, \h85c7>>, <<\h136c, \h9856>>, <<\h646b, \ha8c0>>, <<\hfd62, \hf97a>>, <<\h8a65, \hc9ec>>,
      <<\h1401, \h5c4f>>, <<\h6306, \h6cd9>>, <<\hfa0f, \h3d63>>, <<\h8d08, \h0df5>>, <<\h3b6e, \h20c8>>, <<\h4c69, \h105e>>, <<\hd560, \h41e4>>,
      <<\ha267, \h7172>>, <<\h3c03, \he4d1>>, <<\h4b04, \hd447>>, <<\hd20d, \h85fd>>, <<\ha50a, \hb56b>>, <<\h35b5, \ha8fa>>, <<\h42b2, \h986c>>,
      <<\hdbbb, \hc9d6>>, <<\hacbc, \hf940>>, <<\h32d8, \h6ce3>>, <<\h45df, \h5c75>>, <<\hdcd6, \h0dcf>>, <<\habd1, \h3d59>>, <<\h26d9, \h30ac>>,
      <<\h51de, \h003a>>, <<\hc8d7, \h5180>>, <<\hbfd0, \h6116>>, <<\h21b4, \hf4b5>>, <<\h56b3, \hc423>>, <<\hcfba, \h9599>>, <<\hb8bd, \ha50f>>,
      <<\h2802, \hb89e>>, <<\h5f05, \h8808>>, <<\hc60c, \hd9b2>>, <<\hb10b, \he924>>, <<\h2f6f, \h7c87>>, <<\h5868, \h4c11>>, <<\hc161, \h1dab>>,
      <<\hb666, \h2d3d>>, <<\h76dc, \h4190>>, <<\h01db, \h7106>>, <<\h98d2, \h20bc>>, <<\hefd5, \h102a>>, <<\h71b1, \h8589>>, <<\h06b6, \hb51f>>,
      <<\h9fbf, \he4a5>>, <<\he8b8, \hd433>>, <<\h7807, \hc9a2>>, <<\h0f00, \hf934>>, <<\h9609, \ha88e>>, <<\he10e, \h9818>>, <<\h7f6a, \h0dbb>>,
      <<\h086d, \h3d2d>>, <<\h9164, \h6c97>>, <<\he663, \h5c01>>, <<\h6b6b, \h51f4>>, <<\h1c6c, \h6162>>, <<\h8565, \h30d8>>, <<\hf262, \h004e>>,
      <<\h6c06, \h95ed>>, <<\h1b01, \ha57b>>, <<\h8208, \hf4c1>>, <<\hf50f, \hc457>>, <<\h65b0, \hd9c6>>, <<\h12b7, \he950>>, <<\h8bbe, \hb8ea>>,
      <<\hfcb9, \h887c>>, <<\h62dd, \h1ddf>>, <<\h15da, \h2d49>>, <<\h8cd3, \h7cf3>>, <<\hfbd4, \h4c65>>, <<\h4db2, \h6158>>, <<\h3ab5, \h51ce>>,
      <<\ha3bc, \h0074>>, <<\hd4bb, \h30e2>>, <<\h4adf, \ha541>>, <<\h3dd8, \h95d7>>, <<\ha4d1, \hc46d>>, <<\hd3d6, \hf4fb>>, <<\h4369, \he96a>>,
      <<\h346e, \hd9fc>>, <<\had67, \h8846>>, <<\hda60, \hb8d0>>, <<\h4404, \h2d73>>, <<\h3303, \h1de5>>, <<\haa0a, \h4c5f>>, <<\hdd0d, \h7cc9>>,
      <<\h5005, \h713c>>, <<\h2702, \h41aa>>, <<\hbe0b, \h1010>>, <<\hc90c, \h2086>>, <<\h5768, \hb525>>, <<\h206f, \h85b3>>, <<\hb966, \hd409>>,
      <<\hce61, \he49f>>, <<\h5ede, \hf90e>>, <<\h29d9, \hc998>>, <<\hb0d0, \h9822>>, <<\hc7d7, \ha8b4>>, <<\h59b3, \h3d17>>, <<\h2eb4, \h0d81>>,
      <<\hb7bd, \h5c3b>>, <<\hc0ba, \h6cad>>, <<\hedb8, \h8320>>, <<\h9abf, \hb3b6>>, <<\h03b6, \he20c>>, <<\h74b1, \hd29a>>, <<\head5, \h4739>>,
      <<\h9dd2, \h77af>>, <<\h04db, \h2615>>, <<\h73dc, \h1683>>, <<\he363, \h0b12>>, <<\h9464, \h3b84>>, <<\h0d6d, \h6a3e>>, <<\h7a6a, \h5aa8>>,
      <<\he40e, \hcf0b>>, <<\h9309, \hff9d>>, <<\h0a00, \hae27>>, <<\h7d07, \h9eb1>>, <<\hf00f, \h9344>>, <<\h8708, \ha3d2>>, <<\h1e01, \hf268>>,
      <<\h6906, \hc2fe>>, <<\hf762, \h575d>>, <<\h8065, \h67cb>>, <<\h196c, \h3671>>, <<\h6e6b, \h06e7>>, <<\hfed4, \h1b76>>, <<\h89d3, \h2be0>>,
      <<\h10da, \h7a5a>>, <<\h67dd, \h4acc>>, <<\hf9b9, \hdf6f>>, <<\h8ebe, \heff9>>, <<\h17b7, \hbe43>>, <<\h60b0, \h8ed5>>, <<\hd6d6, \ha3e8>>,
      <<\ha1d1, \h937e>>, <<\h38d8, \hc2c4>>, <<\h4fdf, \hf252>>, <<\hd1bb, \h67f1>>, <<\ha6bc, \h5767>>, <<\h3fb5, \h06dd>>, <<\h48b2, \h364b>>,
      <<\hd80d, \h2bda>>, <<\haf0a, \h1b4c>>, <<\h3603, \h4af6>>, <<\h4104, \h7a60>>, <<\hdf60, \hefc3>>, <<\ha867, \hdf55>>, <<\h316e, \h8eef>>,
      <<\h4669, \hbe79>>, <<\hcb61, \hb38c>>, <<\hbc66, \h831a>>, <<\h256f, \hd2a0>>, <<\h5268, \he236>>, <<\hcc0c, \h7795>>, <<\hbb0b, \h4703>>,
      <<\h2202, \h16b9>>, <<\h5505, \h262f>>, <<\hc5ba, \h3bbe>>, <<\hb2bd, \h0b28>>, <<\h2bb4, \h5a92>>, <<\h5cb3, \h6a04>>, <<\hc2d7, \hffa7>>,
      <<\hb5d0, \hcf31>>, <<\h2cd9, \h9e8b>>, <<\h5bde, \hae1d>>, <<\h9b64, \hc2b0>>, <<\hec63, \hf226>>, <<\h756a, \ha39c>>, <<\h026d, \h930a>>,
      <<\h9c09, \h06a9>>, <<\heb0e, \h363f>>, <<\h7207, \h6785>>, <<\h0500, \h5713>>, <<\h95bf, \h4a82>>, <<\he2b8, \h7a14>>, <<\h7bb1, \h2bae>>,
      <<\h0cb6, \h1b38>>, <<\h92d2, \h8e9b>>, <<\he5d5, \hbe0d>>, <<\h7cdc, \hefb7>>, <<\h0bdb, \hdf21>>, <<\h86d3, \hd2d4>>, <<\hf1d4, \he242>>,
      <<\h68dd, \hb3f8>>, <<\h1fda, \h836e>>, <<\h81be, \h16cd>>, <<\hf6b9, \h265b>>, <<\h6fb0, \h77e1>>, <<\h18b7, \h4777>>, <<\h8808, \h5ae6>>,
      <<\hff0f, \h6a70>>, <<\h6606, \h3bca>>, <<\h1101, \h0b5c>>, <<\h8f65, \h9eff>>, <<\hf862, \hae69>>, <<\h616b, \hffd3>>, <<\h166c, \hcf45>>,
      <<\ha00a, \he278>>, <<\hd70d, \hd2ee>>, <<\h4e04, \h8354>>, <<\h3903, \hb3c2>>, <<\ha767, \h2661>>, <<\hd060, \h16f7>>, <<\h4969, \h474d>>,
      <<\h3e6e, \h77db>>, <<\haed1, \h6a4a>>, <<\hd9d6, \h5adc>>, <<\h40df, \h0b66>>, <<\h37d8, \h3bf0>>, <<\ha9bc, \hae53>>, <<\hdebb, \h9ec5>>,
      <<\h47b2, \hcf7f>>, <<\h30b5, \hffe9>>, <<\hbdbd, \hf21c>>, <<\hcaba, \hc28a>>, <<\h53b3, \h9330>>, <<\h24b4, \ha3a6>>, <<\hbad0, \h3605>>,
      <<\hcdd7, \h0693>>, <<\h54de, \h5729>>, <<\h23d9, \h67bf>>, <<\hb366, \h7a2e>>, <<\hc461, \h4ab8>>, <<\h5d68, \h1b02>>, <<\h2a6f, \h2b94>>,
      <<\hb40b, \hbe37>>, <<\hc30c, \h8ea1>>, <<\h5a05, \hdf1b>>, <<\h2d02, \hef8d>>>>
Ones(n) == [i \in 1..n |-> 1]
Number(bits) == FoldLeft(LAMBDA n, b : 2 * n + b, 0, bits)
Byte(b) == [i \in 1..8 |-> (b \div 2^(8 - i)) % 2] \o <<>>

\* One byte of update.
CRC32Step(crc, b) ==
    Xor(ShiftRight(crc, 8), Word(Crc32Table[Number(Xor(Byte(b), SubSeq(crc, 25, 32))) + 1]))
CRC32(data) == Not(FoldLeft(CRC32Step, Ones(32), data))

\* "X^32+X^26+X^23+X^22+X^16+X^12+X^11+X^10+X^8+X^7+X^5+X^4+X^2+X+1", the highest
\* power last: what is left of a byte after eight divisions.
Polynomial ==
    [i \in 1..32 |-> IF i - 1 \in {0, 1, 2, 4, 5, 7, 8, 10, 11, 12, 16, 22, 23, 26} THEN 1 ELSE 0]
RECURSIVE Divided(_, _)
Divided(word, n) ==
    IF n = 0 \/ Len(word) # 32 THEN word
    ELSE Divided(IF word[32] = 1 THEN Xor(ShiftRight(word, 1), Polynomial)
                 ELSE ShiftRight(word, 1), n - 1)
Remainder(b) == Divided([i \in 1..24 |-> 0] \o Byte(b), 8)

-----------------------------------------------------------------------------
\* "hello world!!!" of t_hash.cpp, and the block of each digest that it fills:
\* the mark, zeros and the number of its bits.
Hello == <<104, 101, 108, 108, 111, 32, 119, 111, 114, 108, 100, 33, 33, 33>>
HelloBlock(size) == Hello \o <<128>> \o [i \in 1..(size - 16) |-> 0] \o <<8 * Len(Hello)>>
\* Its words, the byte of the highest bits first or, for MD5, last.
BigEndian(bytes, n) ==
    [w \in 1..16 |-> FlattenSeq([i \in 1..n |-> Byte(bytes[(n * (w - 1)) + i])])]
LittleEndian(bytes) ==
    [w \in 1..16 |-> FlattenSeq([i \in 1..4 |-> Byte(bytes[(4 * w) + 1 - i])])]
Swapped(bytes) == SubSeq(bytes, 1, 56) \o <<bytes[64]>> \o [i \in 1..7 |-> 0]
\* MD5Final writes the bytes of a word from the lowest on.
Turned(word) == SubSeq(word, 25, 32) \o SubSeq(word, 17, 24) \o SubSeq(word, 9, 16) \o SubSeq(word, 1, 8)

\* A function of a block is what t_hash.cpp expects of it; an entry of the table
\* of CRC32 is the remainder that the comment on it says.
TransformInputs ==
    [kind : {"md5", "sha1", "sha256", "sha512", "crc32"}] \cup [kind : {"table"}, b : 0..255]

Answer(kind) ==
    CASE kind = "md5" -> <<\hf683, \h5168, \hc482, \h3ac8, \h9c1b, \hc971, \h54a6, \h75a8>>
      [] kind = "sha1" ->
            <<\h8233, \hf28c, \h479f, \hf758, \hb3b4, \hba9a, \hd660, \h69db, \h6881, \h1e59>>
      [] kind = "sha256" ->
            <<\ha5f4, \h396b, \h4554, \h8597, \hf816, \h8114, \h7f53, \hc660,
              \h65d5, \h137f, \h2fbd, \h85e6, \h758a, \h8983, \h1072, \h28e4>>
      [] kind = "sha512" ->
            <<\hdfa6, \hb727, \h753e, \h96a9, \hdffb, \h1094, \h7f99, \hb845,
              \h7ef5, \h1a63, \h4ea8, \hbaa0, \hdb0f, \h2271, \h2f0b, \hb19a,
              \hc671, \h9d44, \h4610, \h9dc1, \h9dfc, \h9629, \ha3b2, \h25c0,
              \haeee, \hbd61, \h1754, \h64a9, \h5e35, \hc437, \hcd97, \h9a64>>
      [] kind = "crc32" -> <<\h2416, \ha280>>

Computed(kind) ==
    CASE kind = "md5" ->
            LET s == MD5Transform(MD5Start, LittleEndian(Swapped(HelloBlock(64))))
            IN  FlattenSeq([i \in 1..4 |-> Turned(s[i])])
      [] kind = "sha1" -> FlattenSeq(SHA1Transform(SHA1Start, BigEndian(HelloBlock(64), 4)))
      [] kind = "sha256" ->
            FlattenSeq(SHA256Transform(Words(Upper(SHA2Start512)), BigEndian(HelloBlock(64), 4)))
      [] kind = "sha512" ->
            FlattenSeq(SHA512Transform(Words(SHA2Start512), BigEndian(HelloBlock(128), 8)))
      [] kind = "crc32" -> CRC32(Hello)

TransformAgrees(d) ==
    IF d.kind = "table" THEN Word(Crc32Table[d.b + 1]) = Remainder(d.b)
    ELSE Computed(d.kind) = Word(Answer(d.kind))
=============================================================================
