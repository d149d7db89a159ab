--------------------------------- MODULE Rsa ---------------------------------
(* rsa.cpp: keys of two primes of a table, and a byte at a time to the power  *)
(* of an exponent. A long long is scaled to Width values, the primes and the *)
(* bytes with it: the square of a modulus passes a long long by far, twice a *)
(* modulus does not. Keys and ciphers are texts of decimal digits, written   *)
(* in base64 (Codecs.tla) and cut apart by StrSplit (StringUtil.tla).        *)
EXTENDS Integers, Sequences, SequencesExt

Width == 2^17
primes == {11, 13, 17, 19, 23, 29}
Byte == 0..9
Digits == 5                     \* 20 in the code

Text == INSTANCE StringUtil
Base64 == INSTANCE Codecs

\* A product as the processor computes it, and the division of C.
Wrap(n) == ((n + Width \div 2) % Width) - Width \div 2
Abs(n) == IF n < 0 THEN -n ELSE n
Quotient(n, m) == IF n < 0 THEN -(Abs(n) \div m) ELSE n \div m
Remainder(n, m) == n - Quotient(n, m) * m

-----------------------------------------------------------------------------
RECURSIVE gcd(_, _)
gcd(a, b) == IF a = 0 THEN b ELSE gcd(b % a, a)

\* The factor of b in the sum of multiples of a and b that is their divisor.
RECURSIVE Euclid(_, _, _, _)
Euclid(a, d, y, v) ==
    IF a = 0 THEN y ELSE Euclid(d % a, a, v, y - v * (d \div a))
ExtEuclid(a, b) == Euclid(a, b, 1, 0)

\* The product is taken when dividing it gives the factor back. An overflow of
\* a long long is undefined, so the build may take the test for true: folded.
RECURSIVE modmult(_, _, _, _), Doubled(_, _, _, _)
modmult(a, b, mod, folded) ==
    LET product == Wrap(a * b)
        half == modmult(a \div 2, b, mod, folded)
    IN  IF a = 0 THEN 0
        ELSE IF folded \/ Quotient(product, a) = b THEN Remainder(product, mod)
        ELSE IF 2 * half > half
        THEN IF a % 2 = 1 THEN (((2 * half) % mod) + b) % mod ELSE (2 * half) % mod
        ELSE Doubled(a, b, mod, 0)
Doubled(a, b, mod, sum) ==
    IF b = 0 THEN sum
    ELSE Doubled((2 * a) % mod, b \div 2, mod, IF b % 2 = 1 THEN (sum + a) % mod ELSE sum)

RECURSIVE Power(_, _, _, _, _)
Power(b, e, m, product, folded) ==
    IF e = 0 THEN product
    ELSE Power(modmult(b, b, m, folded), e \div 2, m,
               IF e % 2 = 1 THEN modmult(product, b, m, folded) ELSE product, folded)
rsa_modExp(b, e, m, folded) ==
    IF b < 0 \/ e < 0 \/ m <= 0 THEN -1 ELSE Power(b % m, e, m, 1, folded)

-----------------------------------------------------------------------------
e == 2 * 2^2 + 1                \* (2 << 16) + 1 in the code

\* The two numbers that the loop of RSAGenKeys can end with. The random index
\* goes from 0 to prime_count, so that one of them can be what the memory holds
\* after the table.
beyond == {0, 12}
Acceptable(p, q) == p # 0 /\ q # 0 /\ p # q /\ gcd((p - 1) * (q - 1), e) = 1
RECURSIVE Positive(_, _)
Positive(d, phi_max) == IF d < 0 THEN Positive(d + phi_max, phi_max) ELSE d
GenKeys(p, q) ==
    LET phi_max == (p - 1) * (q - 1)
    IN  [pub |-> [modulus |-> p * q, exponent |-> e],
         priv |-> [modulus |-> p * q, exponent |-> Positive(ExtEuclid(phi_max, e), phi_max)]]

\* Characters are their codes: 48 is '0', 44 is ','.
RECURSIVE to_string(_)
to_string(n) ==
    IF n < 10 THEN <<48 + n>> ELSE to_string(n \div 10) \o <<48 + (n % 10)>>
atoll(text) == FoldLeft(LAMBDA n, c : 10 * n + c - 48, 0, text)
AddZeroToFront(src) ==
    IF Len(src) > Digits THEN <<>> ELSE [i \in 1..(Digits - Len(src)) |-> 48] \o src
RemoveFrontZero(src) ==
    IF Len(src) = 1 THEN src
    ELSE LET i == SelectInSeq(src, LAMBDA c : c # 48)
         IN  IF i = 0 THEN <<>> ELSE SubSeq(src, i, Len(src))

KeyText(key) ==
    Base64!Base64Encode(AddZeroToFront(to_string(key.modulus))
                        \o AddZeroToFront(to_string(key.exponent)), FALSE)
KeyOf(text) ==
    LET un64 == Base64!Base64Decode(text, FALSE)
    IN  [ok |-> Len(un64) = 2 * Digits,
         modulus |-> atoll(RemoveFrontZero(SubSeq(un64, 1, Digits))),
         exponent |-> atoll(RemoveFrontZero(SubSeq(un64, Digits + 1, Len(un64))))]

Failed == [ok |-> FALSE, out |-> <<>>]

RSAEncrypt(plain, pub, folded) ==
    LET key == KeyOf(pub)
        numbers == [i \in DOMAIN plain |->
                        rsa_modExp(plain[i], key.exponent, key.modulus, folded)]
        s == FlattenSeq([i \in DOMAIN plain |->
                to_string(numbers[i]) \o IF i # Len(plain) THEN <<44>> ELSE <<>>])
    IN  IF plain = <<>> \/ pub = <<>> \/ ~key.ok \/ \E i \in DOMAIN plain : numbers[i] = -1
        THEN Failed ELSE [ok |-> TRUE, out |-> Base64!Base64Encode(s, FALSE)]

\* A result is cut to a byte first, so that the test for -1 never holds.
RSADecrypt(cipher, priv, folded) ==
    LET key == KeyOf(priv)
        un64 == Base64!Base64Decode(cipher, FALSE)
        list == Text!StrSplit(un64, <<44>>, TRUE)
    IN  IF \/ cipher = <<>> \/ priv = <<>> \/ ~key.ok
           \/ un64 = <<>> \/ \E i \in DOMAIN list : list[i] = <<>>
        THEN Failed
        ELSE [ok |-> TRUE,
              out |-> [i \in DOMAIN list |->
                        rsa_modExp(atoll(list[i]), key.exponent, key.modulus, folded) % 256]]

-----------------------------------------------------------------------------
RsaInputs ==
    {d \in [p : primes \cup beyond, q : primes \cup beyond, folded : BOOLEAN, byte : Byte] :
        Acceptable(d.p, d.q)}

\* What is encrypted with one key is decrypted with the other.
Decrypts(d) ==
    LET keys == GenKeys(d.p, d.q)
        plain == <<d.byte, 9 - d.byte>>
        cipher == RSAEncrypt(plain, KeyText(keys.pub), d.folded)
        back == RSADecrypt(cipher.out, KeyText(keys.priv), d.folded)
    IN  cipher.ok /\ back.ok /\ back.out = plain

\* It is for two primes of the table when the test for an overflow is there, or
\* when no product needs it.
RsaRoundTrips(d) ==
    {d.p, d.q} \subseteq primes /\ (d.folded => (d.p * d.q - 1)^2 < Width \div 2)
        => Decrypts(d)

\* t_rsa.cpp:48, `REQUIRE(in == out)` for a key that RSAGenKeys has just made:
\* it is for any two primes of the table.
DecryptsAny(d) == {d.p, d.q} \subseteq primes => Decrypts(d)
=============================================================================
