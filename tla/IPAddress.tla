----------------------------- MODULE IPAddress ------------------------------
(* ipaddress.cpp: addresses of both families, their masks, classes and order. *)
(*                                                                           *)
(* An address is its family and the 128 bits of the union, the first 32 of   *)
(* them for version 4 and the others zero. Integers of 32 bits are words of  *)
(* four bytes in network order: the conversions to host order and back cancel *)
(* out, and comparing two in host order compares them bit by bit. The texts  *)
(* are read and written by the system and left out.                          *)
EXTENDS Integers, Sequences, SequencesExt, FiniteSetsExt

Bits(byte) == [i \in 1..8 |-> (byte \div 2^(8 - i)) % 2]
Word(bytes) == FlattenSeq([i \in DOMAIN bytes |-> Bits(bytes[i])])
Same(bit, n) == [i \in 1..n |-> bit]
First(bits, n) == SubSeq(bits, 1, n)
Less(s, t) ==                   \* memcmp < 0
    \E i \in DOMAIN s : s[i] < t[i] /\ First(s, i - 1) = First(t, i - 1)

Ip(family, bits) == [family |-> family, u |-> bits \o Same(0, 128 - Len(bits))]
Unspecified == Ip("UNSPEC", <<>>)
V4(a, b, c, d) == Ip("INET", Word(<<a, b, c, d>>))
\* Its first bytes, zeros, and its last bytes.
V6(first, last) == Ip("INET6",
    Word(first) \o Same(0, 128 - 8 * (Len(first) + Len(last))) \o Word(last))

in6addr_any == V6(<<>>, <<>>)
in6addr_loopback == V6(<<>>, <<1>>)
kV4MappedPrefix == V6(<<>>, <<255, 255, 0, 0, 0, 0>>)
k6To4Prefix == V6(<<32, 2>>, <<>>)
kTeredoPrefix == V6(<<32, 1>>, <<>>)
kV4CompatibilityPrefix == V6(<<>>, <<>>)
k6BonePrefix == V6(<<63, 254>>, <<>>)

-----------------------------------------------------------------------------
Equal(ip, other) ==
    /\ ip.family = other.family
    /\ ip.family = "INET" => First(ip.u, 32) = First(other.u, 32)
    /\ ip.family = "INET6" => ip.u = other.u

LessThan(ip, other) ==
    IF ip.family # other.family
    THEN ip.family = "UNSPEC" \/ (ip.family = "INET" /\ other.family = "INET6")
    ELSE CASE ip.family = "INET" -> Less(First(ip.u, 32), First(other.u, 32))
           [] ip.family = "INET6" -> Less(ip.u, other.u)
           [] OTHER -> FALSE
GreaterThan(ip, other) == ~Equal(ip, other) /\ ~LessThan(ip, other)

Half(word, n) == SubSeq(word, n + 1, n + 32)
HashIP(ip) ==
    CASE ip.family = "INET" -> First(ip.u, 32)
      [] ip.family = "INET6" ->
            [i \in 1..32 |-> (ip.u[i] + ip.u[i + 32] + ip.u[i + 64] + ip.u[i + 96]) % 2]
      [] OTHER -> Same(0, 32)

-----------------------------------------------------------------------------
\* The classes. The helpers look at the 128 bits whatever the family is.
IPIsHelper(ip, tomatch, length) == First(ip.u, length) = First(tomatch.u, length)

IPIs6Bone(ip) == IPIsHelper(ip, k6BonePrefix, 16)
IPIs6To4(ip) == IPIsHelper(ip, k6To4Prefix, 16)
IPIsTeredo(ip) == IPIsHelper(ip, kTeredoPrefix, 32)
IPIsV4Compatibility(ip) == IPIsHelper(ip, kV4CompatibilityPrefix, 96)
IPIsV4Mapped(ip) == IPIsHelper(ip, kV4MappedPrefix, 96)
IPIsLinkLocal(ip) == First(ip.u, 16) = Word(<<254, 128>>)
IPIsSiteLocal(ip) == First(ip.u, 8) = Bits(254) /\ ip.u[9] = 1 /\ ip.u[10] = 1
IPIsULA(ip) == First(ip.u, 7) = First(Bits(252), 7)
IPIsMacBased(ip) == ip.u[71] = 1 /\ SubSeq(ip.u, 89, 104) = Word(<<255, 254>>)

IsPrivateV4(ip) ==
    \/ First(ip.u, 8) \in {Bits(127), Bits(10)}
    \/ First(ip.u, 12) = Bits(172) \o <<0, 0, 0, 1>>
    \/ First(ip.u, 16) \in {Word(<<192, 168>>), Word(<<169, 254>>)}
IPIsLoopback(ip) ==
    CASE ip.family = "INET" -> First(ip.u, 8) = Bits(127)
      [] ip.family = "INET6" -> Equal(ip, in6addr_loopback)
      [] OTHER -> FALSE
IPIsPrivate(ip) ==
    CASE ip.family = "INET" -> IsPrivateV4(ip)
      [] ip.family = "INET6" -> IPIsLinkLocal(ip) \/ IPIsLoopback(ip)
      [] OTHER -> FALSE
IPIsAny(ip) ==
    CASE ip.family = "INET" -> Equal(ip, V4(0, 0, 0, 0))
      [] ip.family = "INET6" -> Equal(ip, in6addr_any) \/ Equal(ip, kV4MappedPrefix)
      [] OTHER -> FALSE

GetLoopbackIP(family) ==
    CASE family = "INET" -> V4(127, 0, 0, 1)
      [] family = "INET6" -> in6addr_loopback
      [] OTHER -> Unspecified
GetAnyIP(family) ==
    CASE family = "INET" -> V4(0, 0, 0, 0)
      [] family = "INET6" -> in6addr_any
      [] OTHER -> Unspecified

IPAddressPrecedence(ip) ==
    CASE ip.family = "UNSPEC" -> 0
      [] ip.family = "INET" -> 30
      [] OTHER ->
        IF IPIsLoopback(ip) THEN 60
        ELSE IF IPIsULA(ip) THEN 50
        ELSE IF IPIsV4Mapped(ip) THEN 30
        ELSE IF IPIs6To4(ip) THEN 20
        ELSE IF IPIsTeredo(ip) THEN 10
        ELSE IF IPIsV4Compatibility(ip) \/ IPIsSiteLocal(ip) \/ IPIs6Bone(ip) THEN 1
        ELSE 40

-----------------------------------------------------------------------------
\* Version 4 inside version 6, and back.
asIPv6Address(ip) ==
    IF ip.family # "INET" THEN ip
    ELSE Ip("INET6", First(kV4MappedPrefix.u, 96) \o First(ip.u, 32))
normalized(ip) ==
    IF ip.family = "INET6" /\ IPIsV4Mapped(ip)
    THEN Ip("INET", SubSeq(ip.u, 97, 128)) ELSE ip

\* 0xFFFFFFFF << n, cut to 32 bits.
Mask(n) == Same(1, 32 - n) \o Same(0, n)
And(s, t) == [i \in DOMAIN s |-> s[i] * t[i]]

TruncateIP(ip, length) ==
    LET position == length \div 32
        inner == 32 - (length - position * 32)
        Part(i) == IF i < position THEN Half(ip.u, 32 * i)
                   ELSE IF i = position THEN And(Half(ip.u, 32 * i), Mask(inner))
                   ELSE Same(0, 32)
    IN  CASE length < 0 -> Unspecified
          [] length >= 0 /\ ip.family = "INET" ->
                IF length > 31 THEN ip
                ELSE IF length = 0 THEN V4(0, 0, 0, 0)
                ELSE Ip("INET", And(First(ip.u, 32), Mask(32 - length)))
          [] length >= 0 /\ ip.family = "INET6" ->
                IF length > 127 THEN ip
                ELSE IF length = 0 THEN in6addr_any
                ELSE Ip("INET6", FlattenSeq([i \in 1..4 |-> Part(i - 1)]))
          [] OTHER -> Unspecified

\* The number of zeros below the lowest set bit of a word: the bit is isolated
\* and located by halves.
TrailingZeros(word) ==
    LET lowest == 32 - Max({i \in 1..32 : word[i] = 1})
        In(n) == IF lowest % (2 * n) < n THEN n ELSE 0      \* the masks 0x0000FFFF...
    IN  32 - 1 - In(16) - In(8) - In(4) - In(2) - In(1)

CountIPMaskBits(ip) ==
    LET Partial == {i \in 0..3 : Half(ip.u, 32 * i) # Same(1, 32)}
        at == IF Partial = {} THEN 4 ELSE Min(Partial)
        word == CASE ip.family = "INET" -> First(ip.u, 32)
                  [] ip.family = "INET6" /\ at < 4 -> Half(ip.u, 32 * at)
                  [] OTHER -> Same(0, 32)
        bits == IF ip.family = "INET6" THEN 32 * at ELSE 0
    IN  IF word = Same(0, 32) THEN bits ELSE bits + (32 - TrailingZeros(word))

-----------------------------------------------------------------------------
V4Samples ==
    {V4(0, 0, 0, 0), V4(127, 0, 0, 1), V4(10, 1, 2, 3), V4(172, 16, 0, 1), V4(172, 31, 255, 9),
     V4(172, 32, 0, 1), V4(192, 168, 0, 1), V4(169, 254, 7, 7), V4(8, 8, 8, 8),
     V4(255, 255, 255, 255)}
V6Samples ==
    {in6addr_any, in6addr_loopback, kV4MappedPrefix, V6(<<32, 2, 1>>, <<9>>),
     V6(<<32, 1, 0, 0>>, <<9>>), V6(<<32, 1, 1>>, <<9>>), V6(<<63, 254>>, <<1>>),
     V6(<<253>>, <<1>>), V6(<<254, 128>>, <<1>>), V6(<<254, 192>>, <<1>>),
     V6(<<254, 129>>, <<2, 0, 0, 255, 254, 0, 0, 0>>), V6(<<>>, <<1, 2, 3, 4>>),
     V6([i \in 1..16 |-> 255], <<>>)}
Samples == V4Samples \cup V6Samples \cup {Unspecified}
Widths == {0, 1, 7, 8, 31, 32, 33, 63, 64, 65, 95, 96, 97, 127, 128}
AddressInputs == [ip : Samples, other : Samples, length : Widths]

Width(ip) == IF ip.family = "INET" THEN 32 ELSE 128
Kept(ip, n) == IF n > Width(ip) THEN Width(ip) ELSE n

\* A version 4 address survives being mapped, a prefix length survives being
\* made a mask.
AddressRoundTrips(d) ==
    LET ones == Ip(d.ip.family, Same(1, Width(d.ip)))
    IN  /\ d.ip.family = "INET" => Equal(normalized(asIPv6Address(d.ip)), d.ip)
        /\ d.ip.family # "UNSPEC" =>
            CountIPMaskBits(TruncateIP(ones, d.length)) = Kept(d.ip, d.length)

\* A truncated address is its first bits and zeros; the order is total and
\* agrees with equality, and equal addresses have the same hash; the classes
\* are the prefixes of the RFCs, the one of link-local addresses as far as it
\* goes, and the version 6 ones that have a precedence of their own exclude
\* one another.
AddressAgrees(d) ==
    LET ip == d.ip
        In(family, prefix, n) == ip.family = family /\ First(ip.u, n) = First(prefix.u, n)
        V4Class(n, a, b) == In("INET", V4(a, b, 0, 0), n)
        cut == TruncateIP(ip, d.length)
    IN  /\ ip.family # "UNSPEC" =>
            cut = Ip(ip.family, First(ip.u, Kept(ip, d.length)))
        /\ Cardinality({r \in {"<", "=", ">"} :
                CASE r = "<" -> LessThan(ip, d.other)
                  [] r = "=" -> Equal(ip, d.other)
                  [] r = ">" -> GreaterThan(ip, d.other)}) = 1
        /\ LessThan(ip, d.other) <=> GreaterThan(d.other, ip)
        /\ Equal(ip, d.other) => HashIP(ip) = HashIP(d.other)
        /\ ~(LessThan(cut, ip) /\ LessThan(ip, d.other)) \/ LessThan(cut, d.other)
        /\ ip.family = "INET" =>
            (IPIsPrivate(ip) <=>
                \/ V4Class(8, 10, 0) \/ V4Class(12, 172, 16) \/ V4Class(16, 192, 168)
                \/ V4Class(16, 169, 254) \/ V4Class(8, 127, 0))
        /\ ip.family # "UNSPEC" =>
            /\ IPIsLoopback(GetLoopbackIP(ip.family)) /\ IPIsPrivate(GetLoopbackIP(ip.family))
            /\ IPIsAny(GetAnyIP(ip.family)) /\ ~IPIsPrivate(GetAnyIP(ip.family))
        /\ ip.family = "INET6" =>
            /\ IPIsSiteLocal(ip) <=> In("INET6", V6(<<254, 192>>, <<>>), 10)
            /\ IPIsULA(ip) <=> In("INET6", V6(<<252>>, <<>>), 7)
            /\ IPIsLinkLocal(ip) => In("INET6", V6(<<254, 128>>, <<>>), 10)
            /\ IPIsV4Mapped(ip) => IPAddressPrecedence(ip) = IPAddressPrecedence(normalized(ip))
            /\ Cardinality({c \in {<<1, IPIsULA(ip)>>, <<2, IPIs6To4(ip)>>, <<3, IPIsTeredo(ip)>>,
                                   <<4, IPIsSiteLocal(ip)>>, <<5, IPIs6Bone(ip)>>,
                                   <<6, IPIsV4Mapped(ip)>>} : c[2]}) <= 1
=============================================================================
