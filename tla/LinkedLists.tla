----------------------------- MODULE LinkedLists -----------------------------
(***************************************************************************)
(* The two components that thread memory into doubly linked lists,         *)
(* BufferQueue and MemoryPool, side by side: what holds of their lists for *)
(* any finite memory, any pieces of data and any pools, and that           *)
(* BufferQueue is the double-ended queue of ByteDeque.                     *)
(***************************************************************************)
EXTENDS Naturals, Sequences, FiniteSets, SequenceTheorems, FiniteSetTheorems, TLAPS

CONSTANTS
    Address, Piece, MaxBytes,   \* of BufferQueue
    Pool, Block, SourceShared,  \* of MemoryPool
    Null

VARIABLES
    first_element, last_element, element_num, total_data_size, prev, next, data, op, out,
    data_element, free_element, pre, follow, source, seen, lent, returned, gone

Q == INSTANCE BufferQueue
M == INSTANCE MemoryPool WITH next <- follow

\* Stated in BufferQueue.tla and in MemoryPool.tla.
LinksHold == Q!WellLinked /\ M!ListsHoldBlocks

\* Stated in BufferQueue.tla.
ActsAsDeque == Q!ActsAsDeque
-----------------------------------------------------------------------------
(* A list of the elements c, in this order, whose first is f: next and pr   *)
(* are its links.                                                           *)

Elements(c) == {c[i] : i \in DOMAIN c}

Listed(S, f, nx, pr, c) ==
    /\ c \in Seq(S)
    /\ \A i, j \in DOMAIN c : c[i] = c[j] => i = j
    /\ f = IF c = <<>> THEN Null ELSE c[1]
    /\ \A i \in DOMAIN c : nx[c[i]] = IF i = Len(c) THEN Null ELSE c[i + 1]
    /\ \A i \in DOMAIN c : pr[c[i]] = IF i = 1 THEN Null ELSE c[i - 1]

\* The walks of Chain and of ChainFrom: h[n] has the first n + 1 elements.
IsWalk(h, f, nx, K) ==
    h = [n \in 0 .. K |->
            IF n = 0 THEN IF f = Null THEN <<>> ELSE <<f>>
            ELSE LET w == h[n - 1] IN
                 IF w = <<>> THEN w
                 ELSE IF nx[w[Len(w)]] = Null THEN w ELSE Append(w, nx[w[Len(w)]])]

Walk(f, nx, K) == (CHOOSE h : IsWalk(h, f, nx, K))[K]

\* The modules count as FiniteSets does.
LEMMA Counts ==
    /\ \A S : (Q!IsFiniteSet(S) <=> IsFiniteSet(S)) /\ Q!Cardinality(S) = Cardinality(S)
    /\ \A S : (M!IsFiniteSet(S) <=> IsFiniteSet(S)) /\ M!Cardinality(S) = Cardinality(S)
<1>1. \A S : (Q!IsFiniteSet(S) <=> IsFiniteSet(S)) /\ (M!IsFiniteSet(S) <=> IsFiniteSet(S))
  BY DEF Q!IsFiniteSet, M!IsFiniteSet, IsFiniteSet
<1>2. \A S : Q!Cardinality(S) = Cardinality(S) /\ M!Cardinality(S) = Cardinality(S)
  BY DEF Q!Cardinality, M!Cardinality, Cardinality
<1>3. QED
  BY <1>1, <1>2

LEMMA LeastNumber ==
    ASSUME NEW S \in SUBSET Nat, S # {} PROVE \E m \in S : \A n \in S : m <= n
<1>1. PICK m \in S : \A n \in S : ~ (<<n, m>> \in OpToRel(<, Nat))
  BY WFMin, NatLessThanWellFounded
<1>2. \A n \in S : ~ (n < m)
  BY <1>1 DEF OpToRel
<1>3. QED
  BY <1>2

\* The elements of a list are as many as its length, and no more than there are.
LEMMA ListCount ==
    ASSUME NEW S, IsFiniteSet(S), NEW f, NEW nx, NEW pr, NEW c, Listed(S, f, nx, pr, c)
    PROVE  /\ Cardinality(Elements(c)) = Len(c) /\ Len(c) \in Nat
           /\ Cardinality(S) \in Nat /\ Len(c) <= Cardinality(S)
<1> DEFINE g == [i \in 1 .. Len(c) |-> c[i]]
<1>1. /\ Len(c) \in Nat /\ DOMAIN c = 1 .. Len(c)
      /\ \A i, j \in 1 .. Len(c) : c[i] = c[j] => i = j
  BY LenProperties DEF Listed
<1>2. IsFiniteSet(1 .. Len(c)) /\ Cardinality(1 .. Len(c)) = Len(c)
  BY <1>1, FS_Interval
<1>3. g \in Bijection(1 .. Len(c), Elements(c))
  BY <1>1 DEF Elements, Bijection, Injection, Surjection, IsInjective
<1>4. ExistsBijection(1 .. Len(c), Elements(c))
  BY <1>3 DEF ExistsBijection
<1>5. Cardinality(Elements(c)) = Len(c)
  BY <1>2, <1>4, FS_Bijection
<1>6. Elements(c) \subseteq S
  BY ElementOfSeq DEF Listed, Elements
<1>7. Cardinality(Elements(c)) <= Cardinality(S) /\ Cardinality(S) \in Nat
  BY <1>6, FS_Subset, FS_CardinalityType
<1>8. QED
  BY <1>1, <1>5, <1>7

\* Only one function walks.
LEMMA WalkUnique ==
    ASSUME NEW K \in Nat, NEW f, NEW nx, NEW g, NEW h, IsWalk(g, f, nx, K), IsWalk(h, f, nx, K)
    PROVE  g = h
<1> DEFINE after(w) == IF w = <<>> THEN w
                       ELSE IF nx[w[Len(w)]] = Null THEN w ELSE Append(w, nx[w[Len(w)]])
           start == IF f = Null THEN <<>> ELSE <<f>>
           Bad == {k \in 0 .. K : g[k] # h[k]}
<1>1. /\ g = [n \in 0 .. K |-> IF n = 0 THEN start ELSE after(g[n - 1])]
      /\ h = [n \in 0 .. K |-> IF n = 0 THEN start ELSE after(h[n - 1])]
  BY DEF IsWalk
<1> HIDE DEF after, start
<1>2. /\ \A n \in 0 .. K : g[n] = IF n = 0 THEN start ELSE after(g[n - 1])
      /\ \A n \in 0 .. K : h[n] = IF n = 0 THEN start ELSE after(h[n - 1])
  BY <1>1
<1>3. ASSUME Bad # {} PROVE FALSE
  <2>1. Bad \in SUBSET Nat
    OBVIOUS
  <2> HIDE DEF Bad
  <2>2. PICK k \in Bad : \A j \in Bad : k <= j
    BY <1>3, <2>1, LeastNumber
  <2> USE DEF Bad
  <2>3. k \in 0 .. K /\ g[k] # h[k]
    BY <2>2
  <2>4. k # 0
    BY <1>2, <2>3
  <2>5. k - 1 \in 0 .. K /\ ~(k <= k - 1)
    BY <2>3, <2>4
  <2>6. g[k - 1] = h[k - 1]
    BY <2>2, <2>5
  <2>7. QED
    BY <1>2, <2>3, <2>4, <2>6
<1>4. \A k \in 0 .. K : g[k] = h[k]
  BY <1>3
<1>5. g = [n \in 0 .. K |-> g[n]] /\ h = [n \in 0 .. K |-> h[n]]
  BY <1>1
<1>6. QED
  BY <1>4, <1>5

\* A walk along a list finds its elements, in order.
LEMMA WalkOfList ==
    ASSUME NEW S, IsFiniteSet(S), Null \notin S,
           NEW f, NEW nx, NEW pr, NEW c, Listed(S, f, nx, pr, c)
    PROVE  Walk(f, nx, Cardinality(S)) = c
<1> DEFINE K == Cardinality(S)
           upto(n) == IF n < Len(c) THEN n + 1 ELSE Len(c)
           g == [n \in 0 .. K |-> SubSeq(c, 1, upto(n))]
           after(w) == IF w = <<>> THEN w
                       ELSE IF nx[w[Len(w)]] = Null THEN w ELSE Append(w, nx[w[Len(w)]])
           start == IF f = Null THEN <<>> ELSE <<f>>
<1>1. /\ Len(c) \in Nat /\ K \in Nat /\ Len(c) <= K /\ c \in Seq(S) /\ DOMAIN c = 1 .. Len(c)
      /\ \A i \in 1 .. Len(c) : c[i] \in S
  BY ListCount, LenProperties, ElementOfSeq DEF Listed
<1>2. \A n \in 0 .. K : upto(n) \in 0 .. Len(c)
  BY <1>1
<1>3. \A n \in 0 .. K : /\ SubSeq(c, 1, upto(n)) \in Seq(S)
                        /\ Len(SubSeq(c, 1, upto(n))) = upto(n)
                        /\ \A i \in 1 .. upto(n) : SubSeq(c, 1, upto(n))[i] = c[i]
  <2>1. ASSUME NEW m \in 0 .. Len(c)
        PROVE  /\ SubSeq(c, 1, m) \in Seq(S) /\ Len(SubSeq(c, 1, m)) = m
               /\ \A i \in 1 .. m : SubSeq(c, 1, m)[i] = c[i]
    <3>1. \A i \in 1 .. m : c[i] \in S
      BY <1>1
    <3>2. 1 \in Int /\ m \in Int /\ (IF 1 <= m THEN m - 1 + 1 ELSE 0) = m
      BY <1>1
    <3>3. QED
      BY <1>1, <3>1, <3>2
  <2>2. QED
    BY <1>2, <2>1
<1> HIDE DEF K, after, start
<1>4. g[0] = start
  <2>1. 0 \in 0 .. K
    BY <1>1
  <2>2. CASE c = <<>>
    <3>1. Len(c) = 0 /\ upto(0) = 0 /\ f = Null
      BY <2>2 DEF Listed
    <3>2. Len(g[0]) = 0 /\ g[0] \in Seq(S)
      BY <1>3, <2>1, <3>1
    <3>3. QED
      BY <3>1, <3>2, EmptySeq DEF start
  <2>3. CASE c # <<>>
    <3>1. Len(c) # 0
      BY <1>1, <2>3, EmptySeq
    <3>2. upto(0) = 1 /\ f = c[1] /\ c[1] \in S
      BY <1>1, <2>3, <3>1 DEF Listed
    <3>3. g[0] \in Seq(S) /\ Len(g[0]) = 1 /\ g[0][1] = c[1]
      BY <1>3, <2>1, <3>2
    <3>4. f # Null
      BY <3>2
    <3>5. g[0] = <<f>>
      <4>1. <<f>> \in Seq(S) /\ Len(<<f>>) = 1 /\ <<f>>[1] = f
        BY <3>2
      <4>2. \A i \in 1 .. Len(g[0]) : g[0][i] = <<f>>[i]
        <5>1. \A i \in 1 .. 1 : i = 1
          OBVIOUS
        <5>2. QED
          BY <3>2, <3>3, <4>1, <5>1
      <4>3. QED
        BY <3>3, <4>1, <4>2, SeqEqual
    <3>6. QED
      BY <3>4, <3>5 DEF start
  <2>4. QED
    BY <2>2, <2>3
<1>5. ASSUME NEW n \in 0 .. K, n # 0 PROVE g[n] = after(g[n - 1])
  <2> DEFINE w == g[n - 1]
             m == upto(n - 1)
  <2>1. n - 1 \in 0 .. K /\ n - 1 \in Nat
    BY <1>1, <1>5
  <2>2. /\ w \in Seq(S) /\ Len(w) = m /\ m \in 0 .. Len(c)
        /\ \A i \in 1 .. m : w[i] = c[i]
    BY <1>2, <1>3, <2>1
  <2>3. /\ g[n] \in Seq(S) /\ Len(g[n]) = upto(n) /\ upto(n) \in 0 .. Len(c)
        /\ \A i \in 1 .. upto(n) : g[n][i] = c[i]
    BY <1>2, <1>3
  <2>4. m # 0 => nx[w[m]] = IF m = Len(c) THEN Null ELSE c[m + 1]
    <3>1. ASSUME m # 0 PROVE m \in 1 .. Len(c) /\ w[m] = c[m]
      BY <1>1, <2>2, <3>1
    <3>2. QED
      BY <1>1, <3>1 DEF Listed
  <2>5. upto(n) = IF m # 0 /\ m < Len(c) THEN m + 1 ELSE m
    BY <1>1, <2>1, <1>5
  <2> HIDE DEF m, w, g
  <2>6. CASE m = 0
    <3>1. w = <<>> /\ g[n] = <<>>
      BY <2>2, <2>3, <2>5, <2>6, EmptySeq
    <3>2. QED
      BY <3>1 DEF after, w
  <2>7. CASE m # 0 /\ m = Len(c)
    <3>1. w # <<>> /\ nx[w[Len(w)]] = Null
      BY <2>2, <2>4, <2>7, EmptySeq
    <3>2. g[n] = w
      <4>1. Len(g[n]) = Len(w) /\ \A i \in 1 .. Len(w) : g[n][i] = w[i]
        BY <2>2, <2>3, <2>5, <2>7
      <4>2. QED
        BY <2>2, <2>3, <4>1, SeqEqual
    <3>3. QED
      BY <3>1, <3>2 DEF after, w
  <2>8. CASE m # 0 /\ m # Len(c)
    <3>0. w # <<>>
      BY <2>2, <2>8, EmptySeq
    <3>1. w # <<>> /\ m < Len(c) /\ m + 1 \in 1 .. Len(c) /\ upto(n) = m + 1
      <4>1. m < Len(c)
        <5>1. m \in 0 .. Len(c) /\ m # Len(c)
          BY <2>2, <2>8
        <5>2. Len(c) \in Nat
          BY <1>1
        <5>3. QED
          BY <5>1, <5>2
      <4>2. m + 1 \in 1 .. Len(c)
        BY <1>1, <2>2, <4>1
      <4>3. upto(n) = m + 1
        BY <2>5, <2>8, <4>1
      <4>4. QED
        BY <3>0, <4>1, <4>2, <4>3
    <3>2. nx[w[Len(w)]] = c[m + 1] /\ c[m + 1] \in S
      BY <1>1, <2>2, <2>4, <2>8, <3>1
    <3>3. /\ Append(w, c[m + 1]) \in Seq(S) /\ Len(Append(w, c[m + 1])) = m + 1
          /\ \A i \in 1 .. m : Append(w, c[m + 1])[i] = c[i]
          /\ Append(w, c[m + 1])[m + 1] = c[m + 1]
      BY <2>2, <3>2, AppendProperties
    <3>4. \A i \in 1 .. m + 1 : i \in 1 .. m \/ i = m + 1
      BY <2>2
    <3>5. \A i \in 1 .. m + 1 : Append(w, c[m + 1])[i] = g[n][i]
      BY <2>3, <3>1, <3>3, <3>4
    <3>6. Append(w, c[m + 1]) = g[n]
      BY <2>3, <3>1, <3>3, <3>5, SeqEqual
    <3>7. c[m + 1] # Null
      BY <3>2
    <3>8. QED
      BY <3>1, <3>2, <3>6, <3>7 DEF after, w
  <2>9. QED
    BY <2>6, <2>7, <2>8
<1>6. g = [n \in 0 .. K |-> IF n = 0 THEN start ELSE after(g[n - 1])]
  BY <1>4, <1>5
<1>7. IsWalk(g, f, nx, K)
  BY <1>6 DEF IsWalk, start, after
<1> HIDE DEF g
<1>8. \A h : IsWalk(h, f, nx, K) => h = g
  BY <1>1, <1>7, WalkUnique
<1>9. Walk(f, nx, K) = g[K]
  <2>1. (CHOOSE h : IsWalk(h, f, nx, K)) = g
    BY <1>7, <1>8
  <2>2. QED
    BY <2>1 DEF Walk
<1>10. g[K] = c
  <2>1. K \in 0 .. K /\ upto(K) = Len(c)
    <3>1. \A m, k \in Nat : k <= m => m \in 0 .. m /\ (IF m < k THEN m + 1 ELSE k) = k
      OBVIOUS
    <3>2. QED
      BY <1>1, <3>1 DEF K
  <2>2. g[K] \in Seq(S) /\ Len(g[K]) = Len(c) /\ \A i \in 1 .. Len(c) : g[K][i] = c[i]
    BY <1>3, <2>1 DEF g
  <2>3. QED
    BY <1>1, <2>2, SeqEqual
<1>11. QED
  BY <1>9, <1>10 DEF K
-----------------------------------------------------------------------------
(* What the operations do to a list. *)

LastOf(c) == IF c = <<>> THEN Null ELSE c[Len(c)]

Without(c, k) == [i \in 1 .. Len(c) - 1 |-> IF i < k THEN c[i] ELSE c[i + 1]]

LEMMA EmptyListed == ASSUME NEW S, NEW nx, NEW pr PROVE Listed(S, Null, nx, pr, <<>>)
BY EmptySeq DEF Listed

LEMMA ListedParts ==
    ASSUME NEW S, NEW f, NEW nx, NEW pr, NEW c, Listed(S, f, nx, pr, c), Null \notin S
    PROVE  /\ c \in Seq(S) /\ Len(c) \in Nat /\ DOMAIN c = 1 .. Len(c)
           /\ \A i \in 1 .. Len(c) : c[i] \in S /\ c[i] # Null /\ c[i] \in Elements(c)
           /\ c = <<>> <=> Len(c) = 0
           /\ c = <<>> <=> f = Null
           /\ Elements(c) \subseteq S
<1>1. /\ c \in Seq(S) /\ Len(c) \in Nat /\ DOMAIN c = 1 .. Len(c)
      /\ \A i \in 1 .. Len(c) : c[i] \in S
  BY LenProperties, ElementOfSeq DEF Listed
<1>2. c = <<>> <=> Len(c) = 0
  BY <1>1, EmptySeq
<1>3. c # <<>> => 1 \in 1 .. Len(c)
  BY <1>1, <1>2
<1>4. c = <<>> <=> f = Null
  BY <1>1, <1>3 DEF Listed
<1>5. Elements(c) \subseteq S /\ \A i \in 1 .. Len(c) : c[i] # Null /\ c[i] \in Elements(c)
  BY <1>1 DEF Elements
<1>6. QED
  BY <1>1, <1>2, <1>4, <1>5

\* What happens to the links of others leaves a list alone.
LEMMA ListedKept ==
    ASSUME NEW S, NEW f, NEW nx, NEW pr, NEW c, Listed(S, f, nx, pr, c), NEW nx2, NEW pr2,
           \A x \in Elements(c) : nx2[x] = nx[x] /\ pr2[x] = pr[x]
    PROVE  Listed(S, f, nx2, pr2, c)
<1>1. \A i \in DOMAIN c : nx2[c[i]] = nx[c[i]] /\ pr2[c[i]] = pr[c[i]]
  BY DEF Elements
<1>2. QED
  BY <1>1 DEF Listed

LEMMA ConsParts ==
    ASSUME NEW S, NEW s \in Seq(S), NEW x \in S
    PROVE  /\ <<x>> \o s \in Seq(S) /\ Len(<<x>> \o s) = Len(s) + 1
           /\ \A i \in 1 .. Len(s) + 1 : (<<x>> \o s)[i] = IF i = 1 THEN x ELSE s[i - 1]
<1> DEFINE n == Len(s)
           r == <<x>> \o s
<1>1. n \in Nat
  BY LenProperties
<1>2. <<x>> \in Seq(S) /\ Len(<<x>>) = 1 /\ <<x>>[1] = x
  OBVIOUS
<1>3. r \in Seq(S) /\ Len(r) = 1 + n
      /\ \A i \in 1 .. 1 + n : r[i] = IF i <= 1 THEN <<x>>[i] ELSE s[i - 1]
  BY <1>2, ConcatProperties
<1>4. n + 1 = 1 + n /\ \A i \in 1 .. 1 + n : i <= 1 <=> i = 1
  BY <1>1
<1>5. QED
  BY <1>2, <1>3, <1>4

LEMMA PutFirst ==
    ASSUME NEW S, Null \notin S, NEW f, NEW nx, NEW pr, NEW c, Listed(S, f, nx, pr, c),
           NEW a \in S, a \notin Elements(c), NEW nx2, NEW pr2,
           nx2[a] = f, pr2[a] = Null,
           \A x \in Elements(c) : nx2[x] = nx[x] /\ pr2[x] = IF x = f THEN a ELSE pr[x]
    PROVE  /\ Listed(S, a, nx2, pr2, <<a>> \o c)
           /\ Elements(<<a>> \o c) = {a} \cup Elements(c)
<1> DEFINE n == Len(c)
           r == <<a>> \o c
<1>1. /\ c \in Seq(S) /\ n \in Nat /\ DOMAIN c = 1 .. n
      /\ \A i \in 1 .. n : c[i] \in S /\ c[i] # Null /\ c[i] \in Elements(c)
      /\ c = <<>> <=> n = 0
  BY ListedParts
<1>2. /\ r \in Seq(S) /\ Len(r) = n + 1 /\ DOMAIN r = 1 .. n + 1
      /\ r[1] = a /\ \A i \in 1 .. n : r[i + 1] = c[i]
  <2>1. /\ r \in Seq(S) /\ Len(r) = n + 1
        /\ \A i \in 1 .. n + 1 : r[i] = IF i = 1 THEN a ELSE c[i - 1]
    BY <1>1, ConsParts
  <2>2. 1 \in 1 .. n + 1 /\ \A i \in 1 .. n : i + 1 \in 1 .. n + 1 /\ i + 1 # 1 /\ (i + 1) - 1 = i
    BY <1>1
  <2>3. DOMAIN r = 1 .. n + 1
    BY <2>1, LenProperties
  <2>4. r[1] = a
    BY <2>1, <2>2
  <2>5. \A i \in 1 .. n : r[i + 1] = c[i]
    BY <2>1, <2>2
  <2>6. QED
    BY <2>1, <2>3, <2>4, <2>5
<1> HIDE DEF r, n
<1>3. \A i \in 1 .. n + 1 : i = 1 \/ \E j \in 1 .. n : i = j + 1
  <2>1. ASSUME NEW i \in 1 .. n + 1, i # 1 PROVE i - 1 \in 1 .. n /\ i = (i - 1) + 1
    BY <1>1, <2>1
  <2>2. QED
    BY <2>1
<1>4. ASSUME NEW i \in 1 .. n + 1, NEW j \in 1 .. n + 1, r[i] = r[j] PROVE i = j
  <2>1. ASSUME NEW k \in 1 .. n PROVE r[k + 1] # a
    <3>1. r[k + 1] = c[k]
      BY <1>2
    <3>2. c[k] \in Elements(c)
      BY <1>1
    <3>3. QED
      BY <3>1, <3>2
  <2>2. \A k, l \in 1 .. n : r[k + 1] = r[l + 1] => k = l
    <3>1. \A k, l \in 1 .. n : c[k] = c[l] => k = l
      BY <1>1 DEF Listed
    <3>2. QED
      BY <1>2, <3>1
  <2>3. QED
    BY <1>2, <1>3, <1>4, <2>1, <2>2
<1>5. f = IF n = 0 THEN Null ELSE r[2]
  <2>1. CASE n = 0
    BY <1>1, <2>1 DEF Listed
  <2>2. CASE n # 0
    <3>1. 1 \in 1 .. n /\ 1 + 1 = 2
      BY <1>1, <2>2
    <3>2. r[2] = c[1]
      BY <1>2, <3>1
    <3>3. QED
      BY <1>1, <2>2, <3>2 DEF Listed
  <2>3. QED
    BY <2>1, <2>2
<1>6. ASSUME NEW i \in 1 .. n
      PROVE  /\ nx2[r[i + 1]] = IF i = n THEN Null ELSE r[i + 2]
             /\ pr2[r[i + 1]] = r[i]
  <2>1. r[i + 1] = c[i] /\ c[i] \in Elements(c)
    BY <1>1, <1>2
  <2>2. nx[c[i]] = (IF i = n THEN Null ELSE c[i + 1]) /\ pr[c[i]] = IF i = 1 THEN Null ELSE c[i - 1]
    BY <1>1 DEF Listed, n
  <2>3. i # n => i + 1 \in 1 .. n /\ i + 2 = (i + 1) + 1
    BY <1>1
  <2>4. i # n => r[i + 2] = c[i + 1]
    BY <1>2, <2>3
  <2>5. nx2[r[i + 1]] = IF i = n THEN Null ELSE r[i + 2]
    BY <2>1, <2>2, <2>4
  <2>6. CASE i = 1
    <3>1. c[i] = f
      BY <1>1, <2>6 DEF Listed
    <3>2. QED
      BY <1>2, <2>1, <2>5, <2>6, <3>1
  <2>7. CASE i # 1
    <3>1. 1 \in 1 .. n /\ i - 1 \in 1 .. n /\ (i - 1) + 1 = i /\ n # 0
      BY <1>1, <2>7
    <3>2. f = c[1]
      BY <1>1, <3>1 DEF Listed
    <3>3. c[i] # f
      BY <1>1, <2>7, <3>1, <3>2 DEF Listed
    <3>4. r[i] = c[i - 1]
      BY <1>2, <3>1
    <3>5. QED
      BY <2>1, <2>2, <2>5, <2>7, <3>3, <3>4
  <2>8. QED
    BY <2>6, <2>7
<1>7. \A i \in DOMAIN r : nx2[r[i]] = IF i = Len(r) THEN Null ELSE r[i + 1]
  <2>1. nx2[r[1]] = IF 1 = n + 1 THEN Null ELSE r[1 + 1]
    <3>1. (1 = n + 1) <=> n = 0
      BY <1>1
    <3>2. 1 + 1 = 2
      OBVIOUS
    <3>3. QED
      BY <1>2, <1>5, <3>1, <3>2
  <2>2. ASSUME NEW i \in 1 .. n
        PROVE  nx2[r[i + 1]] = IF i + 1 = n + 1 THEN Null ELSE r[(i + 1) + 1]
    <3>1. (i + 1 = n + 1 <=> i = n) /\ (i + 1) + 1 = i + 2
      BY <1>1
    <3>2. QED
      BY <1>6, <3>1
  <2>3. QED
    BY <1>2, <1>3, <2>1, <2>2
<1>8. \A i \in DOMAIN r : pr2[r[i]] = IF i = 1 THEN Null ELSE r[i - 1]
  <2>1. ASSUME NEW i \in 1 .. n PROVE pr2[r[i + 1]] = r[(i + 1) - 1] /\ i + 1 # 1
    <3>1. (i + 1) - 1 = i /\ i + 1 # 1
      BY <1>1
    <3>2. QED
      BY <1>6, <3>1
  <2>2. QED
    BY <1>2, <1>3, <2>1
<1>9. r # <<>>
  BY <1>1, <1>2, EmptySeq
<1>10. Elements(r) = {a} \cup Elements(c)
  <2>1. \A i \in 1 .. n : i + 1 \in 1 .. n + 1
    BY <1>1
  <2>2. 1 \in 1 .. n + 1
    BY <1>1
  <2>3. Elements(r) = {r[i] : i \in 1 .. n + 1} /\ Elements(c) = {c[i] : i \in 1 .. n}
    BY <1>1, <1>2 DEF Elements
  <2>4. ASSUME NEW x \in Elements(r) PROVE x = a \/ x \in Elements(c)
    <3>1. PICK i \in 1 .. n + 1 : x = r[i]
      BY <2>3
    <3>2. CASE i = 1
      BY <1>2, <3>1, <3>2
    <3>3. ASSUME NEW j \in 1 .. n, i = j + 1 PROVE x \in Elements(c)
      BY <1>1, <1>2, <3>1, <3>3
    <3>4. QED
      BY <1>3, <3>2, <3>3
  <2>5. ASSUME NEW x \in Elements(c) PROVE x \in Elements(r)
    <3>1. PICK i \in 1 .. n : x = c[i]
      BY <2>3
    <3>2. QED
      BY <1>2, <2>1, <2>3, <3>1
  <2>6. a \in Elements(r)
    BY <1>2, <2>2, <2>3
  <2>7. QED
    BY <2>4, <2>5, <2>6
<1>11. Listed(S, a, nx2, pr2, r)
  <2>1. \A i, j \in DOMAIN r : r[i] = r[j] => i = j
    BY <1>2, <1>4
  <2>2. QED
    BY <1>2, <1>7, <1>8, <1>9, <2>1 DEF Listed
<1>12. QED
  BY <1>10, <1>11 DEF r

LEMMA PutLast ==
    ASSUME NEW S, Null \notin S, NEW f, NEW nx, NEW pr, NEW c, Listed(S, f, nx, pr, c),
           NEW a \in S, a \notin Elements(c), NEW nx2, NEW pr2,
           nx2[a] = Null, pr2[a] = LastOf(c),
           \A x \in Elements(c) : pr2[x] = pr[x] /\ nx2[x] = IF x = LastOf(c) THEN a ELSE nx[x]
    PROVE  /\ Listed(S, IF f = Null THEN a ELSE f, nx2, pr2, Append(c, a))
           /\ Elements(Append(c, a)) = {a} \cup Elements(c)
<1> DEFINE n == Len(c)
           r == Append(c, a)
<1>1. /\ c \in Seq(S) /\ n \in Nat /\ DOMAIN c = 1 .. n
      /\ \A i \in 1 .. n : c[i] \in S /\ c[i] # Null /\ c[i] \in Elements(c)
      /\ c = <<>> <=> n = 0
      /\ c = <<>> <=> f = Null
  BY ListedParts
<1>2. /\ r \in Seq(S) /\ Len(r) = n + 1 /\ DOMAIN r = 1 .. n + 1
      /\ r[n + 1] = a /\ \A i \in 1 .. n : r[i] = c[i]
  BY <1>1, AppendProperties, LenProperties
<1> HIDE DEF r, n
<1>3. /\ \A i \in 1 .. n + 1 : i \in 1 .. n \/ i = n + 1
      /\ \A i \in 1 .. n : i \in 1 .. n + 1 /\ i # n + 1
      /\ n + 1 \in 1 .. n + 1
  BY <1>1
<1>4. ASSUME NEW i \in 1 .. n + 1, NEW j \in 1 .. n + 1, r[i] = r[j] PROVE i = j
  <2>1. \A k \in 1 .. n : r[k] # a
    BY <1>1, <1>2
  <2>2. \A k, l \in 1 .. n : r[k] = r[l] => k = l
    <3>1. \A k, l \in 1 .. n : c[k] = c[l] => k = l
      BY <1>1 DEF Listed
    <3>2. QED
      BY <1>2, <3>1
  <2>3. QED
    BY <1>2, <1>3, <1>4, <2>1, <2>2
<1>5. (IF f = Null THEN a ELSE f) = r[1] /\ r # <<>>
  <2>1. r # <<>>
    BY <1>1, <1>2, EmptySeq
  <2>2. CASE n = 0
    BY <1>1, <1>2, <2>1, <2>2
  <2>3. CASE n # 0
    <3>1. 1 \in 1 .. n /\ c # <<>>
      BY <1>1, <2>3
    <3>2. f = c[1]
      BY <3>1 DEF Listed
    <3>3. QED
      BY <1>1, <1>2, <2>1, <3>1, <3>2
  <2>4. QED
    BY <2>2, <2>3
<1>6. LastOf(c) = IF n = 0 THEN Null ELSE c[n]
  BY <1>1 DEF LastOf, n
<1>7. \A i \in DOMAIN r : nx2[r[i]] = IF i = Len(r) THEN Null ELSE r[i + 1]
  <2>1. ASSUME NEW i \in 1 .. n PROVE nx2[r[i]] = r[i + 1]
    <3>1. r[i] = c[i] /\ c[i] \in Elements(c)
      BY <1>1, <1>2
    <3>2. nx[c[i]] = IF i = n THEN Null ELSE c[i + 1]
      BY <1>1 DEF Listed, n
    <3>3. CASE i = n
      <4>1. n # 0
        BY <1>1, <3>3
      <4>2. c[i] = LastOf(c)
        BY <1>6, <3>3, <4>1
      <4>3. QED
        BY <1>2, <3>1, <3>3, <4>2
    <3>4. CASE i # n
      <4>1. i + 1 \in 1 .. n /\ n \in 1 .. n /\ n # 0
        BY <1>1, <3>4
      <4>2. c[i] # LastOf(c)
        BY <1>1, <1>6, <3>4, <4>1 DEF Listed
      <4>3. r[i + 1] = c[i + 1]
        BY <1>2, <4>1
      <4>4. QED
        BY <3>1, <3>2, <3>4, <4>2, <4>3
    <3>5. QED
      BY <3>3, <3>4
  <2>2. QED
    BY <1>2, <1>3, <2>1
<1>8. \A i \in DOMAIN r : pr2[r[i]] = IF i = 1 THEN Null ELSE r[i - 1]
  <2>1. ASSUME NEW i \in 1 .. n PROVE pr2[r[i]] = IF i = 1 THEN Null ELSE r[i - 1]
    <3>1. r[i] = c[i] /\ c[i] \in Elements(c)
      BY <1>1, <1>2
    <3>2. pr[c[i]] = IF i = 1 THEN Null ELSE c[i - 1]
      BY <1>1 DEF Listed
    <3>3. i # 1 => r[i - 1] = c[i - 1]
      <4>1. i # 1 => i - 1 \in 1 .. n
        BY <1>1
      <4>2. QED
        BY <1>2, <4>1
    <3>4. QED
      BY <3>1, <3>2, <3>3
  <2>2. pr2[r[n + 1]] = IF n + 1 = 1 THEN Null ELSE r[(n + 1) - 1]
    <3>1. (n + 1 = 1 <=> n = 0) /\ (n + 1) - 1 = n /\ (n # 0 => n \in 1 .. n)
      BY <1>1
    <3>2. QED
      BY <1>2, <1>6, <3>1
  <2>3. QED
    BY <1>2, <1>3, <2>1, <2>2
<1>9. Elements(r) = {a} \cup Elements(c)
  <2>1. Elements(r) = {r[i] : i \in 1 .. n + 1} /\ Elements(c) = {c[i] : i \in 1 .. n}
    BY <1>1, <1>2 DEF Elements
  <2>2. ASSUME NEW x \in Elements(r) PROVE x = a \/ x \in Elements(c)
    <3>1. PICK i \in 1 .. n + 1 : x = r[i]
      BY <2>1
    <3>2. QED
      BY <1>2, <1>3, <2>1, <3>1
  <2>3. ASSUME NEW x \in Elements(c) PROVE x \in Elements(r)
    <3>1. PICK i \in 1 .. n : x = c[i]
      BY <2>1
    <3>2. QED
      BY <1>2, <1>3, <2>1, <3>1
  <2>4. a \in Elements(r)
    BY <1>2, <1>3, <2>1
  <2>5. QED
    BY <2>2, <2>3, <2>4
<1>10. Listed(S, IF f = Null THEN a ELSE f, nx2, pr2, r)
  <2>1. \A i, j \in DOMAIN r : r[i] = r[j] => i = j
    BY <1>2, <1>4
  <2>2. QED
    BY <1>2, <1>5, <1>7, <1>8, <2>1 DEF Listed
<1>11. QED
  BY <1>9, <1>10 DEF r

\* The element at place k is unlinked: its neighbours are linked to each other.
LEMMA Unlinked ==
    ASSUME NEW S, Null \notin S, NEW f, NEW nx, NEW pr, NEW c, Listed(S, f, nx, pr, c),
           NEW k \in DOMAIN c, NEW nx2, NEW pr2,
           \A x \in Elements(c) \ {c[k]} :
               /\ nx2[x] = IF x = pr[c[k]] THEN nx[c[k]] ELSE nx[x]
               /\ pr2[x] = IF x = nx[c[k]] THEN pr[c[k]] ELSE pr[x]
    PROVE  /\ Listed(S, IF pr[c[k]] = Null THEN nx[c[k]] ELSE f, nx2, pr2, Without(c, k))
           /\ Elements(Without(c, k)) = Elements(c) \ {c[k]}
           /\ Len(Without(c, k)) = Len(c) - 1
<1> DEFINE n == Len(c)
           r == Without(c, k)
           old(i) == IF i < k THEN i ELSE i + 1
<1>1. /\ c \in Seq(S) /\ n \in Nat /\ DOMAIN c = 1 .. n
      /\ \A i \in 1 .. n : c[i] \in S /\ c[i] # Null /\ c[i] \in Elements(c)
      /\ c = <<>> <=> n = 0
      /\ c = <<>> <=> f = Null
  BY ListedParts
<1>2. k \in 1 .. n
  BY <1>1
<1>3. \A i, j \in 1 .. n : c[i] = c[j] => i = j
  BY <1>1 DEF Listed
<1>4. \A i \in 1 .. n : /\ nx[c[i]] = IF i = n THEN Null ELSE c[i + 1]
                        /\ pr[c[i]] = IF i = 1 THEN Null ELSE c[i - 1]
  BY <1>1 DEF Listed, n
<1>5. f = c[1]
  BY <1>1, <1>2 DEF Listed
<1> HIDE DEF n
<1>6. \A i \in 1 .. n - 1 : old(i) \in 1 .. n /\ old(i) # k
  BY <1>1, <1>2
<1>7. \A i, j \in 1 .. n - 1 : old(i) = old(j) => i = j
  BY <1>1, <1>2
<1>8. \A i \in 1 .. n : i # k => \E j \in 1 .. n - 1 : i = old(j)
  <2>1. ASSUME NEW i \in 1 .. n, i < k PROVE i \in 1 .. n - 1 /\ old(i) = i
    BY <1>1, <1>2, <2>1
  <2>2. ASSUME NEW i \in 1 .. n, i > k PROVE i - 1 \in 1 .. n - 1 /\ old(i - 1) = i
    BY <1>1, <1>2, <2>2
  <2>3. \A i \in 1 .. n : i # k => i < k \/ i > k
    BY <1>1, <1>2
  <2>4. QED
    BY <2>1, <2>2, <2>3
<1>9. /\ r \in Seq(S) /\ Len(r) = n - 1 /\ n - 1 \in Nat /\ DOMAIN r = 1 .. n - 1
      /\ \A i \in 1 .. n - 1 : r[i] = c[old(i)]
  <2>1. n - 1 \in Nat
    BY <1>1, <1>2
  <2>2. r = [i \in 1 .. n - 1 |-> c[old(i)]]
    <3>1. \A i \in 1 .. n - 1 : c[old(i)] = IF i < k THEN c[i] ELSE c[i + 1]
      OBVIOUS
    <3>2. QED
      BY <3>1 DEF Without, n
  <2> HIDE DEF r, old
  <2>3. \A i \in 1 .. n - 1 : c[old(i)] \in S
    BY <1>1, <1>6
  <2>4. r \in [1 .. n - 1 -> S]
    BY <2>2, <2>3
  <2>5. r \in Seq(S) /\ Len(r) = n - 1
    BY <2>1, <2>4, SeqDef, LenProperties
  <2>6. QED
    BY <2>1, <2>2, <2>5
<1> HIDE DEF r
<1>10. \A i \in 1 .. n - 1 : /\ c[old(i)] \in Elements(c) \ {c[k]}
                             /\ c[old(i)] # pr[c[k]] <=> (k = 1 \/ old(i) # k - 1)
                             /\ c[old(i)] # nx[c[k]] <=> (k = n \/ old(i) # k + 1)
  <2> TAKE i \in 1 .. n - 1
  <2>1. old(i) \in 1 .. n /\ old(i) # k
    BY <1>6
  <2> HIDE DEF old
  <2>2. c[old(i)] \in Elements(c) \ {c[k]} /\ c[old(i)] # Null
    BY <1>1, <1>2, <1>3, <2>1
  <2>3. (k # 1 => k - 1 \in 1 .. n) /\ (k # n => k + 1 \in 1 .. n)
    BY <1>1, <1>2
  <2>4. c[old(i)] # pr[c[k]] <=> (k = 1 \/ old(i) # k - 1)
    BY <1>2, <1>3, <1>4, <2>1, <2>2, <2>3
  <2>5. c[old(i)] # nx[c[k]] <=> (k = n \/ old(i) # k + 1)
    BY <1>2, <1>3, <1>4, <2>1, <2>2, <2>3
  <2>6. QED
    BY <2>2, <2>4, <2>5
<1>11. ASSUME NEW i \in 1 .. n - 1
       PROVE  nx2[r[i]] = IF i = n - 1 THEN Null ELSE r[i + 1]
  <2>1. nx2[r[i]] = IF c[old(i)] = pr[c[k]] THEN nx[c[k]] ELSE nx[c[old(i)]]
    BY <1>9, <1>10
  <2>2. CASE k # 1 /\ old(i) = k - 1
    <3>1. nx2[r[i]] = IF k = n THEN Null ELSE c[k + 1]
      BY <1>2, <1>4, <1>10, <2>1, <2>2
    <3>2. i = k - 1 /\ (i = n - 1 <=> k = n) /\ (k # n => i + 1 \in 1 .. n - 1 /\ old(i + 1) = k + 1)
      BY <1>1, <1>2, <2>2
    <3>3. k # n => r[i + 1] = c[k + 1]
      BY <1>9, <3>2
    <3>4. QED
      BY <3>1, <3>2, <3>3
  <2>3. CASE ~(k # 1 /\ old(i) = k - 1)
    <3>1. nx2[r[i]] = IF old(i) = n THEN Null ELSE c[old(i) + 1]
      BY <1>4, <1>6, <1>10, <2>1, <2>3
    <3>2. (old(i) = n <=> i = n - 1) /\ (i # n - 1 => i + 1 \in 1 .. n - 1 /\ old(i + 1) = old(i) + 1)
      BY <1>1, <1>2, <2>3
    <3>3. i # n - 1 => r[i + 1] = c[old(i) + 1]
      BY <1>9, <3>2
    <3>4. QED
      BY <3>1, <3>2, <3>3
  <2>4. QED
    BY <2>2, <2>3
<1>12. ASSUME NEW i \in 1 .. n - 1
       PROVE  pr2[r[i]] = IF i = 1 THEN Null ELSE r[i - 1]
  <2>1. pr2[r[i]] = IF c[old(i)] = nx[c[k]] THEN pr[c[k]] ELSE pr[c[old(i)]]
    BY <1>9, <1>10
  <2>2. CASE k # n /\ old(i) = k + 1
    <3>1. pr2[r[i]] = IF k = 1 THEN Null ELSE c[k - 1]
      BY <1>2, <1>4, <1>10, <2>1, <2>2
    <3>2. i = k /\ (k # 1 => i - 1 \in 1 .. n - 1 /\ old(i - 1) = k - 1)
      BY <1>1, <1>2, <2>2
    <3>3. k # 1 => r[i - 1] = c[k - 1]
      BY <1>9, <3>2
    <3>4. QED
      BY <3>1, <3>2, <3>3
  <2>3. CASE ~(k # n /\ old(i) = k + 1)
    <3>1. pr2[r[i]] = IF old(i) = 1 THEN Null ELSE c[old(i) - 1]
      BY <1>4, <1>6, <1>10, <2>1, <2>3
    <3>2. (old(i) = 1 <=> i = 1) /\ (i # 1 => i - 1 \in 1 .. n - 1 /\ old(i - 1) = old(i) - 1)
      BY <1>1, <1>2, <2>3
    <3>3. i # 1 => r[i - 1] = c[old(i) - 1]
      BY <1>9, <3>2
    <3>4. QED
      BY <3>1, <3>2, <3>3
  <2>4. QED
    BY <2>2, <2>3
<1>13. (IF pr[c[k]] = Null THEN nx[c[k]] ELSE f) = IF r = <<>> THEN Null ELSE r[1]
  <2>1. r = <<>> <=> n = 1
    <3>1. r = <<>> <=> n - 1 = 0
      BY <1>9, EmptySeq
    <3>2. QED
      BY <1>1, <3>1
  <2>2. pr[c[k]] = Null <=> k = 1
    <3>1. k # 1 => k - 1 \in 1 .. n
      BY <1>1, <1>2
    <3>2. QED
      BY <1>1, <1>2, <1>4, <3>1
  <2>3. CASE k = 1
    <3>1. nx[c[k]] = IF 1 = n THEN Null ELSE c[1 + 1]
      BY <1>2, <1>4, <2>3
    <3>2. n # 1 => 1 \in 1 .. n - 1 /\ old(1) = 1 + 1
      BY <1>1, <1>2, <2>3
    <3>3. n # 1 => r[1] = c[1 + 1]
      BY <1>9, <3>2
    <3>4. QED
      BY <2>1, <2>2, <2>3, <3>1, <3>3
  <2>4. CASE k # 1
    <3>1. n # 1 /\ 1 \in 1 .. n - 1 /\ old(1) = 1
      BY <1>1, <1>2, <2>4
    <3>2. r[1] = c[1]
      BY <1>9, <3>1
    <3>3. QED
      BY <1>5, <2>1, <2>2, <2>4, <3>1, <3>2
  <2>5. QED
    BY <2>3, <2>4
<1>14. Elements(r) = Elements(c) \ {c[k]}
  <2>1. Elements(r) = {r[i] : i \in 1 .. n - 1} /\ Elements(c) = {c[i] : i \in 1 .. n}
    BY <1>1, <1>9 DEF Elements
  <2>2. ASSUME NEW x \in Elements(r) PROVE x \in Elements(c) \ {c[k]}
    <3>1. PICK i \in 1 .. n - 1 : x = r[i]
      BY <2>1
    <3>2. QED
      BY <1>9, <1>10, <3>1
  <2>3. ASSUME NEW x \in Elements(c) \ {c[k]} PROVE x \in Elements(r)
    <3>1. PICK i \in 1 .. n : x = c[i] /\ i # k
      BY <2>1
    <3>2. PICK j \in 1 .. n - 1 : i = old(j)
      BY <1>8, <3>1
    <3>3. QED
      BY <1>9, <2>1, <3>1, <3>2
  <2>4. QED
    BY <2>2, <2>3
<1>15. Listed(S, IF pr[c[k]] = Null THEN nx[c[k]] ELSE f, nx2, pr2, r)
  <2>1. \A i, j \in DOMAIN r : r[i] = r[j] => i = j
    BY <1>3, <1>6, <1>7, <1>9
  <2>2. QED
    BY <1>9, <1>11, <1>12, <1>13, <2>1 DEF Listed
<1>16. QED
  BY <1>9, <1>14, <1>15 DEF r, n
-----------------------------------------------------------------------------
(* MemoryPool.  Every list of a pool that is not destroyed holds a set of   *)
(* blocks, and no block is in two of them.                                  *)

Holds(f, B, nx, pr) == \E c \in Seq(Block) : Listed(Block, f, nx, pr, c) /\ Elements(c) = B

Apart ==
    /\ \A p \in Pool : lent[p] \cap returned[p] = {}
    /\ \A p, q \in Pool : p # q =>
          (lent[p] \cup returned[p]) \cap (lent[q] \cup returned[q]) = {}

\* No pool is used while it is moved from: who is one side of a move is no side
\* of another, and what was read of the source is still so.
MoveInv ==
    \A p \in Pool : source[p] # p =>
        /\ p \notin gone /\ source[p] \notin gone
        /\ source[source[p]] = source[p]
        /\ \A r \in Pool : source[r] = p \/ source[r] = source[p] => r \in {p, source[p]}
        /\ seen[p] = [data |-> data_element[source[p]], free |-> free_element[source[p]]]

PoolInv ==
    /\ M!TypeOK /\ Apart /\ MoveInv
    /\ \A p \in gone : lent[p] = {} /\ returned[p] = {}
    /\ \A p \in Pool \ gone : /\ Holds(data_element[p], lent[p], follow, pre)
                              /\ Holds(free_element[p], returned[p], follow, pre)

LEMMA HoldsParts ==
    ASSUME M!ConstantsOK, NEW f, NEW B, NEW nx, NEW pr, Holds(f, B, nx, pr)
    PROVE  /\ B \subseteq Block /\ f \in B \cup {Null} /\ (f # Null => pr[f] = Null)
           /\ \A b \in B : nx[b] \in (B \ {b}) \cup {Null} /\ pr[b] \in (B \ {b}) \cup {Null}
<1>1. PICK c \in Seq(Block) : Listed(Block, f, nx, pr, c) /\ Elements(c) = B
  BY DEF Holds
<1>2. Null \notin Block
  BY DEF M!ConstantsOK
<1>3. /\ Len(c) \in Nat /\ DOMAIN c = 1 .. Len(c)
      /\ \A i \in 1 .. Len(c) : c[i] \in Block /\ c[i] # Null /\ c[i] \in B
      /\ c = <<>> <=> Len(c) = 0
      /\ c = <<>> <=> f = Null
      /\ B \subseteq Block
  BY <1>1, <1>2, ListedParts
<1>4. f # Null => 1 \in 1 .. Len(c) /\ f = c[1] /\ pr[f] = Null
  <2>1. f # Null => 1 \in 1 .. Len(c)
    BY <1>3
  <2>2. QED
    BY <1>1, <1>3, <2>1 DEF Listed
<1>5. ASSUME NEW b \in B
      PROVE  nx[b] \in (B \ {b}) \cup {Null} /\ pr[b] \in (B \ {b}) \cup {Null}
  <2>1. PICK i \in 1 .. Len(c) : b = c[i]
    BY <1>1, <1>3 DEF Elements
  <2>2. /\ nx[b] = IF i = Len(c) THEN Null ELSE c[i + 1]
        /\ pr[b] = IF i = 1 THEN Null ELSE c[i - 1]
        /\ \A k, l \in 1 .. Len(c) : c[k] = c[l] => k = l
    BY <1>1, <1>3, <2>1 DEF Listed
  <2>3. /\ i # Len(c) => i + 1 \in 1 .. Len(c) /\ i + 1 # i
        /\ i # 1 => i - 1 \in 1 .. Len(c) /\ i - 1 # i
    <3>1. \A m \in Nat : \A j \in 1 .. m : /\ j # m => j + 1 \in 1 .. m /\ j + 1 # j
                                           /\ j # 1 => j - 1 \in 1 .. m /\ j - 1 # j
      OBVIOUS
    <3>2. QED
      BY <1>3, <3>1
  <2>4. i # Len(c) => c[i + 1] \in B \ {b}
    BY <1>3, <2>1, <2>2, <2>3
  <2>5. i # 1 => c[i - 1] \in B \ {b}
    BY <1>3, <2>1, <2>2, <2>3
  <2>6. QED
    BY <2>2, <2>4, <2>5
<1>6. QED
  BY <1>3, <1>4, <1>5

LEMMA HoldsEmpty == ASSUME NEW nx, NEW pr PROVE Holds(Null, {}, nx, pr)
<1>1. Listed(Block, Null, nx, pr, <<>>) /\ <<>> \in Seq(Block)
  BY EmptyListed, EmptySeq
<1>2. Elements(<<>>) = {}
  BY EmptySeq DEF Elements
<1>3. QED
  BY <1>1, <1>2 DEF Holds

LEMMA HoldsKept ==
    ASSUME NEW f, NEW B, NEW nx, NEW pr, Holds(f, B, nx, pr), NEW nx2, NEW pr2,
           \A x \in B : nx2[x] = nx[x] /\ pr2[x] = pr[x]
    PROVE  Holds(f, B, nx2, pr2)
<1>1. PICK c \in Seq(Block) : Listed(Block, f, nx, pr, c) /\ Elements(c) = B
  BY DEF Holds
<1>2. Listed(Block, f, nx2, pr2, c)
  BY <1>1, ListedKept
<1>3. QED
  BY <1>1, <1>2 DEF Holds

LEMMA HoldsPut ==
    ASSUME M!ConstantsOK, NEW f, NEW B, NEW nx, NEW pr, Holds(f, B, nx, pr), NEW nx2, NEW pr2,
           NEW a \in Block, a \notin B, nx2[a] = f, pr2[a] = Null,
           \A x \in B : nx2[x] = nx[x] /\ pr2[x] = IF x = f THEN a ELSE pr[x]
    PROVE  Holds(a, B \cup {a}, nx2, pr2)
<1>1. PICK c \in Seq(Block) : Listed(Block, f, nx, pr, c) /\ Elements(c) = B
  BY DEF Holds
<1>2. Null \notin Block
  BY DEF M!ConstantsOK
<1>3. Listed(Block, a, nx2, pr2, <<a>> \o c) /\ Elements(<<a>> \o c) = {a} \cup Elements(c)
  BY <1>1, <1>2, PutFirst
<1>4. <<a>> \o c \in Seq(Block)
  BY <1>3 DEF Listed
<1>5. Elements(<<a>> \o c) = B \cup {a}
  BY <1>1, <1>3
<1>6. QED
  BY <1>3, <1>4, <1>5 DEF Holds

LEMMA HoldsUnlinked ==
    ASSUME M!ConstantsOK, NEW f, NEW B, NEW nx, NEW pr, Holds(f, B, nx, pr), NEW nx2, NEW pr2,
           NEW b \in B,
           \A x \in B \ {b} : /\ nx2[x] = IF x = pr[b] THEN nx[b] ELSE nx[x]
                              /\ pr2[x] = IF x = nx[b] THEN pr[b] ELSE pr[x]
    PROVE  Holds(IF pr[b] = Null THEN nx[b] ELSE f, B \ {b}, nx2, pr2)
<1>1. PICK c \in Seq(Block) : Listed(Block, f, nx, pr, c) /\ Elements(c) = B
  BY DEF Holds
<1>2. Null \notin Block
  BY DEF M!ConstantsOK
<1>3. PICK k \in DOMAIN c : b = c[k]
  BY <1>1 DEF Elements
<1>4. /\ Listed(Block, IF pr[b] = Null THEN nx[b] ELSE f, nx2, pr2, Without(c, k))
      /\ Elements(Without(c, k)) = B \ {b}
  <2>1. \A x \in Elements(c) \ {c[k]} :
           /\ nx2[x] = IF x = pr[c[k]] THEN nx[c[k]] ELSE nx[x]
           /\ pr2[x] = IF x = nx[c[k]] THEN pr[c[k]] ELSE pr[x]
    BY <1>1, <1>3
  <2>2. /\ Listed(Block, IF pr[c[k]] = Null THEN nx[c[k]] ELSE f, nx2, pr2, Without(c, k))
        /\ Elements(Without(c, k)) = Elements(c) \ {c[k]}
    <3>1. Listed(Block, f, nx, pr, c) /\ k \in DOMAIN c
      BY <1>1, <1>3
    <3>2. QED
      BY <1>2, <2>1, <3>1, Unlinked
  <2>3. Elements(Without(c, k)) = B \ {b}
    BY <1>1, <1>3, <2>2
  <2>4. Listed(Block, IF pr[b] = Null THEN nx[b] ELSE f, nx2, pr2, Without(c, k))
    BY <1>3, <2>2
  <2>5. QED
    BY <2>3, <2>4
<1>5. Without(c, k) \in Seq(Block)
  BY <1>4 DEF Listed
<1>6. QED
  BY <1>4, <1>5 DEF Holds

\* The walk of the pool finds what the list holds.
LEMMA ChainHolds ==
    ASSUME M!ConstantsOK, NEW f, NEW B, Holds(f, B, follow, pre)
    PROVE  M!Blocks(M!ChainFrom(f)) = B /\ M!Linked(M!ChainFrom(f))
<1>1. PICK c \in Seq(Block) : Listed(Block, f, follow, pre, c) /\ Elements(c) = B
  BY DEF Holds
<1>2. IsFiniteSet(Block) /\ Null \notin Block
  BY Counts DEF M!ConstantsOK
<1>3. M!ChainFrom(f) = c
  <2>1. M!ChainFrom(f) = Walk(f, follow, M!Cardinality(Block))
    BY DEF M!ChainFrom, Walk, IsWalk
  <2>2. M!Cardinality(Block) = Cardinality(Block)
    BY Counts
  <2>3. QED
    BY <1>1, <1>2, <2>1, <2>2, WalkOfList
<1>4. M!Blocks(c) = Elements(c)
  BY DEF M!Blocks, Elements
<1>5. M!Cardinality(M!Blocks(c)) = Len(c)
  <2>1. Cardinality(Elements(c)) = Len(c)
    BY <1>1, <1>2, ListCount
  <2>2. QED
    BY <1>4, <2>1, Counts
<1>6. M!Linked(c)
  BY <1>1, <1>5 DEF M!Linked, Listed
<1>7. QED
  BY <1>1, <1>3, <1>4, <1>6

\* What a step has to show of the pools that are left.
PoolsKept ==
    \A p \in Pool \ gone' : /\ Holds(data_element'[p], lent'[p], follow', pre')
                            /\ Holds(free_element'[p], returned'[p], follow', pre')

LEMMA PoolInit == ASSUME M!Init PROVE PoolInv
<1>1. M!TypeOK /\ Apart /\ MoveInv /\ gone = {}
  BY DEF M!Init, M!TypeOK, Apart, MoveInv, M!NoHeads
<1>2. \A p \in Pool : data_element[p] = Null /\ lent[p] = {} /\ free_element[p] = Null /\ returned[p] = {}
  BY DEF M!Init
<1>3. QED
  BY <1>1, <1>2, HoldsEmpty DEF PoolInv

LEMMA PoolTypeStep == ASSUME M!TypeOK, [M!Next]_M!vars PROVE M!TypeOK'
<1> DEFINE BlocksTyped ==
               /\ data_element \in [Pool -> Block \cup {Null}] /\ free_element \in [Pool -> Block \cup {Null}]
               /\ pre \in [Block -> Block \cup {Null}] /\ follow \in [Block -> Block \cup {Null}]
               /\ lent \in [Pool -> SUBSET Block] /\ returned \in [Pool -> SUBSET Block]
               /\ gone \subseteq Pool
           MoveTyped ==
               /\ source \in [Pool -> Pool]
               /\ seen \in [Pool -> [data : Block \cup {Null}, free : Block \cup {Null}]]
<1>0. BlocksTyped /\ MoveTyped
  BY DEF M!TypeOK
<1>1. ASSUME NEW p \in Pool, NEW b \in Block, M!AllocateNew(p, b)
      PROVE  BlocksTyped' /\ UNCHANGED M!move
  BY <1>0, <1>1 DEF M!AllocateNew, M!PutInData, M!Link
<1>2. ASSUME NEW p \in Pool, NEW b \in Block, M!deallocate(p, b)
      PROVE  BlocksTyped' /\ UNCHANGED M!move
  <2>1. pre[b] \in Block \cup {Null} /\ follow[b] \in Block \cup {Null}
    BY <1>0
  <2>2. QED
    BY <1>0, <1>2, <2>1 DEF M!deallocate, M!Link
<1>3. ASSUME NEW p \in Pool, M!AllocateFree(p) PROVE BlocksTyped' /\ UNCHANGED M!move
  <2> DEFINE b == free_element[p]
  <2>1. b \in Block /\ follow[b] \in Block \cup {Null}
    BY <1>0, <1>3 DEF M!AllocateFree
  <2>2. QED
    BY <1>0, <1>3, <2>1 DEF M!AllocateFree, M!PutInData, M!Link
<1>4. ASSUME NEW p \in Pool, NEW q \in Pool, M!moveAssign(p, q) PROVE BlocksTyped' /\ MoveTyped'
  <2>1. MoveTyped'
    BY <1>0, <1>4 DEF M!moveAssign
  <2>2. BlocksTyped'
    BY <1>0, <1>4 DEF M!moveAssign, M!heads, M!links, M!history
  <2>3. QED
    BY <2>1, <2>2
<1>5. ASSUME NEW p \in Pool, M!MoveEnds(p) PROVE BlocksTyped' /\ MoveTyped'
  <2>1. /\ source[p] \in Pool /\ seen[p] \in [data : Block \cup {Null}, free : Block \cup {Null}]
        /\ M!NoHeads \in [data : Block \cup {Null}, free : Block \cup {Null}]
    BY <1>0 DEF M!NoHeads
  <2>2. seen[p].data \in Block \cup {Null} /\ seen[p].free \in Block \cup {Null}
    BY <2>1
  <2>3. /\ data_element' \in [Pool -> Block \cup {Null}]
        /\ free_element' \in [Pool -> Block \cup {Null}]
    BY <1>0, <1>5, <2>1, <2>2 DEF M!MoveEnds
  <2>4. lent' \in [Pool -> SUBSET Block] /\ returned' \in [Pool -> SUBSET Block]
    BY <1>0, <1>5, <2>1 DEF M!MoveEnds, M!Swap
  <2>5. source' = [source EXCEPT ![p] = p] /\ seen' = [seen EXCEPT ![p] = M!NoHeads]
    BY <1>5 DEF M!MoveEnds
  <2> HIDE DEF M!NoHeads
  <2>6. MoveTyped'
    BY <1>0, <2>1, <2>5
  <2>7. pre' = pre /\ follow' = follow /\ gone' = gone
    BY <1>5 DEF M!MoveEnds, M!links
  <2>8. QED
    BY <1>0, <2>3, <2>4, <2>6, <2>7
<1>6. ASSUME NEW p \in Pool, M!Delete(p) PROVE BlocksTyped' /\ UNCHANGED M!move
  BY <1>0, <1>6 DEF M!Delete, M!heads, M!links
<1>7. CASE M!AllGone \/ UNCHANGED M!vars
  BY <1>0, <1>7 DEF M!AllGone, M!vars, M!heads, M!links, M!history, M!move, M!TypeOK
<1>8. ASSUME BlocksTyped', UNCHANGED M!move \/ MoveTyped' PROVE M!TypeOK'
  <2>1. MoveTyped'
    BY <1>0, <1>8 DEF M!move
  <2>2. QED
    BY <1>8, <2>1 DEF M!TypeOK
<1> HIDE DEF BlocksTyped, MoveTyped
<1>9. QED
  BY <1>1, <1>2, <1>3, <1>4, <1>5, <1>6, <1>7, <1>8 DEF M!Next

\* What is done with a pool that is in no move leaves the moves alone.
LEMMA MovesKept ==
    ASSUME ~SourceShared, M!TypeOK, MoveInv, NEW p \in Pool, M!MayUse(p),
           UNCHANGED M!move, gone' \subseteq gone \cup {p},
           \A q \in Pool : q # p => /\ data_element'[q] = data_element[q]
                                    /\ free_element'[q] = free_element[q]
    PROVE  MoveInv'
<1> SUFFICES ASSUME NEW r \in Pool, source'[r] # r
             PROVE  /\ r \notin gone' /\ source'[r] \notin gone'
                    /\ source'[source'[r]] = source'[r]
                    /\ \A a \in Pool : source'[a] = r \/ source'[a] = source'[r] => a \in {r, source'[r]}
                    /\ seen'[r] = [data |-> data_element'[source'[r]], free |-> free_element'[source'[r]]]
  BY DEF MoveInv
<1>1. source' = source /\ seen' = seen
  BY DEF M!move
<1>2. source[r] \in Pool /\ r # p /\ source[r] # p
  BY <1>1 DEF M!MayUse, M!TypeOK
<1>3. /\ data_element'[source[r]] = data_element[source[r]]
      /\ free_element'[source[r]] = free_element[source[r]]
  BY <1>2
<1>4. QED
  BY <1>1, <1>2, <1>3 DEF MoveInv

LEMMA MoveBegins ==
    ASSUME ~SourceShared, M!TypeOK, MoveInv, NEW p \in Pool, NEW q \in Pool, M!moveAssign(p, q)
    PROVE  /\ MoveInv' /\ UNCHANGED <<M!heads, M!links, M!history, gone>>
<1>1. /\ p # q /\ M!MayUse(p) /\ M!MayUse(q)
      /\ source' = [source EXCEPT ![p] = q]
      /\ seen' = [seen EXCEPT ![p] = [data |-> data_element[q], free |-> free_element[q]]]
      /\ UNCHANGED <<M!heads, M!links, M!history, gone>>
  BY DEF M!moveAssign
<1>2. /\ data_element' = data_element /\ free_element' = free_element /\ gone' = gone
      /\ \A a \in Pool : source'[a] = IF a = p THEN q ELSE source[a]
      /\ \A a \in Pool : seen'[a] = IF a = p THEN [data |-> data_element[q], free |-> free_element[q]]
                                    ELSE seen[a]
  BY <1>1 DEF M!heads, M!TypeOK
<1>3. /\ p \notin gone /\ source[p] = p /\ \A r \in Pool : r # p => source[r] # p
      /\ q \notin gone /\ source[q] = q /\ \A r \in Pool : r # q => source[r] # q
  BY <1>1 DEF M!MayUse
<1>4. ASSUME NEW r \in Pool, source'[r] # r
      PROVE  /\ r \notin gone' /\ source'[r] \notin gone'
             /\ source'[source'[r]] = source'[r]
             /\ \A a \in Pool : source'[a] = r \/ source'[a] = source'[r] => a \in {r, source'[r]}
             /\ seen'[r] = [data |-> data_element'[source'[r]], free |-> free_element'[source'[r]]]
  <2>1. CASE r = p
    BY <1>1, <1>2, <1>3, <2>1
  <2>2. CASE r # p
    <3>1. source[r] \in Pool /\ source'[r] = source[r] /\ source[r] # r
      BY <1>2, <1>4, <2>2 DEF M!TypeOK
    <3>2. r # q /\ source[r] # p /\ source[r] # q
      BY <1>3, <2>2, <3>1
    <3>3. QED
      BY <1>2, <2>2, <3>1, <3>2 DEF MoveInv
  <2>3. QED
    BY <2>1, <2>2
<1>5. QED
  BY <1>1, <1>4 DEF MoveInv

LEMMA PoolAllocateNew ==
    ASSUME M!ConstantsOK, PoolInv, NEW p \in Pool, NEW b \in Block, M!AllocateNew(p, b)
    PROVE  Apart' /\ PoolsKept /\ gone' = gone /\ \A q \in gone : lent'[q] = lent[q] /\ returned'[q] = returned[q]
<1> DEFINE f == data_element[p]
<1>1. /\ M!TypeOK /\ Apart /\ p \notin gone
      /\ b \notin lent[p] /\ \A q \in Pool : b \notin lent[q] \cup returned[q]
  BY DEF PoolInv, M!AllocateNew, M!InMemory, M!MayUse
<1>2. /\ data_element' = [data_element EXCEPT ![p] = b] /\ free_element' = free_element
      /\ lent' = [lent EXCEPT ![p] = @ \cup {b}] /\ returned' = returned /\ gone' = gone
      /\ \A x \in Block : /\ follow'[x] = IF x = b THEN f ELSE follow[x]
                          /\ pre'[x] = IF x = b THEN Null ELSE IF x = f THEN b ELSE pre[x]
  BY DEF M!AllocateNew, M!PutInData, M!Link
<1>3. /\ \A q \in Pool : lent'[q] = IF q = p THEN lent[p] \cup {b} ELSE lent[q]
      /\ \A q \in Pool : data_element'[q] = IF q = p THEN b ELSE data_element[q]
  BY <1>1, <1>2 DEF M!TypeOK
<1>4. Apart'
  BY <1>1, <1>2, <1>3 DEF Apart
<1>5. \A q \in Pool \ gone : /\ Holds(data_element[q], lent[q], follow, pre)
                             /\ Holds(free_element[q], returned[q], follow, pre)
  BY DEF PoolInv
<1>6. \A q \in Pool \ gone : /\ lent[q] \subseteq Block /\ returned[q] \subseteq Block
                             /\ data_element[q] \in lent[q] \cup {Null}
  BY <1>5, HoldsParts
<1>7. Null \notin Block
  BY DEF M!ConstantsOK
<1> HIDE DEF f
<1>8. Holds(b, lent[p] \cup {b}, follow', pre')
  <2>1. \A x \in lent[p] : x \in Block /\ x # b
    BY <1>1, <1>6
  <2>2. \A x \in lent[p] : follow'[x] = follow[x] /\ pre'[x] = IF x = f THEN b ELSE pre[x]
    BY <1>2, <2>1
  <2>3. follow'[b] = f /\ pre'[b] = Null
    BY <1>2
  <2>4. Holds(f, lent[p], follow, pre)
    BY <1>1, <1>5 DEF f
  <2>5. QED
    BY <1>1, <2>2, <2>3, <2>4, HoldsPut
<1>9. ASSUME NEW g, NEW B \in SUBSET Block, Holds(g, B, follow, pre), b \notin B, f \notin B
      PROVE  Holds(g, B, follow', pre')
  <2>1. \A x \in B : follow'[x] = follow[x] /\ pre'[x] = pre[x]
    BY <1>2, <1>9
  <2>2. QED
    BY <1>9, <2>1, HoldsKept
<1>10. ASSUME NEW q \in Pool \ gone PROVE Holds(free_element[q], returned[q], follow', pre')
  <2>1. f \notin returned[q] /\ b \notin returned[q] /\ returned[q] \in SUBSET Block
    BY <1>1, <1>6, <1>7 DEF f, Apart
  <2>2. QED
    BY <1>5, <1>9, <2>1
<1>11. ASSUME NEW q \in Pool \ gone, q # p PROVE Holds(data_element[q], lent[q], follow', pre')
  <2>1. f \notin lent[q] /\ b \notin lent[q] /\ lent[q] \in SUBSET Block
    BY <1>1, <1>6, <1>7, <1>11 DEF f, Apart
  <2>2. QED
    BY <1>5, <1>9, <2>1
<1>12. PoolsKept
  BY <1>2, <1>3, <1>8, <1>10, <1>11 DEF PoolsKept
<1>13. \A q \in gone : lent'[q] = lent[q]
  BY <1>1, <1>2, <1>3 DEF M!TypeOK
<1>14. QED
  BY <1>2, <1>4, <1>12, <1>13

LEMMA PoolAllocateFree ==
    ASSUME M!ConstantsOK, PoolInv, NEW p \in Pool, M!AllocateFree(p)
    PROVE  Apart' /\ PoolsKept /\ gone' = gone /\ \A q \in gone : lent'[q] = lent[q] /\ returned'[q] = returned[q]
<1> DEFINE f == data_element[p]
           b == free_element[p]
           n == follow[b]
<1>1. M!TypeOK /\ Apart /\ p \notin gone /\ gone \subseteq Pool
  BY DEF PoolInv, M!AllocateFree, M!TypeOK, M!MayUse
<1>2. \A q \in Pool \ gone : /\ Holds(data_element[q], lent[q], follow, pre)
                             /\ Holds(free_element[q], returned[q], follow, pre)
  BY DEF PoolInv
<1>3. \A q \in Pool \ gone : /\ lent[q] \subseteq Block /\ returned[q] \subseteq Block
                             /\ data_element[q] \in lent[q] \cup {Null}
  BY <1>2, HoldsParts
<1>4. Null \notin Block
  BY DEF M!ConstantsOK
<1>5. /\ b \in returned[p] /\ b \in Block /\ pre[b] = Null
      /\ n \in (returned[p] \ {b}) \cup {Null}
  <2>1. b # Null
    BY DEF M!AllocateFree
  <2>2. b \in returned[p] \cup {Null} /\ pre[b] = Null
        /\ \A x \in returned[p] : follow[x] \in (returned[p] \ {x}) \cup {Null}
    BY <1>1, <1>2, <2>1, HoldsParts
  <2>3. QED
    BY <1>1, <1>3, <2>1, <2>2
<1>6. /\ data_element' = [data_element EXCEPT ![p] = b]
      /\ free_element' = [free_element EXCEPT ![p] = n]
      /\ lent' = [lent EXCEPT ![p] = @ \cup {b}]
      /\ returned' = [returned EXCEPT ![p] = @ \ {b}] /\ gone' = gone
      /\ \A x \in Block : /\ follow'[x] = IF x = b THEN f ELSE follow[x]
                          /\ pre'[x] = IF x = b THEN Null ELSE IF x = f THEN b
                                       ELSE IF x = n THEN Null ELSE pre[x]
  BY DEF M!AllocateFree, M!PutInData, M!Link
<1> HIDE DEF f, b, n
<1>7. \A q \in Pool : /\ lent'[q] = IF q = p THEN lent[p] \cup {b} ELSE lent[q]
                      /\ returned'[q] = IF q = p THEN returned[p] \ {b} ELSE returned[q]
                      /\ data_element'[q] = IF q = p THEN b ELSE data_element[q]
                      /\ free_element'[q] = IF q = p THEN n ELSE free_element[q]
  BY <1>1, <1>6 DEF M!TypeOK
<1>8. Apart'
  BY <1>1, <1>5, <1>7 DEF Apart
<1>9. /\ f \in lent[p] \cup {Null} /\ lent[p] \cap returned[p] = {}
      /\ lent[p] \subseteq Block /\ returned[p] \subseteq Block
  BY <1>1, <1>3 DEF Apart, f
<1>10. Holds(b, lent[p] \cup {b}, follow', pre')
  <2>1. \A x \in lent[p] : x \in Block /\ x # b /\ x # n
    BY <1>4, <1>5, <1>9
  <2>2. \A x \in lent[p] : follow'[x] = follow[x] /\ pre'[x] = IF x = f THEN b ELSE pre[x]
    BY <1>6, <2>1
  <2>3. follow'[b] = f /\ pre'[b] = Null
    BY <1>5, <1>6
  <2>4. Holds(f, lent[p], follow, pre)
    BY <1>1, <1>2 DEF f
  <2>5. b \notin lent[p]
    BY <2>1
  <2>6. QED
    BY <1>5, <2>2, <2>3, <2>4, <2>5, HoldsPut
<1>11. Holds(n, returned[p] \ {b}, follow', pre')
  <2>1. \A x \in returned[p] \ {b} : x \in Block /\ x # b /\ x # f /\ x # Null
    BY <1>4, <1>9
  <2>2. \A x \in returned[p] \ {b} :
           /\ follow'[x] = IF x = pre[b] THEN follow[b] ELSE follow[x]
           /\ pre'[x] = IF x = follow[b] THEN pre[b] ELSE pre[x]
    BY <1>5, <1>6, <2>1 DEF n
  <2>3. Holds(b, returned[p], follow, pre)
    BY <1>1, <1>2 DEF b
  <2>4. Holds(IF pre[b] = Null THEN follow[b] ELSE b, returned[p] \ {b}, follow', pre')
    BY <1>5, <2>2, <2>3, HoldsUnlinked
  <2>5. QED
    BY <1>5, <2>4 DEF n
<1>12. ASSUME NEW g, NEW B \in SUBSET Block, Holds(g, B, follow, pre),
              b \notin B, f \notin B, n \notin B
       PROVE  Holds(g, B, follow', pre')
  <2>1. \A x \in B : follow'[x] = follow[x] /\ pre'[x] = pre[x]
    BY <1>6, <1>12
  <2>2. QED
    BY <1>12, <2>1, HoldsKept
<1>13. ASSUME NEW q \in Pool \ gone, q # p
       PROVE  /\ Holds(data_element[q], lent[q], follow', pre')
              /\ Holds(free_element[q], returned[q], follow', pre')
  <2>1. (lent[q] \cup returned[q]) \cap (lent[p] \cup returned[p]) = {}
    BY <1>1, <1>13 DEF Apart
  <2>2. lent[q] \cup returned[q] \subseteq Block
    BY <1>3
  <2>3. {b, f, n} \cap (lent[q] \cup returned[q]) = {}
    BY <1>4, <1>5, <1>9, <2>1, <2>2
  <2>4. Holds(data_element[q], lent[q], follow', pre')
    BY <1>2, <1>12, <2>2, <2>3
  <2>5. Holds(free_element[q], returned[q], follow', pre')
    BY <1>2, <1>12, <2>2, <2>3
  <2>6. QED
    BY <2>4, <2>5
<1>14. PoolsKept
  <2>1. SUFFICES ASSUME NEW q \in Pool \ gone'
                 PROVE  /\ Holds(data_element'[q], lent'[q], follow', pre')
                        /\ Holds(free_element'[q], returned'[q], follow', pre')
    BY DEF PoolsKept
  <2>2. q \in Pool \ gone
    BY <1>6
  <2>3. CASE q = p
    <3>1. /\ data_element'[q] = b /\ free_element'[q] = n
          /\ lent'[q] = lent[p] \cup {b} /\ returned'[q] = returned[p] \ {b}
      BY <1>7, <2>2, <2>3
    <3>2. QED
      BY <1>10, <1>11, <3>1
  <2>4. CASE q # p
    <3>1. /\ data_element'[q] = data_element[q] /\ free_element'[q] = free_element[q]
          /\ lent'[q] = lent[q] /\ returned'[q] = returned[q]
      BY <1>7, <2>2, <2>4
    <3>2. QED
      BY <1>13, <2>2, <2>4, <3>1
  <2>5. QED
    BY <2>3, <2>4
<1>15. QED
  BY <1>1, <1>6, <1>7, <1>8, <1>14

LEMMA PoolDeallocate ==
    ASSUME M!ConstantsOK, PoolInv, NEW p \in Pool, NEW b \in Block, M!deallocate(p, b)
    PROVE  Apart' /\ PoolsKept /\ gone' = gone /\ \A q \in gone : lent'[q] = lent[q] /\ returned'[q] = returned[q]
<1> DEFINE f == free_element[p]
           n == follow[b]
           r == pre[b]
<1>1. M!TypeOK /\ Apart /\ p \notin gone /\ gone \subseteq Pool /\ b \in lent[p]
  BY DEF PoolInv, M!deallocate, M!TypeOK, M!MayUse
<1>2. \A q \in Pool \ gone : /\ Holds(data_element[q], lent[q], follow, pre)
                             /\ Holds(free_element[q], returned[q], follow, pre)
  BY DEF PoolInv
<1>3. \A q \in Pool \ gone : /\ lent[q] \subseteq Block /\ returned[q] \subseteq Block
                             /\ free_element[q] \in returned[q] \cup {Null}
                             /\ \A x \in lent[q] : /\ follow[x] \in (lent[q] \ {x}) \cup {Null}
                                                   /\ pre[x] \in (lent[q] \ {x}) \cup {Null}
  BY <1>2, HoldsParts
<1>4. Null \notin Block
  BY DEF M!ConstantsOK
<1>5. n \in (lent[p] \ {b}) \cup {Null} /\ r \in (lent[p] \ {b}) \cup {Null}
  BY <1>1, <1>3
<1>6. /\ data_element' = [data_element EXCEPT ![p] = IF r = Null THEN n ELSE @]
      /\ free_element' = [free_element EXCEPT ![p] = b]
      /\ lent' = [lent EXCEPT ![p] = @ \ {b}]
      /\ returned' = [returned EXCEPT ![p] = @ \cup {b}] /\ gone' = gone
      /\ \A x \in Block : /\ follow'[x] = IF x = b THEN f ELSE IF x = r THEN n ELSE follow[x]
                          /\ pre'[x] = IF x = b THEN Null ELSE IF x = f THEN b
                                       ELSE IF x = n THEN r ELSE pre[x]
  BY DEF M!deallocate, M!Link
<1> HIDE DEF f, n, r
<1>7. \A q \in Pool :
         /\ lent'[q] = IF q = p THEN lent[p] \ {b} ELSE lent[q]
         /\ returned'[q] = IF q = p THEN returned[p] \cup {b} ELSE returned[q]
         /\ data_element'[q] = IF q = p THEN IF r = Null THEN n ELSE data_element[p]
                                        ELSE data_element[q]
         /\ free_element'[q] = IF q = p THEN b ELSE free_element[q]
  BY <1>1, <1>6 DEF M!TypeOK
<1>8. Apart'
  BY <1>1, <1>7 DEF Apart
<1>9. /\ f \in returned[p] \cup {Null} /\ lent[p] \cap returned[p] = {}
      /\ lent[p] \subseteq Block /\ returned[p] \subseteq Block
  BY <1>1, <1>3 DEF Apart, f
<1>10. Holds(b, returned[p] \cup {b}, follow', pre')
  <2>1. \A x \in returned[p] : x \in Block /\ x # b /\ x # n /\ x # r
    BY <1>1, <1>4, <1>5, <1>9
  <2>2. \A x \in returned[p] : follow'[x] = follow[x] /\ pre'[x] = IF x = f THEN b ELSE pre[x]
    BY <1>6, <2>1
  <2>3. follow'[b] = f /\ pre'[b] = Null
    BY <1>6
  <2>4. Holds(f, returned[p], follow, pre)
    BY <1>1, <1>2 DEF f
  <2>5. b \notin returned[p]
    BY <2>1
  <2>6. QED
    BY <2>2, <2>3, <2>4, <2>5, HoldsPut
<1>11. Holds(IF r = Null THEN n ELSE data_element[p], lent[p] \ {b}, follow', pre')
  <2>1. \A x \in lent[p] \ {b} : x \in Block /\ x # b /\ x # f
    BY <1>4, <1>9
  <2>2. \A x \in lent[p] \ {b} :
           /\ follow'[x] = IF x = pre[b] THEN follow[b] ELSE follow[x]
           /\ pre'[x] = IF x = follow[b] THEN pre[b] ELSE pre[x]
    BY <1>6, <2>1 DEF n, r
  <2>3. Holds(data_element[p], lent[p], follow, pre) /\ b \in lent[p]
    BY <1>1, <1>2
  <2> DEFINE h == data_element[p]
             B == lent[p]
  <2>4. Holds(IF pre[b] = Null THEN follow[b] ELSE h, B \ {b}, follow', pre')
    <3>1. /\ Holds(h, B, follow, pre) /\ b \in B
          /\ \A x \in B \ {b} : /\ follow'[x] = IF x = pre[b] THEN follow[b] ELSE follow[x]
                                /\ pre'[x] = IF x = follow[b] THEN pre[b] ELSE pre[x]
      BY <2>2, <2>3
    <3> HIDE DEF h, B
    <3>2. QED
      BY <3>1, HoldsUnlinked
  <2>5. QED
    BY <2>4 DEF n, r
<1>12. ASSUME NEW g, NEW B \in SUBSET Block, Holds(g, B, follow, pre),
              b \notin B, f \notin B, n \notin B, r \notin B
       PROVE  Holds(g, B, follow', pre')
  <2>1. \A x \in B : follow'[x] = follow[x] /\ pre'[x] = pre[x]
    BY <1>6, <1>12
  <2>2. QED
    BY <1>12, <2>1, HoldsKept
<1>13. ASSUME NEW q \in Pool \ gone, q # p
       PROVE  /\ Holds(data_element[q], lent[q], follow', pre')
              /\ Holds(free_element[q], returned[q], follow', pre')
  <2>1. (lent[q] \cup returned[q]) \cap (lent[p] \cup returned[p]) = {}
    BY <1>1, <1>13 DEF Apart
  <2>2. lent[q] \cup returned[q] \subseteq Block
    BY <1>3
  <2>3. {b, f, n, r} \cap (lent[q] \cup returned[q]) = {}
    BY <1>1, <1>4, <1>5, <1>9, <2>1, <2>2
  <2>4. Holds(data_element[q], lent[q], follow', pre')
    BY <1>2, <1>12, <2>2, <2>3
  <2>5. Holds(free_element[q], returned[q], follow', pre')
    BY <1>2, <1>12, <2>2, <2>3
  <2>6. QED
    BY <2>4, <2>5
<1>14. PoolsKept
  <2>1. Holds(data_element'[p], lent'[p], follow', pre')
    BY <1>7, <1>11
  <2>2. Holds(free_element'[p], returned'[p], follow', pre')
    BY <1>7, <1>10
  <2>3. ASSUME NEW q \in Pool \ gone, q # p
        PROVE  /\ Holds(data_element'[q], lent'[q], follow', pre')
               /\ Holds(free_element'[q], returned'[q], follow', pre')
    BY <1>7, <1>13, <2>3
  <2>4. QED
    BY <1>6, <2>1, <2>2, <2>3 DEF PoolsKept
<1>15. QED
  BY <1>1, <1>6, <1>7, <1>8, <1>14

\* The destructor finds every block of its pool.
LEMMA PoolDelete ==
    ASSUME M!ConstantsOK, PoolInv, NEW p \in Pool, M!Delete(p)
    PROVE  /\ gone' = gone \cup {p} /\ p \notin gone
           /\ lent'[p] = {} /\ returned'[p] = {}
           /\ \A q \in Pool : q # p => lent'[q] = lent[q] /\ returned'[q] = returned[q]
           /\ data_element' = data_element /\ free_element' = free_element
           /\ follow' = follow /\ pre' = pre
<1> DEFINE found == M!Blocks(M!ChainFrom(data_element[p])) \cup M!Blocks(M!ChainFrom(free_element[p]))
<1>1. /\ p \notin gone /\ gone' = gone \cup {p}
      /\ lent' = [lent EXCEPT ![p] = @ \ found] /\ returned' = [returned EXCEPT ![p] = @ \ found]
      /\ data_element' = data_element /\ free_element' = free_element
      /\ follow' = follow /\ pre' = pre
  BY DEF M!Delete, M!heads, M!links, M!MayUse
<1>2. Holds(data_element[p], lent[p], follow, pre) /\ Holds(free_element[p], returned[p], follow, pre)
  BY <1>1 DEF PoolInv
<1>3. found = lent[p] \cup returned[p]
  BY <1>2, ChainHolds
<1> HIDE DEF found
<1>4. lent \in [Pool -> SUBSET Block] /\ returned \in [Pool -> SUBSET Block]
  BY DEF PoolInv, M!TypeOK
<1>5. QED
  BY <1>1, <1>3, <1>4

LEMMA PoolMove ==
    ASSUME PoolInv, NEW p \in Pool, M!MoveEnds(p)
    PROVE  Apart' /\ PoolsKept /\ MoveInv' /\ gone' = gone
           /\ \A a \in gone : lent'[a] = lent[a] /\ returned'[a] = returned[a]
<1> DEFINE q == source[p]
           old(a) == IF a = p THEN q ELSE IF a = q THEN p ELSE a
<1>0. /\ data_element' = [data_element EXCEPT ![p] = seen[p].data, ![q] = data_element[p]]
      /\ free_element' = [free_element EXCEPT ![p] = seen[p].free, ![q] = free_element[p]]
      /\ lent' = M!Swap(lent, p, q) /\ returned' = M!Swap(returned, p, q)
      /\ source' = [source EXCEPT ![p] = p] /\ seen' = [seen EXCEPT ![p] = M!NoHeads]
      /\ p # q /\ gone' = gone /\ follow' = follow /\ pre' = pre
  BY DEF M!MoveEnds, M!links
<1>1. /\ M!TypeOK /\ Apart /\ gone \subseteq Pool /\ p \notin gone /\ q \notin gone /\ p # q
      /\ q \in Pool /\ seen[p].data = data_element[q] /\ seen[p].free = free_element[q]
      /\ source[q] = q
      /\ \A r \in Pool : source[r] = p \/ source[r] = q => r \in {p, q}
  BY <1>0 DEF PoolInv, MoveInv, M!TypeOK
<1> HIDE DEF q
<1>2. /\ gone' = gone /\ follow' = follow /\ pre' = pre
      /\ \A a \in Pool : /\ data_element'[a] = data_element[old(a)]
                         /\ free_element'[a] = free_element[old(a)]
                         /\ lent'[a] = lent[old(a)] /\ returned'[a] = returned[old(a)]
  BY <1>0, <1>1 DEF M!Swap, M!TypeOK
<1>6. MoveInv'
  <2>1. /\ \A a \in Pool : source'[a] = IF a = p THEN p ELSE source[a]
        /\ \A a \in Pool : a # p => seen'[a] = seen[a]
    BY <1>0, <1>1 DEF M!TypeOK
  <2>2. ASSUME NEW r \in Pool, source'[r] # r
        PROVE  /\ r \notin gone' /\ source'[r] \notin gone'
               /\ source'[source'[r]] = source'[r]
               /\ \A a \in Pool : source'[a] = r \/ source'[a] = source'[r] => a \in {r, source'[r]}
               /\ seen'[r] = [data |-> data_element'[source'[r]], free |-> free_element'[source'[r]]]
    <3>1. r # p /\ r # q /\ source[r] # r /\ source'[r] = source[r] /\ source[r] \in Pool
      BY <1>1, <2>1, <2>2 DEF M!TypeOK
    <3>2. source[r] # p /\ source[r] # q
      BY <1>1, <3>1
    <3>3. old(source[r]) = source[r]
      BY <3>2
    <3>4. /\ data_element'[source[r]] = data_element[source[r]]
          /\ free_element'[source[r]] = free_element[source[r]]
      BY <1>2, <3>1, <3>3
    <3>5. /\ r \notin gone /\ source[r] \notin gone /\ source[source[r]] = source[r]
          /\ \A a \in Pool : source[a] = r \/ source[a] = source[r] => a \in {r, source[r]}
          /\ seen[r] = [data |-> data_element[source[r]], free |-> free_element[source[r]]]
      BY <3>1 DEF PoolInv, MoveInv
    <3>6. source'[source[r]] = source[r] /\ seen'[r] = seen[r]
      BY <2>1, <3>1, <3>2, <3>5
    <3>7. ASSUME NEW a \in Pool, source'[a] = r \/ source'[a] = source'[r] PROVE a \in {r, source'[r]}
      BY <2>1, <3>1, <3>2, <3>5, <3>7
    <3>8. seen'[r] = [data |-> data_element'[source'[r]], free |-> free_element'[source'[r]]]
      BY <3>1, <3>4, <3>5, <3>6
    <3>9. QED
      BY <1>2, <3>1, <3>5, <3>6, <3>7, <3>8
  <2>3. QED
    BY <2>2 DEF MoveInv
<1>3. /\ \A a \in Pool : old(a) \in Pool
      /\ \A a, c \in Pool : old(a) = old(c) => a = c
      /\ \A a \in Pool \ gone : old(a) \in Pool \ gone
      /\ \A a \in gone : old(a) = a
  BY <1>1
<1> HIDE DEF old
<1>4. Apart'
  <2>1. \A a \in Pool : lent'[a] \cap returned'[a] = {}
    BY <1>1, <1>2, <1>3 DEF Apart
  <2>2. ASSUME NEW a \in Pool, NEW c \in Pool, a # c
        PROVE  (lent'[a] \cup returned'[a]) \cap (lent'[c] \cup returned'[c]) = {}
    <3>1. old(a) # old(c) /\ old(a) \in Pool /\ old(c) \in Pool
      BY <1>3, <2>2
    <3>2. (lent[old(a)] \cup returned[old(a)]) \cap (lent[old(c)] \cup returned[old(c)]) = {}
      BY <1>1, <3>1 DEF Apart
    <3>3. QED
      BY <1>2, <3>2
  <2>3. QED
    BY <2>1, <2>2 DEF Apart
<1>5. PoolsKept
  <2>1. ASSUME NEW a \in Pool \ gone
        PROVE  /\ Holds(data_element'[a], lent'[a], follow', pre')
               /\ Holds(free_element'[a], returned'[a], follow', pre')
    <3>1. old(a) \in Pool \ gone
      BY <1>3
    <3>2. /\ Holds(data_element[old(a)], lent[old(a)], follow, pre)
          /\ Holds(free_element[old(a)], returned[old(a)], follow, pre)
      BY <3>1 DEF PoolInv
    <3>3. QED
      BY <1>2, <3>2
  <2>2. QED
    BY <1>2, <2>1 DEF PoolsKept
<1>7. QED
  BY <1>1, <1>2, <1>3, <1>4, <1>5, <1>6

LEMMA PoolInvKept ==
    ASSUME M!ConstantsOK, ~SourceShared, PoolInv, [M!Next]_M!vars PROVE PoolInv'
<1>1. M!TypeOK'
  BY PoolTypeStep DEF PoolInv
<1>2. ASSUME Apart', PoolsKept, MoveInv', gone' = gone,
             \A q \in gone : lent'[q] = lent[q] /\ returned'[q] = returned[q]
      PROVE  PoolInv'
  <2>1. \A q \in gone' : lent'[q] = {} /\ returned'[q] = {}
    BY <1>2 DEF PoolInv
  <2>2. QED
    BY <1>1, <1>2, <2>1 DEF PoolInv, PoolsKept
<1>3. M!TypeOK /\ MoveInv
  BY DEF PoolInv
<1>4. ASSUME NEW p \in Pool, NEW b \in Block, M!AllocateNew(p, b) \/ M!deallocate(p, b) PROVE PoolInv'
  <2>1. /\ M!MayUse(p) /\ UNCHANGED M!move /\ gone' = gone
        /\ \A q \in Pool : q # p => data_element'[q] = data_element[q] /\ free_element'[q] = free_element[q]
    BY <1>3, <1>4 DEF M!AllocateNew, M!deallocate, M!PutInData, M!TypeOK
  <2>2. MoveInv'
    BY <1>3, <2>1, MovesKept
  <2>3. QED
    BY <1>2, <1>4, <2>2, PoolAllocateNew, PoolDeallocate
<1>5. ASSUME NEW p \in Pool, M!AllocateFree(p) PROVE PoolInv'
  <2>1. /\ M!MayUse(p) /\ UNCHANGED M!move /\ gone' = gone
        /\ \A q \in Pool : q # p => data_element'[q] = data_element[q] /\ free_element'[q] = free_element[q]
    BY <1>3, <1>5 DEF M!AllocateFree, M!PutInData, M!TypeOK
  <2>2. MoveInv'
    BY <1>3, <2>1, MovesKept
  <2>3. QED
    BY <1>2, <1>5, <2>2, PoolAllocateFree
<1>6. ASSUME NEW p \in Pool, M!Delete(p) PROVE PoolInv'
  <2>1. /\ gone' = gone \cup {p} /\ p \notin gone
        /\ lent'[p] = {} /\ returned'[p] = {}
        /\ \A q \in Pool : q # p => lent'[q] = lent[q] /\ returned'[q] = returned[q]
        /\ data_element' = data_element /\ free_element' = free_element
        /\ follow' = follow /\ pre' = pre
    BY <1>6, PoolDelete
  <2>2. \A q \in gone' : lent'[q] = {} /\ returned'[q] = {}
    BY <2>1 DEF PoolInv, M!TypeOK
  <2>3. Apart'
    BY <2>1 DEF PoolInv, Apart
  <2>4. PoolsKept
    BY <2>1 DEF PoolInv, PoolsKept
  <2>5. M!MayUse(p) /\ UNCHANGED M!move
    BY <1>6 DEF M!Delete
  <2>6. MoveInv'
    BY <1>3, <2>1, <2>5, MovesKept
  <2>7. QED
    BY <1>1, <2>2, <2>3, <2>4, <2>6 DEF PoolInv, PoolsKept
<1>7. ASSUME UNCHANGED <<M!heads, M!links, M!history, gone>>, MoveInv' PROVE PoolInv'
  <2>1. UNCHANGED <<data_element, free_element, pre, follow, lent, returned, gone>>
    BY <1>7 DEF M!heads, M!links, M!history
  <2>2. Apart' /\ PoolsKept
    BY <2>1 DEF PoolInv, Apart, PoolsKept
  <2>3. QED
    BY <1>2, <1>7, <2>1, <2>2
<1>8. ASSUME NEW p \in Pool, NEW q \in Pool, M!moveAssign(p, q) PROVE PoolInv'
  BY <1>3, <1>7, <1>8, MoveBegins
<1>9. ASSUME NEW p \in Pool, M!MoveEnds(p) PROVE PoolInv'
  BY <1>2, <1>9, PoolMove
<1>10. CASE M!AllGone \/ UNCHANGED M!vars
  <2>1. UNCHANGED <<M!heads, M!links, M!history, gone>> /\ UNCHANGED M!move
    BY <1>10 DEF M!AllGone, M!vars
  <2>2. MoveInv'
    BY <1>3, <2>1 DEF MoveInv, M!heads, M!move
  <2>3. QED
    BY <1>7, <2>1, <2>2
<1>11. QED
  BY <1>4, <1>5, <1>6, <1>8, <1>9, <1>10 DEF M!Next

LEMMA PoolInvHolds == ASSUME M!ConstantsOK, PoolInv PROVE M!ListsHoldBlocks
BY ChainHolds DEF PoolInv, M!ListsHoldBlocks

\* However blocks are handed out, returned and moved from pool to pool, the
\* links of MemoryPool lead to the blocks in use and to the free ones, each
\* once, and a destroyed pool has left none behind, provided nobody uses a pool
\* while it is moved from, whose mutex the move does not take.
THEOREM PoolsHoldBlocks == M!ConstantsOK /\ ~SourceShared => (M!Spec => []M!ListsHoldBlocks)
<1>1. SUFFICES ASSUME M!ConstantsOK, ~SourceShared PROVE M!Spec => []M!ListsHoldBlocks
  OBVIOUS
<1>2. PoolInv /\ [M!Next]_M!vars => PoolInv'
  BY <1>1, PoolInvKept
<1>3. PoolInv => M!ListsHoldBlocks
  BY <1>1, PoolInvHolds
<1>4. QED
  BY <1>2, <1>3, PoolInit, PTL DEF M!Spec
-----------------------------------------------------------------------------
(* The sizes of pieces of data. *)

\* Induction over a sequence that grows at its end, for a set of sequences.
LEMMA GrowingSequences ==
    ASSUME NEW S, NEW G, <<>> \in G,
           \A p \in Seq(S), x \in S : p \in G => Append(p, x) \in G
    PROVE  Seq(S) \subseteq G
<1> DEFINE Bad == {n \in Nat : \E p \in Seq(S) : Len(p) = n /\ p \notin G}
<1>1. SUFFICES ASSUME Bad # {} PROVE FALSE
  BY LenProperties
<1>2. PICK n \in Bad : \A m \in Bad : n <= m
  BY <1>1, LeastNumber
<1>3. PICK p \in Seq(S) : Len(p) = n /\ p \notin G
  BY <1>2
<1>4. PICK r \in Seq(S), x \in S : p = Append(r, x)
  BY <1>3, SequenceEmptyOrAppend
<1>5. Len(r) \in Nat /\ n = Len(r) + 1
  BY <1>3, <1>4, LenProperties, AppendProperties
<1>6. r \notin G
  BY <1>3, <1>4
<1>7. QED
  BY <1>2, <1>5, <1>6

\* The sum of Bytes: h[i] is the size of the first i pieces of p.
IsTotal(h, p) ==
    h = [i \in 0 .. Len(p) |-> IF i = 0 THEN 0 ELSE h[i - 1] + Len(p[i])]

Total(p) == (CHOOSE h : IsTotal(h, p))[Len(p)]

LEMMA TotalUnique ==
    ASSUME NEW S, NEW p \in Seq(S), NEW g, NEW h, IsTotal(g, p), IsTotal(h, p) PROVE g = h
<1> DEFINE n == Len(p)
           Bad == {k \in 0 .. n : g[k] # h[k]}
<1>1. n \in Nat
  BY LenProperties
<1>2. /\ \A k \in 0 .. n : g[k] = IF k = 0 THEN 0 ELSE g[k - 1] + Len(p[k])
      /\ \A k \in 0 .. n : h[k] = IF k = 0 THEN 0 ELSE h[k - 1] + Len(p[k])
  BY DEF IsTotal
<1>3. ASSUME Bad # {} PROVE FALSE
  <2>1. Bad \in SUBSET Nat
    BY <1>1
  <2> HIDE DEF Bad
  <2>2. PICK k \in Bad : \A j \in Bad : k <= j
    BY <1>3, <2>1, LeastNumber
  <2> USE DEF Bad
  <2>3. k \in 0 .. n /\ g[k] # h[k]
    BY <2>2
  <2>4. k # 0
    BY <1>2, <2>3
  <2>5. k - 1 \in 0 .. n /\ ~(k <= k - 1)
    BY <1>1, <2>3, <2>4
  <2>6. g[k - 1] = h[k - 1]
    BY <2>2, <2>5
  <2>7. QED
    BY <1>2, <2>3, <2>4, <2>6
<1>4. \A k \in 0 .. n : g[k] = h[k]
  BY <1>3
<1>5. g = [k \in 0 .. n |-> g[k]] /\ h = [k \in 0 .. n |-> h[k]]
  BY DEF IsTotal
<1>6. QED
  BY <1>4, <1>5

LEMMA TotalIs ==
    ASSUME NEW S, NEW p \in Seq(S), NEW h, IsTotal(h, p) PROVE Total(p) = h[Len(p)]
<1>1. (CHOOSE g : IsTotal(g, p)) = h
  BY TotalUnique
<1>2. QED
  BY <1>1 DEF Total

LEMMA TotalGrows ==
    ASSUME NEW B, NEW p \in Seq(Seq(B)), NEW x \in Seq(B),
           NEW h \in [0 .. Len(p) -> Nat], IsTotal(h, p)
    PROVE  \E g \in [0 .. Len(Append(p, x)) -> Nat] :
              IsTotal(g, Append(p, x)) /\ g[Len(Append(p, x))] = h[Len(p)] + Len(x)
<1> DEFINE n == Len(p)
           r == Append(p, x)
           g == [k \in 0 .. n + 1 |-> IF k <= n THEN h[k] ELSE h[n] + Len(x)]
<1>1. n \in Nat /\ Len(x) \in Nat
  BY LenProperties
<1>2. Len(r) = n + 1 /\ r[n + 1] = x /\ \A i \in 1 .. n : r[i] = p[i]
  BY <1>1, AppendProperties
<1>3. \A k \in 0 .. n : h[k] = (IF k = 0 THEN 0 ELSE h[k - 1] + Len(p[k])) /\ h[k] \in Nat
  BY DEF IsTotal
<1> HIDE DEF n, r
<1>4. n \in 0 .. n /\ h[n] \in Nat
  BY <1>1, <1>3
<1>5. g \in [0 .. n + 1 -> Nat] /\ g[n + 1] = h[n] + Len(x)
  <2>1. \A k \in 0 .. n + 1 : k <= n => k \in 0 .. n
    BY <1>1
  <2>2. \A k \in 0 .. n + 1 : (IF k <= n THEN h[k] ELSE h[n] + Len(x)) \in Nat
    BY <1>1, <1>3, <1>4, <2>1
  <2>3. n + 1 \in 0 .. n + 1 /\ ~(n + 1 <= n)
    BY <1>1
  <2>4. QED
    BY <2>2, <2>3
<1>6. ASSUME NEW k \in 0 .. n + 1 PROVE g[k] = IF k = 0 THEN 0 ELSE g[k - 1] + Len(r[k])
  <2>1. CASE k = 0
    <3>1. 0 \in 0 .. n /\ 0 <= n /\ 0 \in 0 .. n + 1
      BY <1>1
    <3>2. QED
      BY <1>3, <2>1, <3>1
  <2>2. CASE k \in 1 .. n
    <3>1. k \in 0 .. n /\ k <= n /\ k - 1 \in 0 .. n + 1 /\ k - 1 <= n /\ k # 0
      BY <1>1, <2>2
    <3>2. g[k] = h[k] /\ g[k - 1] = h[k - 1] /\ r[k] = p[k]
      BY <1>2, <2>2, <3>1
    <3>3. QED
      BY <1>3, <3>1, <3>2
  <2>3. CASE k = n + 1
    <3>1. k - 1 = n /\ n \in 0 .. n + 1 /\ n <= n /\ k # 0
      BY <1>1, <2>3
    <3>2. g[k - 1] = h[n]
      BY <3>1
    <3>3. QED
      BY <1>2, <1>5, <2>3, <3>1, <3>2
  <2>4. QED
    BY <1>1, <2>1, <2>2, <2>3
<1>7. IsTotal(g, r)
  <2>1. g = [k \in 0 .. n + 1 |-> IF k = 0 THEN 0 ELSE g[k - 1] + Len(r[k])]
    BY <1>6
  <2>2. QED
    BY <1>2, <2>1 DEF IsTotal
<1>8. QED
  BY <1>2, <1>5, <1>7 DEF r, n

LEMMA TotalExists ==
    ASSUME NEW B, NEW p \in Seq(Seq(B))
    PROVE  \E h \in [0 .. Len(p) -> Nat] : IsTotal(h, p)
<1> DEFINE G == {q \in Seq(Seq(B)) : \E h \in [0 .. Len(q) -> Nat] : IsTotal(h, q)}
<1>1. <<>> \in G
  <2>1. <<>> \in Seq(Seq(B)) /\ Len(<<>>) = 0
    BY EmptySeq
  <2>2. IsTotal([k \in 0 .. 0 |-> 0], <<>>) /\ [k \in 0 .. 0 |-> 0] \in [0 .. 0 -> Nat]
    BY <2>1 DEF IsTotal
  <2>3. QED
    BY <2>1, <2>2
<1>2. ASSUME NEW q \in Seq(Seq(B)), NEW x \in Seq(B), q \in G PROVE Append(q, x) \in G
  <2>1. PICK h \in [0 .. Len(q) -> Nat] : IsTotal(h, q)
    BY <1>2
  <2>2. \E g \in [0 .. Len(Append(q, x)) -> Nat] : IsTotal(g, Append(q, x))
    BY <2>1, TotalGrows
  <2>3. Append(q, x) \in Seq(Seq(B))
    BY AppendProperties
  <2>4. QED
    BY <2>2, <2>3
<1> HIDE DEF G
<1>3. Seq(Seq(B)) \subseteq G
  BY <1>1, <1>2, GrowingSequences
<1>4. QED
  BY <1>3 DEF G

LEMMA TotalType == ASSUME NEW B, NEW p \in Seq(Seq(B)) PROVE Total(p) \in Nat
<1>1. PICK h \in [0 .. Len(p) -> Nat] : IsTotal(h, p)
  BY TotalExists
<1>2. Len(p) \in 0 .. Len(p)
  BY LenProperties
<1>3. QED
  BY <1>1, <1>2, TotalIs

LEMMA TotalEmpty == Total(<<>>) = 0
<1>1. <<>> \in Seq({}) /\ Len(<<>>) = 0
  BY EmptySeq
<1>2. IsTotal([k \in 0 .. 0 |-> 0], <<>>)
  BY <1>1 DEF IsTotal
<1>3. [k \in 0 .. 0 |-> 0][0] = 0
  OBVIOUS
<1>4. QED
  BY <1>1, <1>2, <1>3, TotalIs

LEMMA TotalAppend ==
    ASSUME NEW B, NEW p \in Seq(Seq(B)), NEW x \in Seq(B)
    PROVE  Total(Append(p, x)) = Total(p) + Len(x)
<1>1. PICK h \in [0 .. Len(p) -> Nat] : IsTotal(h, p)
  BY TotalExists
<1>2. PICK g \in [0 .. Len(Append(p, x)) -> Nat] :
         IsTotal(g, Append(p, x)) /\ g[Len(Append(p, x))] = h[Len(p)] + Len(x)
  BY <1>1, TotalGrows
<1>3. Append(p, x) \in Seq(Seq(B))
  BY AppendProperties
<1>4. QED
  BY <1>1, <1>2, <1>3, TotalIs

LEMMA TotalCons ==
    ASSUME NEW B, NEW p \in Seq(Seq(B)), NEW x \in Seq(B)
    PROVE  Total(<<x>> \o p) = Len(x) + Total(p)
<1> DEFINE n == Len(p)
           r == <<x>> \o p
<1>1. n \in Nat /\ Len(x) \in Nat /\ \A i \in 1 .. n : Len(p[i]) \in Nat
  BY LenProperties, ElementOfSeq
<1>2. /\ r \in Seq(Seq(B)) /\ Len(r) = n + 1
      /\ \A i \in 1 .. n + 1 : r[i] = IF i = 1 THEN x ELSE p[i - 1]
  BY ConsParts
<1>3. PICK h \in [0 .. n -> Nat] : IsTotal(h, p)
  BY TotalExists
<1>4. \A k \in 0 .. n : h[k] = (IF k = 0 THEN 0 ELSE h[k - 1] + Len(p[k])) /\ h[k] \in Nat
  BY <1>3 DEF IsTotal
<1> DEFINE g == [k \in 0 .. n + 1 |-> IF k = 0 THEN 0 ELSE Len(x) + h[k - 1]]
<1> HIDE DEF n, r
<1>5. ASSUME NEW k \in 0 .. n + 1 PROVE g[k] = IF k = 0 THEN 0 ELSE g[k - 1] + Len(r[k])
  <2>1. CASE k = 0
    BY <2>1
  <2>2. CASE k = 1
    <3>1. 0 \in 0 .. n /\ 0 \in 0 .. n + 1 /\ 1 - 1 = 0 /\ 1 \in 1 .. n + 1 /\ 1 \in 0 .. n + 1
      BY <1>1
    <3>2. g[1] = Len(x) + h[0] /\ g[0] = 0 /\ h[0] = 0 /\ r[1] = x
      BY <1>2, <1>4, <3>1
    <3>3. QED
      BY <1>1, <2>2, <3>1, <3>2
  <2>3. CASE k # 0 /\ k # 1
    <3>1. /\ k - 1 \in 0 .. n /\ k - 1 # 0 /\ k - 1 \in 0 .. n + 1 /\ k - 1 \in 1 .. n
          /\ (k - 1) - 1 \in 0 .. n /\ k \in 1 .. n + 1
      BY <1>1, <2>3
    <3>2. g[k] = Len(x) + h[k - 1] /\ g[k - 1] = Len(x) + h[(k - 1) - 1]
      BY <2>3, <3>1
    <3>3. h[k - 1] = h[(k - 1) - 1] + Len(p[k - 1]) /\ h[(k - 1) - 1] \in Nat
      BY <1>4, <3>1
    <3>4. r[k] = p[k - 1] /\ Len(p[k - 1]) \in Nat
      BY <1>1, <1>2, <2>3, <3>1
    <3>5. \A a, b, c \in Nat : a + (b + c) = (a + b) + c
      OBVIOUS
    <3>6. Len(x) + (h[(k - 1) - 1] + Len(p[k - 1])) = (Len(x) + h[(k - 1) - 1]) + Len(p[k - 1])
      BY <1>1, <3>3, <3>4, <3>5
    <3>7. QED
      BY <2>3, <3>2, <3>3, <3>4, <3>6
  <2>4. QED
    BY <2>1, <2>2, <2>3
<1>6. IsTotal(g, r)
  <2>1. g = [k \in 0 .. n + 1 |-> IF k = 0 THEN 0 ELSE g[k - 1] + Len(r[k])]
    BY <1>5
  <2>2. QED
    BY <1>2, <2>1 DEF IsTotal
<1>7. g[n + 1] = Len(x) + h[n]
  <2>1. n + 1 \in 0 .. n + 1 /\ n + 1 # 0 /\ (n + 1) - 1 = n
    BY <1>1
  <2>2. QED
    BY <2>1
<1> HIDE DEF g
<1>8. Total(p) = h[n]
  BY <1>3, TotalIs DEF n
<1>9. Total(r) = g[Len(r)]
  <2>1. r \in Seq(Seq(B))
    BY <1>2
  <2>2. QED
    BY <1>6, <2>1, TotalIs
<1>10. Len(r) = n + 1
  BY <1>2
<1>11. QED
  BY <1>7, <1>8, <1>9, <1>10 DEF r

\* Bytes of BufferQueue is the total of the pieces of the elements.
IsBytes(h, dt, c) ==
    h = [i \in 0 .. Len(c) |-> IF i = 0 THEN 0 ELSE h[i - 1] + Len(dt[c[i]])]

LEMMA BytesIsTotal ==
    ASSUME NEW B, NEW p \in Seq(Seq(B)), NEW dt, NEW c, Len(c) = Len(p),
           \A i \in 1 .. Len(c) : p[i] = dt[c[i]]
    PROVE  (CHOOSE h : IsBytes(h, dt, c))[Len(c)] = Total(p)
<1>0. Len(p) \in Nat
  BY LenProperties
<1>1. ASSUME NEW h PROVE IsBytes(h, dt, c) <=> IsTotal(h, p)
  <2>1. \A i \in 0 .. Len(c) : (IF i = 0 THEN 0 ELSE h[i - 1] + Len(dt[c[i]]))
                             = (IF i = 0 THEN 0 ELSE h[i - 1] + Len(p[i]))
    <3>1. \A i \in 0 .. Len(c) : i # 0 => i \in 1 .. Len(c)
      BY <1>0
    <3>2. QED
      BY <3>1
  <2>2. [i \in 0 .. Len(c) |-> IF i = 0 THEN 0 ELSE h[i - 1] + Len(dt[c[i]])]
            = [i \in 0 .. Len(p) |-> IF i = 0 THEN 0 ELSE h[i - 1] + Len(p[i])]
    BY <2>1
  <2>3. QED
    BY <2>2 DEF IsBytes, IsTotal
<1>2. PICK f \in [0 .. Len(p) -> Nat] : IsTotal(f, p)
  BY TotalExists
<1>3. \A h : IsBytes(h, dt, c) <=> h = f
  BY <1>1, <1>2, TotalUnique
<1>4. (CHOOSE h : IsBytes(h, dt, c)) = f
  BY <1>3
<1>5. QED
  BY <1>2, <1>4, TotalIs
-----------------------------------------------------------------------------
(* BufferQueue.  c are its elements and p their data, from first to last.   *)

Byte == UNION {{d[i] : i \in DOMAIN d} : d \in Piece}

Shape(f, l, nx, pr, dt, m, t, c, p) ==
    /\ Listed(Address, f, nx, pr, c)
    /\ l = LastOf(c) /\ m = Len(c)
    /\ p \in Seq(Q!Data) /\ Len(p) = Len(c)
    /\ \A i \in 1 .. Len(c) : p[i] = dt[c[i]]
    /\ t = Total(p)

NewShape(c, p) ==
    Shape(first_element', last_element', next', prev', data', element_num', total_data_size', c, p)

QueueTypes ==
    /\ prev \in [Address -> Address \cup {Null}] /\ next \in [Address -> Address \cup {Null}]
    /\ data \in [Address -> Q!Data \cup {<<>>}]
    /\ op \in [name : {"none", "popData", "removeData"}, need : 0 .. MaxBytes]
    /\ op.name # "none" => op.need > 0 /\ first_element # Null

QueueInv ==
    /\ QueueTypes
    /\ Shape(first_element, last_element, next, prev, data, element_num, total_data_size,
             Q!Chain, Q!Pieces)

\* What is left of a piece is data, and not longer than the piece.
LEMMA DataParts ==
    ASSUME Q!ConstantsOK, NEW d \in Q!Data
    PROVE  /\ d \in Seq(Byte) /\ Len(d) \in Nat \ {0} /\ d # <<>>
           /\ \E e \in Piece : Len(e) \in Nat /\ Len(d) <= Len(e)
           /\ \A n \in 0 .. Len(d) - 1 :
                 Q!Rest(d, n) \in Q!Data /\ Len(Q!Rest(d, n)) = Len(d) - n
<1>0. PICK e \in Piece : d \in {SubSeq(e, i, Len(e)) : i \in 1 .. Len(e)}
  BY DEF Q!Data
<1>1. PICK i \in 1 .. Len(e) : d = SubSeq(e, i, Len(e))
  BY <1>0
<1>2. e \in Seq(Byte) /\ Len(e) \in Nat
  <2>1. e \in Seq({e[j] : j \in DOMAIN e})
    BY DEF Q!ConstantsOK
  <2>2. Len(e) \in Nat /\ DOMAIN e = 1 .. Len(e) /\ \A j \in 1 .. Len(e) : e[j] \in Byte
    BY <2>1, LenProperties DEF Byte
  <2>3. e = [j \in 1 .. Len(e) |-> e[j]]
    BY <2>1, <2>2
  <2>4. e \in [1 .. Len(e) -> Byte]
    BY <2>2, <2>3
  <2>5. QED
    BY <2>2, <2>4, SeqDef
<1>3. ASSUME NEW k \in 1 .. Len(e)
      PROVE  /\ SubSeq(e, k, Len(e)) \in Seq(Byte) /\ Len(SubSeq(e, k, Len(e))) = Len(e) - k + 1
             /\ \A j \in 1 .. Len(e) - k + 1 : SubSeq(e, k, Len(e))[j] = e[k + j - 1]
  <2>1. \A j \in k .. Len(e) : e[j] \in Byte
    <3>1. \A j \in k .. Len(e) : j \in 1 .. Len(e)
      BY <1>2
    <3>2. QED
      BY <1>2, <3>1, ElementOfSeq
  <2>2. k \in Int /\ Len(e) \in Int /\ k <= Len(e)
    BY <1>2
  <2>3. QED
    BY <1>2, <2>1, <2>2, SubSeqProperties
<1>4. d \in Seq(Byte) /\ Len(d) = Len(e) - i + 1 /\ Len(d) \in Nat \ {0} /\ Len(d) <= Len(e)
  BY <1>1, <1>2, <1>3
<1>5. ASSUME NEW n \in 0 .. Len(d) - 1
      PROVE  Q!Rest(d, n) \in Q!Data /\ Len(Q!Rest(d, n)) = Len(d) - n
  <2>1. i + n \in 1 .. Len(e) /\ Len(e) - (i + n) + 1 = Len(d) - n
    BY <1>2, <1>4
  <2>2. /\ SubSeq(e, i + n, Len(e)) \in Seq(Byte)
        /\ Len(SubSeq(e, i + n, Len(e))) = Len(d) - n
        /\ \A j \in 1 .. Len(d) - n : SubSeq(e, i + n, Len(e))[j] = e[(i + n) + j - 1]
    BY <1>3, <2>1
  <2>3. /\ SubSeq(d, n + 1, Len(d)) \in Seq(Byte)
        /\ Len(SubSeq(d, n + 1, Len(d))) = Len(d) - n
        /\ \A j \in 1 .. Len(d) - n : SubSeq(d, n + 1, Len(d))[j] = d[n + j]
    <3>1. \A j \in n + 1 .. Len(d) : d[j] \in Byte
      <4>1. \A j \in n + 1 .. Len(d) : j \in 1 .. Len(d)
        BY <1>4
      <4>2. QED
        BY <1>4, <4>1, ElementOfSeq
    <3>2. n + 1 \in Int /\ Len(d) \in Int /\ n + 1 <= Len(d) /\ Len(d) - (n + 1) + 1 = Len(d) - n
      BY <1>4
    <3>3. /\ SubSeq(d, n + 1, Len(d)) \in Seq(Byte)
          /\ Len(SubSeq(d, n + 1, Len(d))) = Len(d) - n
          /\ \A j \in 1 .. Len(d) - n : SubSeq(d, n + 1, Len(d))[j] = d[(n + 1) + j - 1]
      BY <1>4, <3>1, <3>2, SubSeqProperties
    <3>4. \A j \in 1 .. Len(d) - n : (n + 1) + j - 1 = n + j
      BY <1>4
    <3>5. QED
      BY <3>3, <3>4
  <2>4. ASSUME NEW j \in 1 .. Len(d) - n PROVE d[n + j] = e[(i + n) + j - 1]
    <3>1. n + j \in 1 .. Len(e) - i + 1 /\ i + (n + j) - 1 = (i + n) + j - 1
      BY <1>2, <1>4
    <3>2. d[n + j] = e[i + (n + j) - 1]
      BY <1>1, <1>3, <3>1
    <3>3. QED
      BY <3>1, <3>2
  <2>5. SubSeq(d, n + 1, Len(d)) = SubSeq(e, i + n, Len(e))
    BY <2>2, <2>3, <2>4, SeqEqual
  <2>6. SubSeq(e, i + n, Len(e)) \in Q!Data
    BY <2>1 DEF Q!Data
  <2>7. QED
    BY <2>3, <2>5, <2>6 DEF Q!Rest
<1>6. d # <<>>
  BY <1>4, EmptySeq
<1>7. QED
  BY <1>2, <1>4, <1>5, <1>6

LEMMA PieceIsData == ASSUME Q!ConstantsOK, NEW d \in Piece PROVE d \in Q!Data
<1>1. d # <<>> /\ d \in Seq({d[i] : i \in DOMAIN d})
  BY DEF Q!ConstantsOK
<1>2. Len(d) \in Nat /\ Len(d) # 0 /\ 1 \in 1 .. Len(d)
  BY <1>1, LenProperties, EmptySeq
<1>3. SubSeq(d, 1, Len(d)) = d
  <2>1. \A j \in 1 .. Len(d) : d[j] \in {d[i] : i \in DOMAIN d}
    BY <1>1, ElementOfSeq
  <2>2. /\ SubSeq(d, 1, Len(d)) \in Seq({d[i] : i \in DOMAIN d})
        /\ Len(SubSeq(d, 1, Len(d))) = Len(d) - 1 + 1
        /\ \A j \in 1 .. Len(d) - 1 + 1 : SubSeq(d, 1, Len(d))[j] = d[1 + j - 1]
    BY <1>1, <1>2, <2>1, SubSeqProperties
  <2>3. Len(d) - 1 + 1 = Len(d) /\ \A j \in 1 .. Len(d) : 1 + j - 1 = j
    BY <1>2
  <2>4. QED
    BY <1>1, <2>2, <2>3, SeqEqual
<1>4. QED
  BY <1>2, <1>3 DEF Q!Data

LEMMA DataSequences ==
    ASSUME Q!ConstantsOK, NEW p \in Seq(Q!Data) PROVE p \in Seq(Seq(Byte))
<1>1. Len(p) \in Nat /\ p = [i \in 1 .. Len(p) |-> p[i]]
  BY LenProperties
<1>2. \A i \in 1 .. Len(p) : p[i] \in Seq(Byte)
  BY ElementOfSeq, DataParts
<1>3. p \in [1 .. Len(p) -> Seq(Byte)]
  BY <1>1, <1>2
<1>4. QED
  BY <1>1, <1>3, SeqDef

\* A sequence without its first or its last element.
LEMMA WithoutEnds ==
    ASSUME NEW S, NEW s \in Seq(S), s # <<>>
    PROVE  /\ Without(s, 1) = Tail(s) /\ Without(s, Len(s)) = SubSeq(s, 1, Len(s) - 1)
           /\ Without(s, 1) \in Seq(S) /\ Without(s, Len(s)) \in Seq(S)
           /\ s = <<s[1]>> \o Without(s, 1) /\ s = Append(Without(s, Len(s)), s[Len(s)])
           /\ s[1] \in S /\ s[Len(s)] \in S /\ Head(s) = s[1]
<1> DEFINE n == Len(s)
<1>1. n \in Nat /\ n # 0 /\ n - 1 \in Nat /\ 1 \in 1 .. n /\ n \in 1 .. n
  BY LenProperties, EmptySeq
<1>2. \A i \in 1 .. n : s[i] \in S
  BY ElementOfSeq
<1>3. /\ Without(s, 1) \in Seq(S) /\ Len(Without(s, 1)) = n - 1
      /\ \A i \in 1 .. n - 1 : Without(s, 1)[i] = s[i + 1]
  <2>1. \A i \in 1 .. n - 1 : i + 1 \in 1 .. n /\ ~(i < 1)
    BY <1>1
  <2>2. \A i \in 1 .. n - 1 : Without(s, 1)[i] = s[i + 1]
    BY <2>1 DEF Without
  <2>3. Without(s, 1) = [i \in 1 .. n - 1 |-> IF i < 1 THEN s[i] ELSE s[i + 1]]
    BY DEF Without
  <2>4. Without(s, 1) \in [1 .. n - 1 -> S]
    BY <1>2, <2>1, <2>3
  <2>5. QED
    BY <1>1, <2>2, <2>4, SeqDef, LenProperties
<1>4. /\ Without(s, n) \in Seq(S) /\ Len(Without(s, n)) = n - 1
      /\ \A i \in 1 .. n - 1 : Without(s, n)[i] = s[i]
  <2>1. \A i \in 1 .. n - 1 : i \in 1 .. n /\ i < n
    BY <1>1
  <2>2. \A i \in 1 .. n - 1 : Without(s, n)[i] = s[i]
    BY <2>1 DEF Without
  <2>3. Without(s, n) = [i \in 1 .. n - 1 |-> IF i < n THEN s[i] ELSE s[i + 1]]
    BY DEF Without
  <2>4. Without(s, n) \in [1 .. n - 1 -> S]
    BY <1>2, <2>1, <2>3
  <2>5. QED
    BY <1>1, <2>2, <2>4, SeqDef, LenProperties
<1>5. Without(s, 1) = Tail(s) /\ Head(s) = s[1]
  <2>1. /\ Tail(s) \in Seq(S) /\ Len(Tail(s)) = n - 1
        /\ \A i \in 1 .. Len(Tail(s)) : Tail(s)[i] = s[i + 1]
    BY HeadTailProperties
  <2>2. Without(s, 1) = Tail(s)
    BY <1>3, <2>1, SeqEqual
  <2>3. QED
    BY <2>2
<1>6. Without(s, n) = SubSeq(s, 1, n - 1)
  <2>1. \A i \in 1 .. n - 1 : i \in 1 .. n
    BY <1>1
  <2>2. 1 \in Int /\ n - 1 \in Int /\ \A i \in 1 .. n - 1 : s[i] \in S
    BY <1>1, <1>2, <2>1
  <2>3. /\ SubSeq(s, 1, n - 1) \in Seq(S)
        /\ Len(SubSeq(s, 1, n - 1)) = IF 1 <= n - 1 THEN (n - 1) - 1 + 1 ELSE 0
        /\ \A i \in 1 .. (n - 1) - 1 + 1 : SubSeq(s, 1, n - 1)[i] = s[1 + i - 1]
    BY <2>2, SubSeqProperties
  <2>4. /\ (IF 1 <= n - 1 THEN (n - 1) - 1 + 1 ELSE 0) = n - 1 /\ (n - 1) - 1 + 1 = n - 1
        /\ \A i \in 1 .. n - 1 : 1 + i - 1 = i
    <3>1. \A k \in Nat : (IF 1 <= k THEN k - 1 + 1 ELSE 0) = k /\ k - 1 + 1 = k
      OBVIOUS
    <3>2. \A i \in 1 .. n - 1 : 1 + i - 1 = i
      BY <1>1
    <3>3. QED
      BY <1>1, <3>1, <3>2
  <2>5. \A i \in 1 .. n - 1 : SubSeq(s, 1, n - 1)[i] = Without(s, n)[i]
    BY <1>4, <2>3, <2>4
  <2>6. QED
    BY <1>4, <2>3, <2>4, <2>5, SeqEqual
<1>7. s = <<s[1]>> \o Without(s, 1)
  <2> DEFINE r == <<s[1]>> \o Without(s, 1)
  <2>1. /\ r \in Seq(S) /\ Len(r) = (n - 1) + 1
        /\ \A i \in 1 .. (n - 1) + 1 : r[i] = IF i = 1 THEN s[1] ELSE Without(s, 1)[i - 1]
    BY <1>1, <1>2, <1>3, ConsParts
  <2>2. (n - 1) + 1 = n
    BY <1>1
  <2>3. \A i \in 1 .. n : i # 1 => i - 1 \in 1 .. n - 1 /\ (i - 1) + 1 = i
    BY <1>1
  <2>4. \A i \in 1 .. n : r[i] = s[i]
    BY <1>3, <2>1, <2>2, <2>3
  <2>5. QED
    BY <2>1, <2>2, <2>4, SeqEqual
<1>8. s = Append(Without(s, n), s[n])
  <2> DEFINE r == Append(Without(s, n), s[n])
  <2>1. /\ r \in Seq(S) /\ Len(r) = (n - 1) + 1
        /\ \A i \in 1 .. n - 1 : r[i] = Without(s, n)[i]
        /\ r[(n - 1) + 1] = s[n]
    BY <1>1, <1>2, <1>4, AppendProperties
  <2>2. (n - 1) + 1 = n /\ \A i \in 1 .. n : i \in 1 .. n - 1 \/ i = n
    BY <1>1
  <2>3. \A i \in 1 .. n : r[i] = s[i]
    BY <1>4, <2>1, <2>2
  <2>4. QED
    BY <2>1, <2>2, <2>3, SeqEqual
<1>9. QED
  BY <1>1, <1>2, <1>3, <1>4, <1>5, <1>6, <1>7, <1>8

LEMMA ShapeParts ==
    ASSUME Q!ConstantsOK, NEW f, NEW l, NEW nx, NEW pr, NEW dt, NEW m, NEW t, NEW c, NEW p,
           Shape(f, l, nx, pr, dt, m, t, c, p)
    PROVE  /\ c \in Seq(Address) /\ m = Len(c) /\ m = Len(p) /\ m \in Nat
           /\ DOMAIN c = 1 .. m /\ DOMAIN p = 1 .. m
           /\ p \in Seq(Q!Data) /\ p \in Seq(Seq(Byte))
           /\ \A i \in 1 .. m : /\ c[i] \in Address /\ c[i] # Null /\ c[i] \in Elements(c)
                                /\ p[i] = dt[c[i]] /\ p[i] \in Q!Data
           /\ f \in Address \cup {Null} /\ l \in Address \cup {Null}
           /\ (m = 0 <=> c = <<>>) /\ (m = 0 <=> p = <<>>)
           /\ (m = 0 <=> f = Null) /\ (m = 0 <=> l = Null)
           /\ m # 0 => 1 \in 1 .. m /\ m \in 1 .. m /\ f = c[1] /\ l = c[m]
           /\ Elements(c) \subseteq Address
<1>1. Null \notin Address
  BY DEF Q!ConstantsOK
<1>2. /\ c \in Seq(Address) /\ Len(c) \in Nat /\ DOMAIN c = 1 .. Len(c)
      /\ \A i \in 1 .. Len(c) : c[i] \in Address /\ c[i] # Null /\ c[i] \in Elements(c)
      /\ c = <<>> <=> Len(c) = 0
      /\ c = <<>> <=> f = Null
      /\ Elements(c) \subseteq Address
  BY <1>1, ListedParts DEF Shape
<1>3. m = Len(c) /\ m = Len(p) /\ p \in Seq(Q!Data) /\ \A i \in 1 .. m : p[i] = dt[c[i]]
  BY DEF Shape
<1>4. /\ DOMAIN p = 1 .. m /\ (m = 0 <=> p = <<>>)
      /\ \A i \in 1 .. m : p[i] \in Q!Data
  BY <1>2, <1>3, LenProperties, EmptySeq, ElementOfSeq
<1>5. m # 0 => 1 \in 1 .. m /\ m \in 1 .. m /\ f = c[1] /\ l = c[m]
  BY <1>2, <1>3 DEF Shape, Listed, LastOf
<1>6. m = 0 => l = Null /\ f = Null
  BY <1>2, <1>3 DEF Shape, LastOf
<1>7. p \in Seq(Seq(Byte))
  BY <1>3, DataSequences
<1>8. f \in Address \cup {Null} /\ l \in Address \cup {Null} /\ (m = 0 <=> l = Null)
  BY <1>2, <1>3, <1>5, <1>6
<1>9. QED
  BY <1>2, <1>3, <1>4, <1>5, <1>7, <1>8

\* The shape is what the operators of BufferQueue see.
LEMMA ShapeIsSeen ==
    ASSUME Q!ConstantsOK, NEW c, NEW p,
           Shape(first_element, last_element, next, prev, data, element_num, total_data_size, c, p)
    PROVE  /\ Q!Chain = c /\ Q!Pieces = p /\ Q!Allocated = Elements(c)
           /\ Q!Bytes(c) = total_data_size
<1>1. IsFiniteSet(Address) /\ Null \notin Address
  BY Counts DEF Q!ConstantsOK
<1>2. Q!Chain = c
  <2>1. Q!Chain = Walk(first_element, next, Q!Cardinality(Address))
    BY DEF Q!Chain, Walk, IsWalk
  <2>2. QED
    BY <1>1, <2>1, Counts, WalkOfList DEF Shape
<1>3. /\ DOMAIN c = 1 .. Len(c) /\ DOMAIN p = 1 .. Len(c) /\ p \in Seq(Q!Data) /\ Len(p) = Len(c)
      /\ p \in Seq(Seq(Byte)) /\ \A i \in 1 .. Len(c) : p[i] = data[c[i]]
  BY ShapeParts
<1>4. Q!Pieces = p
  <2>1. Q!Pieces = [i \in DOMAIN c |-> data[c[i]]]
    BY <1>2 DEF Q!Pieces
  <2>2. p = [i \in 1 .. Len(c) |-> p[i]]
    BY <1>3
  <2>3. QED
    BY <1>3, <2>1, <2>2
<1>5. Q!Allocated = Elements(c)
  BY <1>2 DEF Q!Allocated, Elements
<1>6. Q!Bytes(c) = total_data_size
  <2>1. Q!Bytes(c) = (CHOOSE h : IsBytes(h, data, c))[Len(c)]
    BY DEF Q!Bytes, IsBytes
  <2>2. Q!Bytes(c) = Total(p)
    BY <1>3, <2>1, BytesIsTotal
  <2>3. QED
    BY <2>2 DEF Shape
<1>7. QED
  BY <1>2, <1>4, <1>5, <1>6

LEMMA NewShapeIsSeen ==
    ASSUME Q!ConstantsOK, NEW c, NEW p, NewShape(c, p) PROVE Q!Chain' = c /\ Q!Pieces' = p
<1>1. IsFiniteSet(Address) /\ Null \notin Address
  BY Counts DEF Q!ConstantsOK
<1>2. Q!Chain' = c
  <2>1. Q!Chain' = Walk(first_element', next', Q!Cardinality(Address))
    BY DEF Q!Chain, Walk, IsWalk
  <2>2. QED
    BY <1>1, <2>1, Counts, WalkOfList DEF NewShape, Shape
<1>3. DOMAIN c = 1 .. Len(c) /\ DOMAIN p = 1 .. Len(c) /\ p \in Seq(Q!Data) /\ Len(p) = Len(c)
      /\ \A i \in 1 .. Len(c) : p[i] = data'[c[i]]
  BY ShapeParts DEF NewShape
<1>4. Q!Pieces' = p
  <2>1. Q!Pieces' = [i \in DOMAIN c |-> data'[c[i]]]
    BY <1>2 DEF Q!Pieces
  <2>2. p = [i \in 1 .. Len(c) |-> p[i]]
    BY <1>3
  <2>3. QED
    BY <1>3, <2>1, <2>2
<1>5. QED
  BY <1>2, <1>4

LEMMA QueueInit == ASSUME Q!ConstantsOK, Q!Init PROVE QueueInv /\ Q!Deque!Init
<1>1. Shape(first_element, last_element, next, prev, data, element_num, total_data_size, <<>>, <<>>)
  <2>1. Listed(Address, first_element, next, prev, <<>>)
    BY EmptyListed DEF Q!Init
  <2>2. <<>> \in Seq(Q!Data) /\ Len(<<>>) = 0 /\ \A i \in 1 .. 0 : <<>>[i] = data[<<>>[i]]
    BY EmptySeq
  <2>3. QED
    BY <2>1, <2>2, TotalEmpty DEF Q!Init, Shape, LastOf
<1>2. Q!Chain = <<>> /\ Q!Pieces = <<>>
  BY <1>1, ShapeIsSeen
<1>3. QueueTypes
  <2>1. 0 \in 0 .. MaxBytes
    BY DEF Q!ConstantsOK
  <2>2. QED
    BY <2>1 DEF Q!Init, Q!Idle, QueueTypes
<1>4. QED
  BY <1>1, <1>2, <1>3 DEF QueueInv, Q!Init, Q!Deque!Init

\* Both pushes: an element that is not in the list gets the data.
LEMMA NewElementParts ==
    ASSUME Q!ConstantsOK, QueueInv, NEW a \in Address, NEW d \in Piece, Q!NewElement(a, d)
    PROVE  /\ a \notin Elements(Q!Chain) /\ d \in Q!Data /\ a # Null /\ op = Q!Idle /\ op' = op
           /\ data' = [data EXCEPT ![a] = d]
           /\ \A x \in Address : data'[x] = IF x = a THEN d ELSE data[x]
           /\ element_num' = element_num + 1 /\ total_data_size' = total_data_size + Len(d)
           /\ out' = <<>>
<1>1. Q!Allocated = Elements(Q!Chain)
  BY ShapeIsSeen DEF QueueInv
<1>2. data \in [Address -> Q!Data \cup {<<>>}]
  BY DEF QueueInv, QueueTypes
<1>3. QED
  BY <1>1, <1>2, PieceIsData DEF Q!NewElement, Q!ConstantsOK

LEMMA PushesFront ==
    ASSUME Q!ConstantsOK, QueueInv, NEW a \in Address, NEW d \in Piece, Q!pushElementToFront(a, d)
    PROVE  NewShape(<<a>> \o Q!Chain, <<d>> \o Q!Pieces)
<1> DEFINE c == Q!Chain
           p == Q!Pieces
           c2 == <<a>> \o c
           p2 == <<d>> \o p
           m == element_num
<1>1. Shape(first_element, last_element, next, prev, data, m, total_data_size, c, p)
  BY DEF QueueInv
<1>2. /\ c \in Seq(Address) /\ m = Len(c) /\ m = Len(p) /\ m \in Nat
      /\ p \in Seq(Q!Data) /\ p \in Seq(Seq(Byte))
      /\ \A i \in 1 .. m : c[i] \in Address /\ c[i] \in Elements(c) /\ p[i] = data[c[i]]
      /\ (m = 0 <=> c = <<>>) /\ (m = 0 <=> first_element = Null)
      /\ (m # 0 => m \in 1 .. m /\ last_element = c[m])
      /\ Elements(c) \subseteq Address
  BY <1>1, ShapeParts
<1>3. /\ a \notin Elements(c) /\ d \in Q!Data /\ d \in Seq(Byte)
      /\ \A x \in Address : data'[x] = IF x = a THEN d ELSE data[x]
      /\ element_num' = m + 1 /\ total_data_size' = total_data_size + Len(d)
  BY NewElementParts, DataParts DEF Q!pushElementToFront
<1>4. /\ first_element' = a
      /\ last_element' = IF first_element = Null THEN a ELSE last_element
      /\ next' = [next EXCEPT ![a] = first_element]
      /\ prev' = [b \in Address |->
                     IF b = a THEN Null ELSE IF b = first_element THEN a ELSE prev[b]]
  BY DEF Q!pushElementToFront
<1>5. next \in [Address -> Address \cup {Null}]
  BY DEF QueueInv, QueueTypes
<1> HIDE DEF c, p, m
<1>6. Listed(Address, a, next', prev', c2)
  <2>1. Listed(Address, first_element, next, prev, c) /\ Null \notin Address
    BY <1>1 DEF Shape, Q!ConstantsOK
  <2>2. next'[a] = first_element /\ prev'[a] = Null
    BY <1>4, <1>5
  <2>3. \A x \in Elements(c) : /\ next'[x] = next[x]
                               /\ prev'[x] = IF x = first_element THEN a ELSE prev[x]
    BY <1>2, <1>3, <1>4, <1>5
  <2>4. QED
    BY <1>3, <2>1, <2>2, <2>3, PutFirst
<1>7. /\ c2 \in Seq(Address) /\ Len(c2) = m + 1
      /\ \A i \in 1 .. m + 1 : c2[i] = IF i = 1 THEN a ELSE c[i - 1]
  <2>1. c \in Seq(Address) /\ Len(c) = m
    BY <1>2
  <2>2. QED
    BY <2>1, ConsParts
<1>8. /\ p2 \in Seq(Q!Data) /\ Len(p2) = m + 1
      /\ \A i \in 1 .. m + 1 : p2[i] = IF i = 1 THEN d ELSE p[i - 1]
  BY <1>2, <1>3, ConsParts
<1>9. Total(p2) = Len(d) + Total(p)
  BY <1>2, <1>3, TotalCons
<1>10. total_data_size' = Total(p2)
  <2>1. Total(p) \in Nat /\ Len(d) \in Nat /\ total_data_size = Total(p)
    BY <1>1, <1>2, <1>3, TotalType, LenProperties DEF Shape
  <2>2. QED
    BY <1>3, <1>9, <2>1
<1> HIDE DEF c2, p2
<1>11. last_element' = LastOf(c2)
  <2>1. c2 # <<>>
    BY <1>2, <1>7, EmptySeq
  <2>2. LastOf(c2) = IF m + 1 = 1 THEN a ELSE c[(m + 1) - 1]
    <3>1. m + 1 \in 1 .. m + 1
      BY <1>2
    <3>2. QED
      BY <1>7, <2>1, <3>1 DEF LastOf
  <2>3. (m + 1 = 1 <=> m = 0) /\ (m + 1) - 1 = m
    BY <1>2
  <2>4. QED
    BY <1>2, <1>4, <2>2, <2>3
<1>12. ASSUME NEW i \in 1 .. m + 1 PROVE p2[i] = data'[c2[i]]
  <2>1. CASE i = 1
    BY <1>3, <1>7, <1>8, <2>1
  <2>2. CASE i # 1
    <3>1. i - 1 \in 1 .. m
      BY <1>2, <2>2
    <3>2. data'[c[i - 1]] = data[c[i - 1]]
      BY <1>2, <1>3, <3>1
    <3>3. QED
      BY <1>2, <1>7, <1>8, <2>2, <3>1, <3>2
  <2>3. QED
    BY <2>1, <2>2
<1>13. QED
  BY <1>3, <1>4, <1>6, <1>7, <1>8, <1>10, <1>11, <1>12 DEF NewShape, Shape, c2, p2, c, p

LEMMA PushesLast ==
    ASSUME Q!ConstantsOK, QueueInv, NEW a \in Address, NEW d \in Piece, Q!pushElementToLast(a, d)
    PROVE  NewShape(Append(Q!Chain, a), Append(Q!Pieces, d))
<1> DEFINE c == Q!Chain
           p == Q!Pieces
           c2 == Append(c, a)
           p2 == Append(p, d)
           m == element_num
<1>1. Shape(first_element, last_element, next, prev, data, m, total_data_size, c, p)
  BY DEF QueueInv
<1>2. /\ c \in Seq(Address) /\ m = Len(c) /\ m = Len(p) /\ m \in Nat
      /\ p \in Seq(Q!Data) /\ p \in Seq(Seq(Byte))
      /\ \A i \in 1 .. m : c[i] \in Address /\ c[i] \in Elements(c) /\ p[i] = data[c[i]]
      /\ (m = 0 <=> first_element = Null) /\ (m = 0 <=> last_element = Null)
      /\ Elements(c) \subseteq Address
  BY <1>1, ShapeParts
<1>3. /\ a \notin Elements(c) /\ d \in Q!Data /\ d \in Seq(Byte)
      /\ \A x \in Address : data'[x] = IF x = a THEN d ELSE data[x]
      /\ element_num' = m + 1 /\ total_data_size' = total_data_size + Len(d)
  BY NewElementParts, DataParts DEF Q!pushElementToLast
<1>4. /\ last_element' = a
      /\ first_element' = IF last_element = Null THEN a ELSE first_element
      /\ prev' = [prev EXCEPT ![a] = last_element]
      /\ next' = [b \in Address |->
                     IF b = a THEN Null ELSE IF b = last_element THEN a ELSE next[b]]
  BY DEF Q!pushElementToLast
<1>5. prev \in [Address -> Address \cup {Null}] /\ last_element = LastOf(c)
  BY <1>1 DEF QueueInv, QueueTypes, Shape
<1> HIDE DEF c, p, m
<1>6. Listed(Address, first_element', next', prev', c2)
  <2>1. Listed(Address, first_element, next, prev, c) /\ Null \notin Address
    BY <1>1 DEF Shape, Q!ConstantsOK
  <2>2. prev'[a] = LastOf(c) /\ next'[a] = Null
    BY <1>4, <1>5
  <2>3. \A x \in Elements(c) : /\ prev'[x] = prev[x]
                               /\ next'[x] = IF x = LastOf(c) THEN a ELSE next[x]
    BY <1>2, <1>3, <1>4, <1>5
  <2>4. Listed(Address, IF first_element = Null THEN a ELSE first_element, next', prev', c2)
    BY <1>3, <2>1, <2>2, <2>3, PutLast
  <2>5. first_element' = IF first_element = Null THEN a ELSE first_element
    BY <1>2, <1>4
  <2>6. QED
    BY <2>4, <2>5
<1>7. /\ c2 \in Seq(Address) /\ Len(c2) = m + 1 /\ c2[m + 1] = a
      /\ \A i \in 1 .. m : c2[i] = c[i]
  <2>1. c \in Seq(Address) /\ Len(c) = m
    BY <1>2
  <2>2. QED
    BY <2>1, AppendProperties
<1>8. /\ p2 \in Seq(Q!Data) /\ Len(p2) = m + 1 /\ p2[m + 1] = d
      /\ \A i \in 1 .. m : p2[i] = p[i]
  BY <1>2, <1>3, AppendProperties
<1>9. total_data_size' = Total(p2)
  <2>1. Total(p2) = Total(p) + Len(d)
    BY <1>2, <1>3, TotalAppend
  <2>2. total_data_size = Total(p)
    BY <1>1 DEF Shape
  <2>3. QED
    BY <1>3, <2>1, <2>2
<1> HIDE DEF c2, p2
<1>10. last_element' = LastOf(c2)
  <2>1. c2 # <<>>
    BY <1>2, <1>7, EmptySeq
  <2>2. QED
    BY <1>4, <1>7, <2>1 DEF LastOf
<1>11. ASSUME NEW i \in 1 .. m + 1 PROVE p2[i] = data'[c2[i]]
  <2>1. CASE i = m + 1
    BY <1>3, <1>7, <1>8, <2>1
  <2>2. CASE i \in 1 .. m
    <3>1. data'[c[i]] = data[c[i]]
      BY <1>2, <1>3, <2>2
    <3>2. QED
      BY <1>2, <1>7, <1>8, <2>2, <3>1
  <2>3. QED
    BY <1>2, <2>1, <2>2
<1>12. QED
  BY <1>3, <1>6, <1>7, <1>8, <1>9, <1>10, <1>11 DEF NewShape, Shape, c2, p2, c, p

\* The element at place k, the first or the last, is unlinked and freed.
LEMMA ElementGoes ==
    ASSUME Q!ConstantsOK, QueueInv, element_num # 0, NEW k \in {1, element_num},
           NEW b, b = Q!Chain[k],
           \A x \in Elements(Q!Chain) \ {b} :
               /\ next'[x] = IF x = prev[b] THEN next[b] ELSE next[x]
               /\ prev'[x] = IF x = next[b] THEN prev[b] ELSE prev[x],
           first_element' = IF prev[b] = Null THEN next[b] ELSE first_element,
           last_element' = LastOf(Without(Q!Chain, k)),
           element_num' = element_num - 1, data' = [data EXCEPT ![b] = <<>>],
           total_data_size' = total_data_size - Len(data[b])
    PROVE  NewShape(Without(Q!Chain, k), Without(Q!Pieces, k))
<1> DEFINE c == Q!Chain
           p == Q!Pieces
           c2 == Without(c, k)
           p2 == Without(p, k)
           m == element_num
<1>1. Shape(first_element, last_element, next, prev, data, m, total_data_size, c, p)
  BY DEF QueueInv
<1>2. /\ c \in Seq(Address) /\ m = Len(c) /\ m = Len(p) /\ m \in Nat /\ DOMAIN c = 1 .. m
      /\ p \in Seq(Q!Data) /\ p \in Seq(Seq(Byte)) /\ p # <<>>
      /\ \A i \in 1 .. m : /\ c[i] \in Address /\ c[i] \in Elements(c) /\ p[i] = data[c[i]]
      /\ 1 \in 1 .. m /\ m \in 1 .. m /\ k \in 1 .. m
      /\ Elements(c) \subseteq Address
  BY <1>1, ShapeParts
<1>3. data \in [Address -> Q!Data \cup {<<>>}] /\ Null \notin Address
  BY DEF QueueInv, QueueTypes, Q!ConstantsOK
<1> HIDE DEF c, p, m
<1>4. /\ Listed(Address, first_element', next', prev', c2)
      /\ Elements(c2) = Elements(c) \ {b} /\ Len(c2) = m - 1
  <2>1. Listed(Address, first_element, next, prev, c) /\ b = c[k]
    BY <1>1 DEF Shape, c
  <2>2. \A x \in Elements(c) \ {c[k]} :
           /\ next'[x] = IF x = prev[c[k]] THEN next[c[k]] ELSE next[x]
           /\ prev'[x] = IF x = next[c[k]] THEN prev[c[k]] ELSE prev[x]
    BY <2>1 DEF c
  <2>3. k \in DOMAIN c
    BY <1>2
  <2>4. /\ Listed(Address, IF prev[c[k]] = Null THEN next[c[k]] ELSE first_element, next', prev', c2)
        /\ Elements(c2) = Elements(c) \ {c[k]} /\ Len(c2) = Len(c) - 1
    BY <1>3, <2>1, <2>2, <2>3, Unlinked
  <2>5. QED
    BY <1>2, <2>1, <2>4
<1>5. p2 \in Seq(Q!Data)
  <2>1. Without(p, 1) \in Seq(Q!Data) /\ Without(p, Len(p)) \in Seq(Q!Data)
    BY <1>2, WithoutEnds
  <2>2. k = 1 \/ k = Len(p)
    BY <1>2 DEF m
  <2>3. QED
    BY <2>1, <2>2
<1>6. Total(p) = Total(p2) + Len(p[k]) /\ Total(p2) \in Nat /\ Len(p[k]) \in Nat
  <2>1. p2 \in Seq(Seq(Byte)) /\ p[k] \in Seq(Byte)
    BY <1>2, <1>5, DataSequences, ElementOfSeq
  <2>2. Total(p2) \in Nat /\ Len(p[k]) \in Nat
    BY <2>1, TotalType, LenProperties
  <2>3. CASE k = 1
    <3>1. p = <<p[k]>> \o p2
      BY <1>2, <2>3, WithoutEnds
    <3>2. Total(p) = Len(p[k]) + Total(p2)
      <4> HIDE DEF p2
      <4>1. Total(<<p[k]>> \o p2) = Len(p[k]) + Total(p2)
        BY <2>1, TotalCons
      <4>2. QED
        BY <3>1, <4>1
    <3>3. QED
      BY <2>2, <3>2
  <2>4. CASE k = m
    <3>1. p = Append(p2, p[k])
      <4>1. p = Append(Without(p, Len(p)), p[Len(p)])
        BY <1>2, WithoutEnds
      <4>2. k = Len(p)
        BY <1>2, <2>4
      <4>3. QED
        BY <4>1, <4>2
    <3>2. Total(p) = Total(p2) + Len(p[k])
      <4> HIDE DEF p2
      <4>1. Total(Append(p2, p[k])) = Total(p2) + Len(p[k])
        BY <2>1, TotalAppend
      <4>2. QED
        BY <3>1, <4>1
    <3>3. QED
      BY <2>2, <3>2
  <2>5. QED
    BY <2>3, <2>4 DEF m
<1>7. total_data_size' = Total(p2)
  <2>1. total_data_size = Total(p) /\ data[b] = p[k]
    BY <1>1, <1>2 DEF Shape, c
  <2>2. QED
    BY <1>6, <2>1
<1>8. Len(p2) = m - 1
  <2>1. p2 = [i \in 1 .. m - 1 |-> IF i < k THEN p[i] ELSE p[i + 1]] /\ m - 1 \in Nat
    BY <1>2 DEF Without
  <2>2. DOMAIN p2 = 1 .. m - 1 /\ m - 1 \in Nat
    BY <2>1
  <2>3. QED
    BY <1>5, <2>2, LenProperties
<1>9. ASSUME NEW i \in 1 .. m - 1 PROVE p2[i] = data'[c2[i]]
  <2> DEFINE j == IF i < k THEN i ELSE i + 1
  <2>1. j \in 1 .. m
    BY <1>2
  <2>2. p2[i] = p[j] /\ c2[i] = c[j]
    BY <1>2 DEF Without
  <2> HIDE DEF j
  <2>3. c2[i] \in Elements(c2)
    <3>1. i \in DOMAIN c2
      BY <1>2 DEF Without
    <3>2. QED
      BY <3>1 DEF Elements
  <2>4. c[j] # b /\ c[j] \in Address
    BY <1>2, <1>4, <2>1, <2>2, <2>3
  <2>5. data'[c[j]] = data[c[j]]
    BY <1>3, <2>4
  <2>6. QED
    BY <1>2, <2>1, <2>2, <2>5
<1> HIDE DEF c2, p2
<1>10. QED
  BY <1>4, <1>5, <1>7, <1>8, <1>9 DEF NewShape, Shape, c2, p2, c, p, m

LEMMA UnlinksFirst ==
    ASSUME Q!ConstantsOK, QueueInv, element_num # 0, Q!UnlinkFirst,
           total_data_size' = total_data_size - Len(data[first_element])
    PROVE  NewShape(Without(Q!Chain, 1), Without(Q!Pieces, 1))
<1> DEFINE c == Q!Chain
           m == element_num
           b == first_element
<1>1. Listed(Address, b, next, prev, c) /\ last_element = LastOf(c)
  BY DEF QueueInv, Shape
<1>2. /\ c \in Seq(Address) /\ m = Len(c) /\ m \in Nat /\ DOMAIN c = 1 .. m /\ c # <<>>
      /\ \A i \in 1 .. m : c[i] \in Address /\ c[i] # Null /\ c[i] \in Elements(c)
      /\ 1 \in 1 .. m /\ m \in 1 .. m /\ b = c[1] /\ last_element = c[m]
      /\ Elements(c) \subseteq Address
  BY ShapeParts DEF QueueInv
<1>3. next \in [Address -> Address \cup {Null}] /\ prev \in [Address -> Address \cup {Null}]
      /\ Null \notin Address
  BY DEF QueueInv, QueueTypes, Q!ConstantsOK
<1>4. /\ first_element' = next[b]
      /\ last_element' = IF next[b] = Null THEN Null ELSE last_element
      /\ prev' = [a \in Address |-> IF a = next[b] THEN Null ELSE prev[a]]
      /\ next' = [next EXCEPT ![b] = Null]
      /\ element_num' = element_num - 1 /\ data' = [data EXCEPT ![b] = <<>>]
  BY DEF Q!UnlinkFirst, Q!Free
<1> HIDE DEF c, b
<1>5. prev[b] = Null /\ next[b] = IF 1 = m THEN Null ELSE c[1 + 1]
  BY <1>1, <1>2 DEF Listed
<1>6. \A x \in Elements(c) \ {b} :
         /\ next'[x] = IF x = prev[b] THEN next[b] ELSE next[x]
         /\ prev'[x] = IF x = next[b] THEN prev[b] ELSE prev[x]
  <2>1. \A x \in Elements(c) \ {b} : x \in Address /\ x # Null
    BY <1>2, <1>3
  <2>2. QED
    BY <1>3, <1>4, <1>5, <2>1
<1>7. last_element' = LastOf(Without(c, 1))
  <2>1. Without(c, 1) = [i \in 1 .. m - 1 |-> IF i < 1 THEN c[i] ELSE c[i + 1]]
    BY <1>2 DEF Without
  <2>2. Without(c, 1) \in Seq(Address) /\ Len(Without(c, 1)) = m - 1
    <3>1. Without(c, 1) \in Seq(Address)
      BY <1>2, WithoutEnds
    <3>2. DOMAIN Without(c, 1) = 1 .. m - 1 /\ m - 1 \in Nat
      BY <1>2, <2>1
    <3>3. QED
      BY <3>1, <3>2, LenProperties
  <2>3. Without(c, 1) = <<>> <=> m = 1
    <3>1. Without(c, 1) = <<>> <=> m - 1 = 0
      BY <2>2, EmptySeq
    <3>2. QED
      BY <1>2, <3>1
  <2>4. m # 1 => Without(c, 1)[m - 1] = c[m]
    <3>1. m # 1 => m - 1 \in 1 .. m - 1 /\ ~(m - 1 < 1) /\ (m - 1) + 1 = m
      BY <1>2
    <3>2. QED
      BY <2>1, <3>1
  <2>5. next[b] = Null <=> m = 1
    <3>1. m # 1 => 1 + 1 \in 1 .. m
      BY <1>2
    <3>2. QED
      BY <1>2, <1>5, <3>1
  <2>6. QED
    BY <1>2, <1>4, <2>2, <2>3, <2>4, <2>5 DEF LastOf
<1>8. first_element' = IF prev[b] = Null THEN next[b] ELSE first_element
  BY <1>4, <1>5
<1>9. 1 \in {1, element_num} /\ b = c[1]
  BY <1>2
<1>10. QED
  <2>1. /\ 1 \in {1, element_num} /\ first_element = Q!Chain[1]
        /\ first_element' = IF prev[first_element] = Null THEN next[first_element] ELSE first_element
        /\ last_element' = LastOf(Without(Q!Chain, 1))
        /\ element_num' = element_num - 1 /\ data' = [data EXCEPT ![first_element] = <<>>]
    BY <1>4, <1>7, <1>8, <1>9 DEF c, b
  <2>2. \A x \in Elements(Q!Chain) \ {first_element} :
           /\ next'[x] = IF x = prev[first_element] THEN next[first_element] ELSE next[x]
           /\ prev'[x] = IF x = next[first_element] THEN prev[first_element] ELSE prev[x]
    BY <1>6 DEF c, b
  <2>3. QED
    BY <2>1, <2>2, ElementGoes

LEMMA UnlinksLast ==
    ASSUME Q!ConstantsOK, QueueInv, element_num # 0, Q!UnlinkLast,
           total_data_size' = total_data_size - Len(data[last_element])
    PROVE  NewShape(Without(Q!Chain, element_num), Without(Q!Pieces, element_num))
<1> DEFINE c == Q!Chain
           m == element_num
           b == last_element
<1>1. Listed(Address, first_element, next, prev, c)
  BY DEF QueueInv, Shape
<1>2. /\ c \in Seq(Address) /\ m = Len(c) /\ m \in Nat /\ DOMAIN c = 1 .. m /\ c # <<>>
      /\ \A i \in 1 .. m : c[i] \in Address /\ c[i] # Null /\ c[i] \in Elements(c)
      /\ 1 \in 1 .. m /\ m \in 1 .. m /\ b = c[m]
      /\ Elements(c) \subseteq Address
  BY ShapeParts DEF QueueInv
<1>3. next \in [Address -> Address \cup {Null}] /\ prev \in [Address -> Address \cup {Null}]
      /\ Null \notin Address
  BY DEF QueueInv, QueueTypes, Q!ConstantsOK
<1>4. /\ last_element' = prev[b]
      /\ first_element' = IF prev[b] = Null THEN Null ELSE first_element
      /\ next' = [a \in Address |-> IF a = prev[b] THEN Null ELSE next[a]]
      /\ prev' = [prev EXCEPT ![b] = Null]
      /\ element_num' = element_num - 1 /\ data' = [data EXCEPT ![b] = <<>>]
  BY DEF Q!UnlinkLast, Q!Free
<1> HIDE DEF c, b
<1>5. next[b] = Null /\ prev[b] = IF m = 1 THEN Null ELSE c[m - 1]
  BY <1>1, <1>2 DEF Listed
<1>6. \A x \in Elements(c) \ {b} :
         /\ next'[x] = IF x = prev[b] THEN next[b] ELSE next[x]
         /\ prev'[x] = IF x = next[b] THEN prev[b] ELSE prev[x]
  <2>1. \A x \in Elements(c) \ {b} : x \in Address /\ x # Null
    BY <1>2, <1>3
  <2>2. QED
    BY <1>3, <1>4, <1>5, <2>1
<1>7. last_element' = LastOf(Without(c, m))
  <2>1. Without(c, m) = [i \in 1 .. m - 1 |-> IF i < m THEN c[i] ELSE c[i + 1]]
    BY <1>2 DEF Without
  <2>2. Without(c, m) \in Seq(Address) /\ Len(Without(c, m)) = m - 1
    <3>1. Without(c, m) \in Seq(Address)
      BY <1>2, WithoutEnds
    <3>2. DOMAIN Without(c, m) = 1 .. m - 1 /\ m - 1 \in Nat
      BY <1>2, <2>1
    <3>3. QED
      BY <3>1, <3>2, LenProperties
  <2>3. Without(c, m) = <<>> <=> m = 1
    <3>1. Without(c, m) = <<>> <=> m - 1 = 0
      BY <2>2, EmptySeq
    <3>2. QED
      BY <1>2, <3>1
  <2>4. m # 1 => Without(c, m)[m - 1] = c[m - 1]
    <3>1. m # 1 => m - 1 \in 1 .. m - 1 /\ m - 1 < m
      BY <1>2
    <3>2. QED
      BY <2>1, <3>1
  <2>5. QED
    BY <1>4, <1>5, <2>2, <2>3, <2>4 DEF LastOf
<1>8. first_element' = IF prev[b] = Null THEN next[b] ELSE first_element
  BY <1>4, <1>5
<1>9. m \in {1, element_num} /\ b = c[m]
  BY <1>2
<1>10. QED
  <2>1. /\ element_num \in {1, element_num} /\ last_element = Q!Chain[element_num]
        /\ first_element' = IF prev[last_element] = Null THEN next[last_element] ELSE first_element
        /\ last_element' = LastOf(Without(Q!Chain, element_num))
        /\ element_num' = element_num - 1 /\ data' = [data EXCEPT ![last_element] = <<>>]
    BY <1>4, <1>7, <1>8, <1>9 DEF c, b
  <2>2. \A x \in Elements(Q!Chain) \ {last_element} :
           /\ next'[x] = IF x = prev[last_element] THEN next[last_element] ELSE next[x]
           /\ prev'[x] = IF x = next[last_element] THEN prev[last_element] ELSE prev[x]
    BY <1>6 DEF c, b
  <2>3. QED
    BY <2>1, <2>2, ElementGoes

\* Part of the data of the first element is used up.
LEMMA ElementShrinks ==
    ASSUME Q!ConstantsOK, QueueInv, element_num # 0, NEW n \in 1 .. Len(data[first_element]) - 1,
           data' = [data EXCEPT ![first_element] = Q!Rest(@, n)],
           total_data_size' = total_data_size - n,
           UNCHANGED <<first_element, last_element, prev, next, element_num>>
    PROVE  NewShape(Q!Chain, <<Q!Rest(Q!Pieces[1], n)>> \o Tail(Q!Pieces))
<1> DEFINE c == Q!Chain
           p == Q!Pieces
           d == Q!Rest(p[1], n)
           p2 == <<d>> \o Tail(p)
           m == element_num
           b == first_element
<1>1. Shape(b, last_element, next, prev, data, m, total_data_size, c, p)
  BY DEF QueueInv
<1>2. /\ c \in Seq(Address) /\ m = Len(c) /\ m = Len(p) /\ m \in Nat
      /\ p \in Seq(Q!Data) /\ p # <<>> /\ p \in Seq(Seq(Byte))
      /\ \A i \in 1 .. m : c[i] \in Address /\ p[i] = data[c[i]] /\ p[i] \in Q!Data
      /\ 1 \in 1 .. m /\ b = c[1]
  BY <1>1, ShapeParts
<1>3. \A i, j \in 1 .. m : c[i] = c[j] => i = j
  <2>1. \A i, j \in DOMAIN c : c[i] = c[j] => i = j
    BY <1>1 DEF Shape, Listed
  <2>2. DOMAIN c = 1 .. m
    BY <1>1, ShapeParts
  <2>3. QED
    BY <2>1, <2>2
<1>4. data \in [Address -> Q!Data \cup {<<>>}]
  BY DEF QueueInv, QueueTypes
<1>5. p[1] \in Q!Data /\ p[1] = data[b] /\ Len(p[1]) \in Nat /\ n \in 1 .. Len(p[1]) - 1
  BY <1>2, DataParts
<1>6. d \in Q!Data /\ Len(d) = Len(p[1]) - n
  <2>1. n \in 0 .. Len(p[1]) - 1
    BY <1>5
  <2>2. QED
    BY <1>5, <2>1, DataParts
<1>7. \A x \in Address : data'[x] = IF x = b THEN d ELSE data[x]
  BY <1>4, <1>5
<1> HIDE DEF c, p, m, d, b
<1>8. Tail(p) \in Seq(Q!Data) /\ Tail(p) \in Seq(Seq(Byte)) /\ p = <<p[1]>> \o Tail(p)
      /\ Len(Tail(p)) = m - 1 /\ \A i \in 1 .. m - 1 : Tail(p)[i] = p[i + 1]
  <2>1. Tail(p) \in Seq(Q!Data) /\ Len(Tail(p)) = Len(p) - 1
        /\ \A i \in 1 .. Len(Tail(p)) : Tail(p)[i] = p[i + 1]
    BY <1>2, HeadTailProperties
  <2>2. p = <<p[1]>> \o Tail(p)
    BY <1>2, WithoutEnds
  <2>3. Tail(p) \in Seq(Seq(Byte))
    BY <2>1, DataSequences
  <2>4. QED
    BY <1>2, <2>1, <2>2, <2>3
<1>9. /\ p2 \in Seq(Q!Data) /\ Len(p2) = m
      /\ \A i \in 1 .. m : p2[i] = IF i = 1 THEN d ELSE p[i]
  <2>1. /\ p2 \in Seq(Q!Data) /\ Len(p2) = Len(Tail(p)) + 1
        /\ \A i \in 1 .. Len(Tail(p)) + 1 : p2[i] = IF i = 1 THEN d ELSE Tail(p)[i - 1]
    BY <1>6, <1>8, ConsParts
  <2>2. (m - 1) + 1 = m /\ \A i \in 1 .. m : i # 1 => i - 1 \in 1 .. m - 1 /\ (i - 1) + 1 = i
    BY <1>2
  <2>3. Len(Tail(p)) + 1 = m
    BY <1>8, <2>2
  <2>4. \A i \in 1 .. m : i # 1 => Tail(p)[i - 1] = p[i]
    BY <1>8, <2>2
  <2>5. QED
    BY <2>1, <2>3, <2>4
<1>10. total_data_size' = Total(p2)
  <2>1. p[1] \in Seq(Byte) /\ d \in Seq(Byte)
    BY <1>5, <1>6, DataParts
  <2>2. Total(p2) = Len(d) + Total(Tail(p))
    BY <1>8, <2>1, TotalCons
  <2>3. Total(p) = Len(p[1]) + Total(Tail(p))
    <3>1. Total(<<p[1]>> \o Tail(p)) = Len(p[1]) + Total(Tail(p))
      BY <1>8, <2>1, TotalCons
    <3>2. QED
      BY <1>8, <3>1
  <2>4. Total(Tail(p)) \in Nat
    BY <1>8, TotalType
  <2>5. total_data_size = Total(p)
    BY <1>1 DEF Shape
  <2>6. \A x, y \in Nat : (x + y) - n = (x - n) + y
    BY <1>5
  <2>7. QED
    BY <1>5, <1>6, <2>2, <2>3, <2>4, <2>5, <2>6
<1> HIDE DEF p2
<1>11. ASSUME NEW i \in 1 .. m PROVE p2[i] = data'[c[i]]
  <2>1. CASE i = 1
    BY <1>2, <1>7, <1>9, <2>1
  <2>2. CASE i # 1
    BY <1>2, <1>3, <1>7, <1>9, <2>2
  <2>3. QED
    BY <2>1, <2>2
<1>12. Listed(Address, first_element', next', prev', c) /\ last_element' = LastOf(c) /\ element_num' = Len(c)
  BY <1>1 DEF Shape, b, m
<1>13. NewShape(c, p2)
  BY <1>2, <1>9, <1>10, <1>11, <1>12 DEF NewShape, Shape
<1>14. QED
  BY <1>13 DEF p2, c, p, d

LEMMA QueueInvFrom ==
    ASSUME Q!ConstantsOK, QueueTypes', NEW c, NEW p, NewShape(c, p)
    PROVE  QueueInv' /\ Q!Pieces' = p
<1>1. Q!Chain' = c /\ Q!Pieces' = p
  BY NewShapeIsSeen
<1>2. QED
  BY <1>1 DEF NewShape, Shape, QueueInv

\* What an action of BufferQueue must be: it keeps the invariant, and a client
\* sees an operation of the double-ended queue, or nothing.
Simulates == QueueInv' /\ [Q!Deque!Next]_<<Q!Pieces, out>>

LEMMA CountsOfData ==
    ASSUME Q!ConstantsOK, NEW d \in Q!Data, NEW n \in 0 .. Len(d) PROVE n \in Q!Deque!Counts
<1>1. PICK e \in Piece : Len(e) \in Nat /\ Len(d) <= Len(e) /\ Len(d) \in Nat
  BY DataParts
<1>2. n \in 0 .. Len(e)
  BY <1>1
<1>3. Len(e) \in Q!Deque!Sizes
  BY DEF Q!Deque!Sizes
<1>4. QED
  BY <1>2, <1>3 DEF Q!Deque!Counts

LEMMA PushSimulates ==
    ASSUME Q!ConstantsOK, QueueInv, NEW a \in Address, NEW d \in Piece,
           Q!pushElementToFront(a, d) \/ Q!pushElementToLast(a, d)
    PROVE  Simulates
<1>1. /\ first_element \in Address \cup {Null} /\ last_element \in Address \cup {Null}
      /\ Q!Pieces \in Seq(Q!Data)
  BY ShapeParts DEF QueueInv
<1>2. QueueTypes
  BY DEF QueueInv
<1>3. Q!NewElement(a, d)
  BY DEF Q!pushElementToFront, Q!pushElementToLast
<1>4. /\ d \in Q!Data /\ op = Q!Idle /\ op' = op /\ data' = [data EXCEPT ![a] = d] /\ out' = <<>>
  BY <1>3, NewElementParts
<1>5. op'.name = "none"
  BY <1>4 DEF Q!Idle
<1>6. QueueTypes'
  <2>1. /\ prev' \in [Address -> Address \cup {Null}] /\ next' \in [Address -> Address \cup {Null}]
    <3>1. CASE Q!pushElementToFront(a, d)
      BY <1>1, <1>2, <3>1 DEF Q!pushElementToFront, QueueTypes
    <3>2. CASE Q!pushElementToLast(a, d)
      BY <1>1, <1>2, <3>2 DEF Q!pushElementToLast, QueueTypes
    <3>3. QED
      BY <3>1, <3>2
  <2>2. QED
    BY <1>2, <1>4, <1>5, <2>1 DEF QueueTypes
<1>7. CASE Q!pushElementToFront(a, d)
  <2>1. QueueInv' /\ Q!Pieces' = <<d>> \o Q!Pieces
    BY <1>6, <1>7, PushesFront, QueueInvFrom
  <2>2. Q!Deque!Push(d)
    BY <1>4, <2>1 DEF Q!Deque!Push
  <2>3. QED
    BY <2>1, <2>2 DEF Simulates, Q!Deque!Next
<1>8. CASE Q!pushElementToLast(a, d)
  <2>1. QueueInv' /\ Q!Pieces' = Append(Q!Pieces, d)
    BY <1>6, <1>8, PushesLast, QueueInvFrom
  <2>2. Append(Q!Pieces, d) = Q!Pieces \o <<d>>
    BY <1>1, <1>4, AppendIsConcat
  <2>3. Q!Deque!Push(d)
    BY <1>4, <2>1, <2>2 DEF Q!Deque!Push
  <2>4. QED
    BY <2>1, <2>3 DEF Simulates, Q!Deque!Next
<1>9. QED
  BY <1>7, <1>8

\* What is known of a queue that is not empty.
LEMMA NotEmptyParts ==
    ASSUME Q!ConstantsOK, QueueInv, element_num # 0
    PROVE  /\ Q!Pieces \in Seq(Q!Data) /\ Q!Pieces # <<>> /\ element_num = Len(Q!Pieces)
           /\ first_element \in Address /\ last_element \in Address
           /\ Head(Q!Pieces) = data[first_element] /\ data[first_element] \in Q!Data
           /\ Q!Pieces[1] = data[first_element]
           /\ Q!Pieces[Len(Q!Pieces)] = data[last_element] /\ data[last_element] \in Q!Data
           /\ Len(data[first_element]) \in Nat \ {0} /\ Len(data[last_element]) \in Nat
           /\ Without(Q!Pieces, 1) = Tail(Q!Pieces)
           /\ Without(Q!Pieces, element_num) = SubSeq(Q!Pieces, 1, Len(Q!Pieces) - 1)
<1> DEFINE p == Q!Pieces
           m == element_num
<1>1. /\ p \in Seq(Q!Data) /\ m = Len(p) /\ p # <<>>
      /\ \A i \in 1 .. m : p[i] = data[Q!Chain[i]] /\ p[i] \in Q!Data /\ Q!Chain[i] \in Address
      /\ 1 \in 1 .. m /\ m \in 1 .. m /\ first_element = Q!Chain[1] /\ last_element = Q!Chain[m]
  BY ShapeParts DEF QueueInv
<1>2. p[1] = data[first_element] /\ p[m] = data[last_element] /\ p[1] \in Q!Data /\ p[m] \in Q!Data
      /\ first_element \in Address /\ last_element \in Address
  BY <1>1
<1>3. Len(p[1]) \in Nat \ {0} /\ Len(p[m]) \in Nat
  BY <1>2, DataParts
<1>4. Head(p) = p[1] /\ Without(p, 1) = Tail(p) /\ Without(p, Len(p)) = SubSeq(p, 1, Len(p) - 1)
  BY <1>1, WithoutEnds
<1>5. QED
  BY <1>1, <1>2, <1>3, <1>4

\* The unlinking parts leave well-typed links.
LEMMA UnlinkTypes ==
    ASSUME Q!ConstantsOK, QueueInv, element_num # 0, Q!UnlinkFirst \/ Q!UnlinkLast
    PROVE  /\ prev' \in [Address -> Address \cup {Null}] /\ next' \in [Address -> Address \cup {Null}]
           /\ data' \in [Address -> Q!Data \cup {<<>>}]
<1>1. first_element \in Address /\ last_element \in Address
  BY NotEmptyParts
<1>2. CASE Q!UnlinkFirst
  BY <1>1, <1>2 DEF QueueInv, QueueTypes, Q!UnlinkFirst, Q!Free
<1>3. CASE Q!UnlinkLast
  BY <1>1, <1>3 DEF QueueInv, QueueTypes, Q!UnlinkLast, Q!Free
<1>4. QED
  BY <1>2, <1>3

LEMMA PopSimulates ==
    ASSUME Q!ConstantsOK, QueueInv, NEW size \in 0 .. MaxBytes,
           Q!popElementFromFront(size) \/ Q!popElementFromLast(size)
    PROVE  Simulates
<1>1. element_num # 0 /\ op = Q!Idle /\ op' = op
  BY DEF Q!popElementFromFront, Q!popElementFromLast
<1>2. size \in Nat
  BY DEF Q!ConstantsOK
<1>3. QueueTypes'
  <2>1. op'.name = "none"
    BY <1>1 DEF Q!Idle
  <2>2. Q!UnlinkFirst \/ Q!UnlinkLast
    BY DEF Q!popElementFromFront, Q!popElementFromLast
  <2>3. QED
    BY <1>1, <2>1, <2>2, UnlinkTypes DEF QueueInv, QueueTypes
<1>4. CASE Q!popElementFromFront(size)
  <2> DEFINE n == Q!Min2(Len(data[first_element]), size)
  <2>1. /\ out' = Q!First(data[first_element], n) /\ Q!UnlinkFirst
        /\ total_data_size' = total_data_size - Len(data[first_element])
    BY <1>4 DEF Q!popElementFromFront
  <2>2. n \in 0 .. Len(data[first_element])
    BY <1>1, <1>2, NotEmptyParts DEF Q!Min2
  <2>3. QueueInv' /\ Q!Pieces' = Tail(Q!Pieces)
    BY <1>1, <1>3, <2>1, UnlinksFirst, QueueInvFrom, NotEmptyParts
  <2>4. n \in Q!Deque!Counts
    BY <1>1, <2>2, NotEmptyParts, CountsOfData
  <2>5. n <= Len(data[first_element])
    BY <1>1, <2>2, NotEmptyParts
  <2> HIDE DEF n
  <2>6. Q!Deque!PopFront(n)
    BY <1>1, <2>1, <2>3, <2>5, NotEmptyParts DEF Q!Deque!PopFront, Q!Deque!First, Q!First
  <2>7. QED
    BY <2>3, <2>4, <2>6 DEF Simulates, Q!Deque!Next
<1>5. CASE Q!popElementFromLast(size)
  <2> DEFINE n == Q!Min2(Len(data[last_element]), size)
  <2>1. /\ out' = Q!First(data[last_element], n) /\ Q!UnlinkLast
        /\ total_data_size' = total_data_size - Len(data[last_element])
    BY <1>5 DEF Q!popElementFromLast
  <2>2. n \in 0 .. Len(data[last_element])
    BY <1>1, <1>2, NotEmptyParts DEF Q!Min2
  <2>3. QueueInv' /\ Q!Pieces' = SubSeq(Q!Pieces, 1, Len(Q!Pieces) - 1)
    BY <1>1, <1>3, <2>1, UnlinksLast, QueueInvFrom, NotEmptyParts
  <2>4. n \in Q!Deque!Counts
    BY <1>1, <2>2, NotEmptyParts, CountsOfData
  <2>5. n <= Len(data[last_element])
    BY <1>1, <2>2, NotEmptyParts
  <2> HIDE DEF n
  <2>6. Q!Deque!PopBack(n)
    BY <1>1, <2>1, <2>3, <2>5, NotEmptyParts DEF Q!Deque!PopBack, Q!Deque!First, Q!First
  <2>7. QED
    BY <2>3, <2>4, <2>6 DEF Simulates, Q!Deque!Next
<1>6. QED
  BY <1>4, <1>5

\* popDataCrossElement and removeData begin, and clear.
LEMMA BeginSimulates ==
    ASSUME Q!ConstantsOK, QueueInv, NEW n \in 0 .. MaxBytes,
           Q!popDataCrossElement(n) \/ Q!removeData(n)
    PROVE  Simulates
<1>1. /\ element_num # 0 /\ n > 0 /\ out' = <<>> /\ UNCHANGED <<Q!elements, Q!counters>>
      /\ op' = [name |-> "popData", need |-> n] \/ op' = [name |-> "removeData", need |-> n]
  BY ShapeParts DEF Q!popDataCrossElement, Q!removeData, QueueInv
<1>2. UNCHANGED <<first_element, last_element, prev, next, data, element_num, total_data_size>>
  BY <1>1 DEF Q!elements, Q!counters
<1>3. first_element' # Null
  BY <1>1, <1>2, ShapeParts DEF QueueInv
<1>4. /\ op' \in [name : {"none", "popData", "removeData"}, need : 0 .. MaxBytes]
      /\ op'.need > 0
  BY <1>1
<1>5. QueueTypes'
  BY <1>2, <1>3, <1>4 DEF QueueInv, QueueTypes
<1>6. NewShape(Q!Chain, Q!Pieces)
  BY <1>2 DEF QueueInv, NewShape
<1>7. QueueInv' /\ Q!Pieces' = Q!Pieces
  BY <1>5, <1>6, QueueInvFrom
<1>8. Q!Deque!Begin
  BY <1>1, <1>7 DEF Q!Deque!Begin
<1>9. QED
  BY <1>7, <1>8 DEF Simulates, Q!Deque!Next

LEMMA ClearSimulates == ASSUME Q!ConstantsOK, QueueInv, Q!clear PROVE Simulates
<1>1. /\ first_element' = Null /\ last_element' = Null
      /\ element_num' = 0 /\ total_data_size' = 0
      /\ prev' = [a \in Address |-> Null] /\ next' = [a \in Address |-> Null]
      /\ data' = [a \in Address |-> <<>>]
      /\ out' = <<>> /\ op = Q!Idle /\ op' = op
  BY DEF Q!clear
<1>2. QueueTypes'
  BY <1>1 DEF QueueInv, QueueTypes, Q!Idle
<1>3. NewShape(<<>>, <<>>)
  <2>1. Listed(Address, first_element', next', prev', <<>>)
    BY <1>1, EmptyListed
  <2>2. <<>> \in Seq(Q!Data) /\ Len(<<>>) = 0 /\ LastOf(<<>>) = Null
    BY EmptySeq DEF LastOf
  <2>3. QED
    BY <1>1, <2>1, <2>2, TotalEmpty DEF NewShape, Shape
<1>4. QueueInv' /\ Q!Pieces' = <<>>
  BY <1>2, <1>3, QueueInvFrom
<1>5. Q!Deque!Clear
  BY <1>1, <1>4 DEF Q!Deque!Clear
<1>6. QED
  BY <1>4, <1>5 DEF Simulates, Q!Deque!Next

\* What a turn of the loops finds.
LEMMA TurnParts ==
    ASSUME Q!ConstantsOK, QueueInv, op.name # "none"
    PROVE  /\ element_num # 0 /\ element_num \in Nat
           /\ op.name \in {"none", "popData", "removeData"} /\ op.need \in 1 .. MaxBytes
           /\ Q!Portion \in 1 .. Len(data[first_element]) /\ Q!Portion <= op.need
<1>1. /\ op \in [name : {"none", "popData", "removeData"}, need : 0 .. MaxBytes]
      /\ op.need > 0 /\ first_element # Null
  BY DEF QueueInv, QueueTypes
<1>2. element_num # 0 /\ element_num \in Nat
  BY <1>1, ShapeParts DEF QueueInv
<1>3. op.need \in 1 .. MaxBytes /\ MaxBytes \in Nat
  BY <1>1 DEF Q!ConstantsOK
<1>4. Len(data[first_element]) \in Nat \ {0}
  BY <1>2, NotEmptyParts
<1>5. Q!Portion \in 1 .. Len(data[first_element]) /\ Q!Portion <= op.need
  BY <1>3, <1>4 DEF Q!Portion, Q!Min2
<1>6. QED
  BY <1>1, <1>2, <1>3, <1>5

\* A turn whose element ends as Shortened says is a turn of ByteDeque.
LEMMA TurnDelivers ==
    ASSUME Q!ConstantsOK, QueueInv, op.name # "none", Q!Deliver,
           Q!Pieces' = Q!Deque!Shortened(Q!Portion)
    PROVE  Q!Deque!Next
<1> DEFINE n == Q!Portion
<1>1. n \in 1 .. Len(data[first_element]) /\ element_num # 0
  BY TurnParts
<1>2. /\ Q!Pieces # <<>> /\ Head(Q!Pieces) = data[first_element]
      /\ data[first_element] \in Q!Data /\ Len(data[first_element]) \in Nat
  BY <1>1, NotEmptyParts
<1>3. n \in Q!Deque!Counts
  BY <1>1, <1>2, CountsOfData
<1>4. CASE op.name = "popData"
  <2>1. out' = out \o SubSeq(Head(Q!Pieces), 1, n)
    BY <1>2, <1>4 DEF Q!Deliver, Q!First
  <2>2. Q!Deque!Take(n)
    BY <1>1, <1>2, <2>1 DEF Q!Deque!Take, Q!Deque!First
  <2>3. QED
    BY <1>3, <2>2 DEF Q!Deque!Next
<1>5. CASE op.name # "popData"
  <2>1. UNCHANGED out
    BY <1>5 DEF Q!Deliver
  <2>2. Q!Deque!Remove(n)
    BY <1>1, <1>2, <2>1 DEF Q!Deque!Remove
  <2>3. QED
    BY <1>3, <2>2 DEF Q!Deque!Next
<1>6. QED
  BY <1>4, <1>5

LEMMA TurnUsesUpSimulates == ASSUME Q!ConstantsOK, QueueInv, Q!TurnUsesUp PROVE Simulates
<1> DEFINE n == Q!Portion
           b == first_element
<1>1. /\ op.name # "none" /\ n = Len(data[b]) /\ Q!Deliver /\ Q!UnlinkFirst
      /\ total_data_size' = total_data_size - Len(data[b])
      /\ op' = IF op.need = n \/ element_num' = 0
               THEN Q!Idle ELSE [op EXCEPT !.need = @ - n]
  BY DEF Q!TurnUsesUp
<1>2. /\ element_num # 0 /\ op.need \in 1 .. MaxBytes /\ n \in 1 .. Len(data[b]) /\ n <= op.need
      /\ op.name \in {"none", "popData", "removeData"}
  BY <1>1, TurnParts
<1>3. NewShape(Without(Q!Chain, 1), Without(Q!Pieces, 1))
  BY <1>1, <1>2, UnlinksFirst
<1>4. element_num' = 0 <=> first_element' = Null
  BY <1>3, ShapeParts DEF NewShape
<1>5. MaxBytes \in Nat /\ op \in [name : {"none", "popData", "removeData"}, need : 0 .. MaxBytes]
  BY DEF Q!ConstantsOK, QueueInv, QueueTypes
<1>6. /\ op' \in [name : {"none", "popData", "removeData"}, need : 0 .. MaxBytes]
      /\ op'.name # "none" => op'.need > 0 /\ first_element' # Null
  <2>1. CASE op.need = n \/ element_num' = 0
    BY <1>1, <1>5, <2>1 DEF Q!Idle
  <2>2. CASE op.need # n /\ element_num' # 0
    <3>1. op.need - n \in 1 .. MaxBytes /\ n \in Nat
      BY <1>2, <1>5, <2>2, NotEmptyParts
    <3>2. op' = [op EXCEPT !.need = op.need - n]
      BY <1>1, <2>2
    <3> HIDE DEF n
    <3>3. QED
      BY <1>4, <1>5, <2>2, <3>1, <3>2
  <2>3. QED
    BY <2>1, <2>2
<1>7. QueueTypes'
  BY <1>1, <1>2, <1>6, UnlinkTypes DEF QueueTypes
<1>8. QueueInv' /\ Q!Pieces' = Tail(Q!Pieces)
  BY <1>2, <1>3, <1>7, QueueInvFrom, NotEmptyParts
<1>9. Q!Pieces' = Q!Deque!Shortened(n)
  BY <1>1, <1>2, <1>8, NotEmptyParts DEF Q!Deque!Shortened
<1>10. QED
  BY <1>1, <1>8, <1>9, TurnDelivers DEF Simulates

LEMMA TurnShortensSimulates == ASSUME Q!ConstantsOK, QueueInv, Q!TurnShortens PROVE Simulates
<1> DEFINE n == Q!Portion
           b == first_element
<1>1. /\ op.name # "none" /\ n < Len(data[b]) /\ Q!Deliver
      /\ data' = [data EXCEPT ![b] = Q!Rest(@, n)]
      /\ total_data_size' = total_data_size - n
      /\ op' = Q!Idle
      /\ UNCHANGED <<first_element, last_element, prev, next, element_num>>
  BY DEF Q!TurnShortens
<1>2. /\ element_num # 0 /\ n \in 1 .. Len(data[b])
  BY <1>1, TurnParts
<1>3. /\ data[b] \in Q!Data /\ Len(data[b]) \in Nat /\ b \in Address
      /\ Q!Pieces # <<>> /\ Head(Q!Pieces) = data[b] /\ Q!Pieces[1] = data[b]
  BY <1>2, NotEmptyParts
<1>4. n \in 1 .. Len(data[b]) - 1 /\ n # Len(data[b]) /\ n \in 0 .. Len(data[b]) - 1
  BY <1>1, <1>2, <1>3
<1>5. NewShape(Q!Chain, <<Q!Rest(Q!Pieces[1], n)>> \o Tail(Q!Pieces))
  BY <1>1, <1>2, <1>4, ElementShrinks
<1>6. Q!Rest(data[b], n) \in Q!Data
  BY <1>3, <1>4, DataParts DEF Q!Rest
<1>7. QueueTypes'
  <2>1. op' \in [name : {"none", "popData", "removeData"}, need : 0 .. MaxBytes] /\ op'.name = "none"
    BY <1>1 DEF Q!Idle, Q!ConstantsOK
  <2>2. data' \in [Address -> Q!Data \cup {<<>>}]
    BY <1>1, <1>6 DEF QueueInv, QueueTypes
  <2>3. QED
    BY <1>1, <2>1, <2>2 DEF QueueInv, QueueTypes
<1>8. QueueInv' /\ Q!Pieces' = <<Q!Rest(Q!Pieces[1], n)>> \o Tail(Q!Pieces)
  BY <1>5, <1>7, QueueInvFrom
<1>9. Q!Pieces' = Q!Deque!Shortened(n)
  BY <1>3, <1>4, <1>8 DEF Q!Deque!Shortened, Q!Rest
<1>10. QED
  BY <1>1, <1>8, <1>9, TurnDelivers DEF Simulates

LEMMA QueueStutters == ASSUME Q!ConstantsOK, QueueInv, UNCHANGED Q!vars PROVE Simulates
<1>1. UNCHANGED <<first_element, last_element, prev, next, data, element_num, total_data_size,
                  op, out>>
  BY DEF Q!vars, Q!elements, Q!counters
<1>2. QueueTypes' /\ NewShape(Q!Chain, Q!Pieces)
  BY <1>1 DEF QueueInv, QueueTypes, NewShape
<1>3. QueueInv' /\ Q!Pieces' = Q!Pieces
  BY <1>2, QueueInvFrom
<1>4. QED
  BY <1>1, <1>3 DEF Simulates

LEMMA QueueSimulates == ASSUME Q!ConstantsOK, QueueInv, [Q!Next]_Q!vars PROVE Simulates
<1>1. CASE \E a \in Address, d \in Piece :
              Q!pushElementToFront(a, d) \/ Q!pushElementToLast(a, d)
  BY <1>1, PushSimulates
<1>2. CASE \E n \in 0 .. MaxBytes : Q!popElementFromFront(n) \/ Q!popElementFromLast(n)
  BY <1>2, PopSimulates
<1>3. CASE \E n \in 0 .. MaxBytes : Q!popDataCrossElement(n) \/ Q!removeData(n)
  BY <1>3, BeginSimulates
<1>4. CASE Q!TurnUsesUp \/ Q!TurnShortens
  BY <1>4, TurnUsesUpSimulates, TurnShortensSimulates
<1>5. CASE Q!clear
  BY <1>5, ClearSimulates
<1>6. CASE UNCHANGED Q!vars
  BY <1>6, QueueStutters
<1>7. QED
  BY <1>1, <1>2, <1>3, <1>4, <1>5, <1>6 DEF Q!Next

\* WellLinked is Shape, read through the operators of BufferQueue.
LEMMA QueueInvHolds == ASSUME Q!ConstantsOK, QueueInv PROVE Q!WellLinked
<1> DEFINE c == Q!Chain
<1>1. Shape(first_element, last_element, next, prev, data, element_num, total_data_size, c, Q!Pieces)
  BY DEF QueueInv
<1>2. Q!Allocated = Elements(c) /\ Q!Bytes(c) = total_data_size
  BY <1>1, ShapeIsSeen
<1>3. /\ IsFiniteSet(Address) /\ Null \notin Address
      /\ Listed(Address, first_element, next, prev, c)
      /\ last_element = LastOf(c) /\ element_num = Len(c)
  BY <1>1, Counts DEF Shape, Q!ConstantsOK
<1>4. Q!Cardinality(Elements(c)) = Len(c)
  BY <1>3, ListCount, Counts, ListedParts
<1>5. \A i \in DOMAIN c : prev[c[i]] = IF i = 1 THEN Null ELSE c[i - 1]
  BY <1>3 DEF Listed
<1>6. QED
  BY <1>2, <1>3, <1>4, <1>5 DEF Q!WellLinked, LastOf
-----------------------------------------------------------------------------
(* The theorems of BufferQueue.                                             *)

\* Walked from either end the list has the same elements, as many as
\* element_num_, and total_data_size_ is the sum of their sizes, before and
\* after every push, pop and turn of popDataCrossElement and removeData.
THEOREM ListIsWhole == Q!ConstantsOK => (Q!Spec => []Q!WellLinked)
<1> SUFFICES ASSUME Q!ConstantsOK PROVE Q!Spec => []Q!WellLinked
  OBVIOUS
<1>1. Q!Init => QueueInv
  BY QueueInit
<1>2. QueueInv /\ [Q!Next]_Q!vars => QueueInv'
  BY QueueSimulates DEF Simulates
<1>3. QueueInv => Q!WellLinked
  BY QueueInvHolds
<1>4. QED
  BY <1>1, <1>2, <1>3, PTL DEF Q!Spec

\* Neither component ever breaks a list: WellLinked of the queue, and of the
\* pool that its two lists share no block and have each block once.  Of the
\* callers it asks that no pool is used while it is moved from.
THEOREM LinksAlwaysHold ==
    Q!ConstantsOK /\ M!ConstantsOK /\ ~SourceShared => (Q!Spec /\ M!Spec => []LinksHold)
BY ListIsWhole, PoolsHoldBlocks, PTL DEF LinksHold

\* BufferQueue implements ByteDeque: whatever the links, a push, a pop, a turn
\* of popDataCrossElement or removeData and clear do to the pieces, and deliver,
\* what the double-ended queue does.
THEOREM QueueIsDeque == Q!ConstantsOK => (Q!Spec => ActsAsDeque)
<1> SUFFICES ASSUME Q!ConstantsOK PROVE Q!Spec => ActsAsDeque
  OBVIOUS
<1>1. Q!Init => QueueInv /\ Q!Deque!Init
  BY QueueInit
<1>2. QueueInv /\ [Q!Next]_Q!vars => QueueInv' /\ [Q!Deque!Next]_<<Q!Pieces, out>>
  BY QueueSimulates DEF Simulates
<1>3. QED
  BY <1>1, <1>2, PTL DEF Q!Spec, ActsAsDeque, Q!ActsAsDeque, Q!Deque!Spec
=============================================================================
