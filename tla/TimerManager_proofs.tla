------------------------- MODULE TimerManager_proofs -------------------------
(***************************************************************************)
(* TimerManager for any clients, timers, delays and periods: the type      *)
(* invariant, the life of an id, the wake-up of the worker, and that a     *)
(* timer is called only as it was asked for.                               *)
(***************************************************************************)
EXTENDS TimerManager, SequenceTheorems, FiniteSetTheorems, TLAPS

Entry == [timer : Timer, period : Nat, valid : BOOLEAN]

Sorted(q) == \A i, j \in DOMAIN q : i < j => q[i].next <= q[j].next
Refs(q) == {q[i].ref : i \in DOMAIN q}
Once(q) == \A i, j \in DOMAIN q : q[i].ref = q[j].ref => i = j

Elements(q) == {q[i] : i \in DOMAIN q}
Once1(q) == \A i, j \in DOMAIN q : q[i] = q[j] => i = j

\* Every id is in one place, and in each at most once.
OnePlace ==
    /\ Ids = Refs(time_events) \cup InHandler \cup Elements(free_ids)
    /\ Refs(time_events) \cap InHandler = {}
    /\ Elements(free_ids) \cap (Refs(time_events) \cup InHandler) = {}
    /\ Once(time_events) /\ Once1(free_ids)
    /\ \A id \in Refs(time_events) : events[id].valid
    /\ \A id \in Elements(free_ids) : ~events[id].valid

\* An entry of the table is that of the last call of add that returned its id,
\* with the period of that call; a timer that is fired or removed was added.
EntryIsOfCall ==
    /\ \A id \in Ids : handle[events[id].timer] = id /\ events[id].period = Period[events[id].timer]
    /\ \A t \in Timer : fired[t] # 0 \/ t \in removed => handle[t] # 0

\* What is scheduled may still fire.
ScheduledMayFire ==
    /\ \A id \in Ids : events[id].valid => events[id].timer \notin removed
    /\ \A id \in Refs(time_events) : Period[events[id].timer] = 0 => fired[events[id].timer] = 0

\* So may what was taken, unless it was cancelled since: then it is late.
TakenMayFire ==
    pc = "taken" =>
        LET t == events[te.ref].timer IN
        /\ t \in removed => t \in late
        /\ Period[t] = 0 => fired[t] = 0

IInv == TypeOK /\ OnePlace /\ EntryIsOfCall /\ ScheduledMayFire /\ TakenMayFire /\ NoLostWakeup
-----------------------------------------------------------------------------
(* The sorted queue. *)


LEMMA LeastNumber ==
    ASSUME NEW S \in SUBSET Nat, S # {} PROVE \E m \in S : \A n \in S : m <= n
<1>1. PICK m \in S : \A n \in S : ~ (<<n, m>> \in OpToRel(<, Nat))
  BY WFMin, NatLessThanWellFounded
<1>2. \A n \in S : ~ (n < m)
  BY <1>1 DEF OpToRel
<1>3. QED
  BY <1>2

LEMMA EventsOf ==
    ASSUME NEW q \in Seq(Event)
    PROVE  /\ Len(q) \in Nat /\ DOMAIN q = 1 .. Len(q)
           /\ \A i \in 1 .. Len(q) : q[i] \in Event /\ q[i].next \in Int /\ q[i].ref \in Nat
<1>1. /\ Len(q) \in Nat /\ DOMAIN q = 1 .. Len(q)
      /\ \A i \in 1 .. Len(q) : q[i] \in Event
  BY LenProperties, ElementOfSeq
<1>2. \A x \in Event : x.next \in Int /\ x.ref \in Nat
  BY DEF Event
<1>3. QED
  BY <1>1, <1>2

LEMMA Concatenated ==
    ASSUME NEW S, NEW s \in Seq(S), NEW t \in Seq(S), NEW m, NEW n, Len(s) = m, Len(t) = n
    PROVE  /\ m \in Nat /\ n \in Nat
           /\ s \o t \in Seq(S) /\ Len(s \o t) = m + n
           /\ \A i \in 1 .. m : (s \o t)[i] = s[i]
           /\ \A i \in 1 .. n : (s \o t)[m + i] = t[i]
<1>1. m \in Nat /\ n \in Nat
  BY LenProperties
<1>2. /\ s \o t \in Seq(S) /\ Len(s \o t) = m + n
      /\ \A i \in 1 .. m + n : (s \o t)[i] = IF i <= m THEN s[i] ELSE t[i - m]
  BY ConcatProperties
<1>3. ASSUME NEW i \in 1 .. m PROVE (s \o t)[i] = s[i]
  <2>1. i \in 1 .. m + n /\ i <= m
    BY <1>1
  <2>2. QED
    BY <1>2, <2>1
<1>4. ASSUME NEW i \in 1 .. n PROVE (s \o t)[m + i] = t[i]
  <2>1. m + i \in 1 .. m + n /\ ~(m + i <= m) /\ (m + i) - m = i
    BY <1>1
  <2>2. (s \o t)[m + i] = t[(m + i) - m]
    BY <1>2, <2>1
  <2>3. QED
    BY <2>1, <2>2
<1>5. QED
  BY <1>1, <1>2, <1>3, <1>4

LEMMA SliceOf ==
    ASSUME NEW S, NEW q \in Seq(S), NEW m \in 1 .. Len(q) + 1, NEW n \in m - 1 .. Len(q)
    PROVE  /\ SubSeq(q, m, n) \in Seq(S) /\ Len(SubSeq(q, m, n)) = n - m + 1
           /\ \A i \in 1 .. n - m + 1 : SubSeq(q, m, n)[i] = q[m + i - 1]
<1>1. Len(q) \in Nat /\ \A i \in 1 .. Len(q) : q[i] \in S
  BY LenProperties, ElementOfSeq
<1>2. m \in Int /\ n \in Int /\ \A i \in m .. n : q[i] \in S
  BY <1>1
<1>3. QED
  BY <1>1, <1>2, SubSeqProperties

\* A sorted queue has one place for a new event.
LEMMA UpperBound ==
    ASSUME NEW q \in Seq(Event), Sorted(q), NEW e \in Event
    PROVE  /\ upper_bound(q, e) \in 0 .. Len(q)
           /\ \A i \in 1 .. upper_bound(q, e) : q[i].next <= e.next
           /\ \A i \in upper_bound(q, e) + 1 .. Len(q) : q[i].next > e.next
<1> DEFINE Later == {i \in 1 .. Len(q) : q[i].next > e.next}
           Bound(n) == /\ \A i \in 1 .. n : q[i].next <= e.next
                       /\ \A i \in n + 1 .. Len(q) : q[i].next > e.next
<1>1. /\ Len(q) \in Nat /\ DOMAIN q = 1 .. Len(q)
      /\ \A i \in 1 .. Len(q) : q[i].next \in Int
      /\ e.next \in Int
  <2>1. e.next \in Int
    BY DEF Event
  <2>2. QED
    BY <2>1, EventsOf
<1>2. \E n \in 0 .. Len(q) : Bound(n)
  <2>1. CASE Later = {}
    <3>1. Len(q) \in 0 .. Len(q) /\ Len(q) + 1 .. Len(q) = {}
      BY <1>1
    <3>2. \A i \in 1 .. Len(q) : q[i].next <= e.next
      BY <1>1, <2>1
    <3>3. Bound(Len(q))
      BY <3>1, <3>2
    <3>4. QED
      BY <3>1, <3>3
  <2>2. CASE Later # {}
    <3>1. PICK m \in Later : \A i \in Later : m <= i
      <4>1. Later \in SUBSET Nat
        BY <1>1
      <4>2. QED
        BY <2>2, <4>1, LeastNumber
    <3>2. m \in 1 .. Len(q) /\ q[m].next > e.next
      OBVIOUS
    <3>3. \A i \in m .. Len(q) : q[i].next > e.next
      BY <1>1, <3>2 DEF Sorted
    <3>4. \A i \in 1 .. m - 1 : q[i].next <= e.next
      BY <1>1, <3>1, <3>2
    <3>5. m - 1 \in 0 .. Len(q) /\ Bound(m - 1)
      BY <1>1, <3>2, <3>3, <3>4
    <3>6. QED
      BY <3>5
  <2>3. QED
    BY <2>1, <2>2
<1>3. QED
  BY <1>2 DEF upper_bound

\* multiset::insert keeps the order and adds just this event.
LEMMA Inserted ==
    ASSUME NEW q \in Seq(Event), Sorted(q), NEW e \in Event
    PROVE  /\ insert(q, e) \in Seq(Event) /\ insert(q, e) # <<>>
           /\ Sorted(insert(q, e))
           /\ Refs(insert(q, e)) = Refs(q) \cup {e.ref}
           /\ Once(q) /\ e.ref \notin Refs(q) => Once(insert(q, e))
<1> DEFINE n == upper_bound(q, e)
           r == insert(q, e)
<1>1. /\ Len(q) \in Nat /\ DOMAIN q = 1 .. Len(q)
      /\ \A i \in 1 .. Len(q) : q[i] \in Event
      /\ \A i \in 1 .. Len(q) : q[i].next \in Int
      /\ e.next \in Int
  <2>1. e.next \in Int
    BY DEF Event
  <2>2. QED
    BY <2>1, EventsOf
<1>2. /\ n \in 0 .. Len(q)
      /\ \A i \in 1 .. n : q[i].next <= e.next
      /\ \A i \in n + 1 .. Len(q) : q[i].next > e.next
  BY UpperBound
<1> HIDE DEF n
<1>3. r = SubSeq(q, 1, n) \o <<e>> \o SubSeq(q, n + 1, Len(q))
  <2>1. (n + 1) - 1 = n
    BY <1>2
  <2>2. r = InsertAt(q, n + 1, e)
    BY DEF insert, n
  <2>3. QED
    BY <2>1, <2>2 DEF InsertAt
<1>4. /\ r \in Seq(Event) /\ Len(r) = Len(q) + 1
      /\ \A i \in 1 .. n : r[i] = q[i]
      /\ r[n + 1] = e
      /\ \A i \in n + 2 .. Len(q) + 1 : r[i] = q[i - 1]
  <2> DEFINE a == SubSeq(q, 1, n)
             b == SubSeq(q, n + 1, Len(q))
  <2>1. a \in Seq(Event) /\ Len(a) = n /\ \A i \in 1 .. n : a[i] = q[i]
    BY <1>1, <1>2, SliceOf
  <2>2. /\ b \in Seq(Event) /\ Len(b) = Len(q) - n
        /\ \A i \in 1 .. Len(q) - n : b[i] = q[n + i]
    <3>1. /\ n + 1 \in 1 .. Len(q) + 1 /\ Len(q) \in (n + 1) - 1 .. Len(q)
          /\ Len(q) - (n + 1) + 1 = Len(q) - n
      BY <1>1, <1>2
    <3>2. /\ b \in Seq(Event) /\ Len(b) = Len(q) - (n + 1) + 1
          /\ \A i \in 1 .. Len(q) - (n + 1) + 1 : b[i] = q[(n + 1) + i - 1]
      BY <3>1, SliceOf
    <3>3. \A i \in 1 .. Len(q) - n : (n + 1) + i - 1 = n + i
      BY <1>1, <1>2
    <3>4. QED
      BY <3>1, <3>2, <3>3
  <2> HIDE DEF a, b
  <2>3. <<e>> \in Seq(Event) /\ Len(<<e>>) = 1 /\ <<e>>[1] = e
    OBVIOUS
  <2>4. /\ a \o <<e>> \in Seq(Event) /\ Len(a \o <<e>>) = n + 1
        /\ \A i \in 1 .. n : (a \o <<e>>)[i] = a[i]
        /\ (a \o <<e>>)[n + 1] = e
    <3>1. 1 \in 1 .. 1
      OBVIOUS
    <3>2. QED
      BY <2>1, <2>3, <3>1, Concatenated
  <2> DEFINE ae == a \o <<e>>
             m == Len(b)
             k == Len(ae)
  <2>5. k = n + 1 /\ m = Len(q) - n
    BY <2>2, <2>4
  <2> HIDE DEF ae, m, k
  <2>6. /\ ae \in Seq(Event)
        /\ ae \o b \in Seq(Event) /\ Len(ae \o b) = k + m
        /\ \A i \in 1 .. k : (ae \o b)[i] = ae[i]
        /\ \A i \in 1 .. m : (ae \o b)[k + i] = b[i]
    <3>1. ae \in Seq(Event) /\ b \in Seq(Event) /\ Len(ae) = k /\ Len(b) = m
      BY <2>2, <2>4 DEF ae, m, k
    <3>2. QED
      BY <3>1, Concatenated
  <2>7. r = ae \o b
    BY <1>3 DEF ae, a, b
  <2> HIDE DEF r
  <2>8. ASSUME NEW i \in n + 2 .. Len(q) + 1 PROVE r[i] = q[i - 1]
    <3>1. i - k \in 1 .. m /\ k + (i - k) = i /\ n + (i - k) = i - 1
      BY <1>1, <1>2, <2>5
    <3>2. r[k + (i - k)] = b[i - k]
      BY <2>6, <2>7, <3>1
    <3>3. b[i - k] = q[n + (i - k)]
      BY <2>2, <2>5, <3>1
    <3>4. QED
      BY <3>1, <3>2, <3>3
  <2>9. /\ Len(r) = Len(q) + 1
        /\ \A i \in 1 .. n : r[i] = q[i]
        /\ r[n + 1] = e
    <3>1. k + m = Len(q) + 1 /\ n + 1 \in 1 .. k /\ \A i \in 1 .. n : i \in 1 .. k
      BY <1>1, <1>2, <2>5
    <3>2. /\ \A i \in 1 .. n : ae[i] = q[i]
          /\ ae[n + 1] = e
      BY <2>1, <2>4 DEF ae
    <3>3. QED
      BY <2>6, <2>7, <3>1, <3>2
  <2>10. QED
    BY <2>6, <2>7, <2>8, <2>9
<1> HIDE DEF r
<1>5. DOMAIN r = 1 .. Len(q) + 1
  BY <1>4, LenProperties
<1>p. ASSUME NEW i \in DOMAIN r
      PROVE  \/ i \in 1 .. n /\ i \in DOMAIN q /\ r[i] = q[i]
             \/ i = n + 1 /\ r[i] = e
             \/ i \in n + 2 .. Len(q) + 1 /\ i - 1 \in DOMAIN q /\ i - 1 \in n + 1 .. Len(q)
                /\ r[i] = q[i - 1]
  <2>1. CASE i <= n
    BY <1>1, <1>2, <1>4, <1>5, <2>1
  <2>2. CASE i = n + 1
    BY <1>4, <2>2
  <2>3. CASE i > n + 1
    BY <1>1, <1>2, <1>4, <1>5, <2>3
  <2>4. QED
    BY <1>1, <1>2, <1>5, <2>1, <2>2, <2>3
<1>6. Sorted(r)
  <2>1. ASSUME NEW i \in DOMAIN r, NEW j \in DOMAIN r, i < j PROVE r[i].next <= r[j].next
    <3>1. CASE i \in 1 .. n
      <4>1. i \in DOMAIN q /\ r[i] = q[i] /\ q[i].next <= e.next
        BY <1>1, <1>2, <1>4, <3>1
      <4>2. CASE j <= n
        <5>1. j \in DOMAIN q /\ r[j] = q[j]
          BY <1>1, <1>2, <1>4, <1>5, <2>1, <4>2
        <5>2. QED
          BY <2>1, <4>1, <5>1 DEF Sorted
      <4>3. CASE j = n + 1
        BY <1>4, <4>1, <4>3
      <4>4. CASE j > n + 1
        <5>1. j - 1 \in DOMAIN q /\ r[j] = q[j - 1] /\ i < j - 1
          BY <1>1, <1>2, <1>4, <1>5, <3>1, <4>4
        <5>2. QED
          BY <4>1, <5>1 DEF Sorted
      <4>5. QED
        BY <1>1, <1>2, <1>5, <4>2, <4>3, <4>4
    <3>2. CASE i = n + 1
      BY <1>1, <1>2, <1>p, <2>1, <3>2 DEF Sorted
    <3>3. CASE i \in n + 2 .. Len(q) + 1
      <4>1. j \in n + 2 .. Len(q) + 1 /\ i - 1 < j - 1
        BY <1>1, <1>2, <1>5, <2>1, <3>3
      <4>2. /\ i - 1 \in DOMAIN q /\ r[i] = q[i - 1]
            /\ j - 1 \in DOMAIN q /\ r[j] = q[j - 1]
        BY <1>1, <1>2, <1>4, <3>3, <4>1
      <4>3. QED
        BY <4>1, <4>2 DEF Sorted
    <3>4. QED
      BY <1>p, <3>1, <3>2, <3>3
  <2>2. QED
    BY <2>1 DEF Sorted
<1>7. Refs(r) = Refs(q) \cup {e.ref}
  <2>1. \A i \in DOMAIN r : r[i].ref \in Refs(q) \cup {e.ref}
    BY <1>p DEF Refs
  <2>2. ASSUME NEW i \in DOMAIN q PROVE \E j \in DOMAIN r : r[j] = q[i]
    <3>1. CASE i <= n
      BY <1>1, <1>2, <1>4, <1>5, <3>1
    <3>2. CASE i > n
      <4>1. i + 1 \in n + 2 .. Len(q) + 1 /\ (i + 1) - 1 = i /\ i + 1 \in DOMAIN r
        BY <1>1, <1>2, <1>5, <3>2
      <4>2. r[i + 1] = q[i]
        BY <1>4, <4>1
      <4>3. QED
        BY <4>1, <4>2
    <3>3. QED
      BY <1>1, <1>2, <3>1, <3>2
  <2>3. \A i \in DOMAIN q : \E j \in DOMAIN r : r[j] = q[i]
    BY <2>2
  <2>4. n + 1 \in DOMAIN r /\ r[n + 1] = e
    BY <1>1, <1>2, <1>4, <1>5
  <2>5. QED
    BY <2>1, <2>3, <2>4 DEF Refs
<1>8. ASSUME Once(q), e.ref \notin Refs(q) PROVE Once(r)
  <2>1. \A i \in 1 .. Len(q) : q[i].ref # e.ref
    BY <1>1, <1>8 DEF Refs
  <2>2. ASSUME NEW i \in DOMAIN r, NEW j \in DOMAIN r, r[i].ref = r[j].ref PROVE i = j
    <3>1. CASE i \in 1 .. n
      BY <1>1, <1>2, <1>p, <1>8, <2>1, <2>2, <3>1 DEF Once
    <3>2. CASE i = n + 1
      BY <1>1, <1>2, <1>p, <2>1, <2>2, <3>2
    <3>3. CASE i \in n + 2 .. Len(q) + 1
      BY <1>1, <1>2, <1>p, <1>8, <2>1, <2>2, <3>3 DEF Once
    <3>4. QED
      BY <1>p, <3>1, <3>2, <3>3
  <2>3. QED
    BY <2>2 DEF Once
<1>9. r # <<>>
  BY <1>1, <1>4
<1>10. QED
  BY <1>4, <1>6, <1>7, <1>8, <1>9 DEF r

\* Erasing one event keeps the order of the others.
LEMMA Erased ==
    ASSUME NEW q \in Seq(Event), Sorted(q), Once(q), NEW k \in DOMAIN q
    PROVE  /\ RemoveAt(q, k) \in Seq(Event)
           /\ Sorted(RemoveAt(q, k)) /\ Once(RemoveAt(q, k))
           /\ Refs(RemoveAt(q, k)) = Refs(q) \ {q[k].ref}
           /\ k = 1 => RemoveAt(q, k) = Tail(q)
<1> DEFINE r == RemoveAt(q, k)
           a == SubSeq(q, 1, k - 1)
           b == SubSeq(q, k + 1, Len(q))
<1>1. /\ Len(q) \in Nat /\ DOMAIN q = 1 .. Len(q) /\ k \in 1 .. Len(q)
      /\ \A i \in 1 .. Len(q) : q[i] \in Event /\ q[i].next \in Int
  BY EventsOf
<1>2. a \in Seq(Event) /\ Len(a) = k - 1 /\ \A i \in 1 .. k - 1 : a[i] = q[i]
  BY <1>1, SliceOf
<1>3. /\ b \in Seq(Event) /\ Len(b) = Len(q) - k
      /\ \A i \in 1 .. Len(q) - k : b[i] = q[k + i]
  BY <1>1, SliceOf
<1>4. r = a \o b
  BY DEF RemoveAt
<1>5. k = 1 => r = Tail(q)
  <2>1. k = 1 => a = <<>> /\ b = Tail(q)
    <3>1. k = 1 => k - 1 = 0 /\ k + 1 = 2
      OBVIOUS
    <3>2. SubSeq(q, 1, 0) = <<>>
      BY SubSeqEmpty
    <3>3. Tail(q) = SubSeq(q, 2, Len(q))
      BY <1>1, TailIsSubSeq
    <3>4. QED
      BY <3>1, <3>2, <3>3
  <2>2. <<>> \o b = b
    BY <1>3, ConcatEmptySeq
  <2>3. QED
    BY <1>4, <2>1, <2>2
<1> HIDE DEF r, a, b
<1>6. /\ r \in Seq(Event) /\ DOMAIN r = 1 .. Len(q) - 1
      /\ \A i \in 1 .. k - 1 : r[i] = q[i]
      /\ \A i \in k .. Len(q) - 1 : r[i] = q[i + 1]
  <2> DEFINE m == Len(a)
             n == Len(b)
  <2>0. m = k - 1 /\ n = Len(q) - k
    BY <1>2, <1>3
  <2> HIDE DEF m, n
  <2>1. /\ a \o b \in Seq(Event) /\ Len(a \o b) = m + n
        /\ \A i \in 1 .. m : (a \o b)[i] = a[i]
        /\ \A i \in 1 .. n : (a \o b)[m + i] = b[i]
    <3>1. a \in Seq(Event) /\ b \in Seq(Event) /\ Len(a) = m /\ Len(b) = n
      BY <1>2, <1>3 DEF m, n
    <3>2. QED
      BY <3>1, Concatenated
  <2>2. ASSUME NEW i \in k .. Len(q) - 1 PROVE r[i] = q[i + 1]
    <3>0. k \in Nat /\ Len(q) \in Nat /\ i \in Nat /\ k <= i /\ i <= Len(q) - 1
      BY <1>1
    <3>1. i - m \in 1 .. n /\ m + (i - m) = i /\ k + (i - m) = i + 1
      <4>1. i - (k - 1) \in 1 .. Len(q) - k
        BY <3>0
      <4>2. (k - 1) + (i - (k - 1)) = i /\ k + (i - (k - 1)) = i + 1
        BY <3>0
      <4>3. QED
        BY <2>0, <4>1, <4>2
    <3>2. r[m + (i - m)] = b[i - m]
      BY <1>4, <2>1, <3>1
    <3>3. b[i - m] = q[k + (i - m)]
      BY <1>3, <2>0, <3>1
    <3>4. QED
      BY <3>1, <3>2, <3>3
  <2>3. r \in Seq(Event) /\ Len(r) = Len(q) - 1
    BY <1>1, <1>4, <2>0, <2>1
  <2>4. \A i \in 1 .. k - 1 : r[i] = q[i]
    BY <1>2, <1>4, <2>0, <2>1
  <2>5. QED
    BY <2>2, <2>3, <2>4, LenProperties
<1>p. ASSUME NEW i \in DOMAIN r
      PROVE  \/ i \in 1 .. k - 1 /\ i \in DOMAIN q /\ r[i] = q[i]
             \/ i \in k .. Len(q) - 1 /\ i + 1 \in DOMAIN q /\ r[i] = q[i + 1]
  BY <1>1, <1>6
<1>7. Sorted(r)
  <2>1. ASSUME NEW i \in DOMAIN r, NEW j \in DOMAIN r, i < j PROVE r[i].next <= r[j].next
    <3>1. \E x, y \in DOMAIN q : x < y /\ r[i] = q[x] /\ r[j] = q[y]
      BY <1>1, <1>p, <2>1
    <3>2. QED
      BY <3>1 DEF Sorted
  <2>2. QED
    BY <2>1 DEF Sorted
<1>8. Once(r)
  <2>1. ASSUME NEW i \in DOMAIN r, NEW j \in DOMAIN r, r[i].ref = r[j].ref PROVE i = j
    BY <1>1, <1>p, <2>1 DEF Once
  <2>2. QED
    BY <2>1 DEF Once
<1>9. Refs(r) = Refs(q) \ {q[k].ref}
  <2>1. \A i \in DOMAIN r : \E j \in DOMAIN q : j # k /\ r[i] = q[j]
    BY <1>1, <1>p
  <2>2. ASSUME NEW j \in DOMAIN q, j # k PROVE \E i \in DOMAIN r : r[i] = q[j]
    <3>1. CASE j < k
      BY <1>1, <1>6, <3>1
    <3>2. CASE j > k
      <4>1. j - 1 \in k .. Len(q) - 1 /\ (j - 1) + 1 = j /\ j - 1 \in DOMAIN r
        BY <1>1, <1>6, <3>2
      <4>2. r[j - 1] = q[j]
        BY <1>6, <4>1
      <4>3. QED
        BY <4>1, <4>2
    <3>3. QED
      BY <1>1, <2>2, <3>1, <3>2
  <2>3. \A j \in DOMAIN q : j # k => q[j].ref # q[k].ref
    BY DEF Once
  <2>4. QED
    BY <2>1, <2>2, <2>3 DEF Refs
<1>10. QED
  BY <1>5, <1>6, <1>7, <1>8, <1>9 DEF r
-----------------------------------------------------------------------------
(* The stack of ids. *)

LEMMA Pushed ==
    ASSUME NEW q \in Seq(Nat), NEW id \in Nat
    PROVE  /\ Append(q, id) \in Seq(Nat)
           /\ Elements(Append(q, id)) = Elements(q) \cup {id}
           /\ Once1(q) /\ id \notin Elements(q) => Once1(Append(q, id))
<1> DEFINE r == Append(q, id)
           n == Len(q)
<1>1. /\ n \in Nat /\ DOMAIN q = 1 .. n /\ r \in Seq(Nat) /\ DOMAIN r = 1 .. n + 1
      /\ \A i \in 1 .. n : r[i] = q[i]
      /\ r[n + 1] = id
  BY AppendProperties, LenProperties
<1> HIDE DEF r, n
<1>2. Elements(r) = Elements(q) \cup {id}
  BY <1>1 DEF Elements
<1>3. ASSUME Once1(q), id \notin Elements(q), NEW i \in DOMAIN r, NEW j \in DOMAIN r, r[i] = r[j]
      PROVE  i = j
  <2>1. \A k \in 1 .. n : q[k] # id
    BY <1>1, <1>3 DEF Elements
  <2>2. CASE i \in 1 .. n /\ j \in 1 .. n
    BY <1>1, <1>3, <2>2 DEF Once1
  <2>3. QED
    BY <1>1, <1>3, <2>1, <2>2
<1>4. QED
  BY <1>1, <1>2, <1>3 DEF Once1, r

LEMMA Popped ==
    ASSUME NEW q \in Seq(Nat), q # <<>>, Once1(q)
    PROVE  /\ q[Len(q)] \in Elements(q) /\ q[Len(q)] \in Nat
           /\ SubSeq(q, 1, Len(q) - 1) \in Seq(Nat)
           /\ Elements(SubSeq(q, 1, Len(q) - 1)) = Elements(q) \ {q[Len(q)]}
           /\ Once1(SubSeq(q, 1, Len(q) - 1))
<1> DEFINE n == Len(q)
           r == SubSeq(q, 1, n - 1)
<1>1. n \in Nat /\ n > 0 /\ DOMAIN q = 1 .. n /\ \A i \in 1 .. n : q[i] \in Nat
  BY LenProperties, EmptySeq, ElementOfSeq
<1>2. /\ r \in Seq(Nat) /\ Len(r) = n - 1
      /\ \A i \in 1 .. n - 1 : r[i] = q[i]
  <2>1. 1 \in 1 .. n + 1 /\ n - 1 \in 1 - 1 .. n /\ (n - 1) - 1 + 1 = n - 1
    BY <1>1
  <2>2. /\ r \in Seq(Nat) /\ Len(r) = (n - 1) - 1 + 1
        /\ \A i \in 1 .. (n - 1) - 1 + 1 : r[i] = q[1 + i - 1]
    BY <2>1, SliceOf
  <2>3. \A i \in 1 .. n - 1 : 1 + i - 1 = i
    BY <1>1
  <2>4. QED
    BY <2>1, <2>2, <2>3
<1>3. DOMAIN r = 1 .. n - 1
  BY <1>2, LenProperties
<1> HIDE DEF n, r
<1>4. Once1(r) /\ q[n] \in Elements(q) /\ q[n] \in Nat
  <2>1. n \in 1 .. n /\ \A i \in 1 .. n - 1 : i \in 1 .. n
    BY <1>1
  <2>2. QED
    BY <1>1, <1>2, <1>3, <2>1 DEF Once1, Elements
<1>5. Elements(r) = Elements(q) \ {q[n]}
  <2>1. \A i \in 1 .. n - 1 : i \in 1 .. n /\ i # n /\ n \in 1 .. n
    BY <1>1
  <2>2. \A i \in 1 .. n : i = n \/ i \in 1 .. n - 1
    BY <1>1
  <2>3. \A i \in DOMAIN r : r[i] \in Elements(q) \ {q[n]}
    BY <1>1, <1>2, <1>3, <2>1 DEF Once1, Elements
  <2>4. \A i \in DOMAIN q : q[i] = q[n] \/ \E j \in DOMAIN r : r[j] = q[i]
    BY <1>1, <1>2, <1>3, <2>2
  <2>5. QED
    BY <2>3, <2>4 DEF Elements
<1>6. QED
  BY <1>2, <1>4, <1>5 DEF n, r

-----------------------------------------------------------------------------
(* What the critical sections do to the tables. *)

LEMMA Tables ==
    ASSUME TypeOK, OnePlace
    PROVE  /\ time_events \in Seq(Event) /\ Sorted(time_events) /\ Once(time_events)
           /\ Refs(time_events) = ScheduledIds
           /\ free_ids \in Seq(Nat) /\ Once1(free_ids) /\ Elements(free_ids) = FreeIds
           /\ events \in Seq(Entry) /\ Len(events) \in Nat /\ Ids = 1 .. Len(events)
           /\ \A id \in Ids : events[id] \in Entry
<1>1. events \in Seq(Entry)
  BY DEF TypeOK, Entry
<1>2. Len(events) \in Nat /\ Ids = 1 .. Len(events) /\ \A id \in Ids : events[id] \in Entry
  BY <1>1, LenProperties, ElementOfSeq DEF Ids
<1>3. QED
  BY <1>1, <1>2
  DEF TypeOK, OnePlace, Sorted, Refs, ScheduledIds, Elements, FreeIds

\* The id add returns was in no place before, or free.
LEMMA AddTables ==
    ASSUME TypeOK, OnePlace, NEW c \in Thread, NEW t \in Timer, add(c, t)
    PROVE  \E id \in Nat \ {0} :
              /\ handle' = [handle EXCEPT ![t] = id]
              /\ id \notin Refs(time_events) \cup InHandler
              /\ events' \in Seq(Entry) /\ DOMAIN events' = Ids \cup {id}
              /\ events'[id] = TimerData(t)
              /\ \A i \in Ids \ {id} : events'[i] = events[i]
              /\ free_ids' \in Seq(Nat) /\ Once1(free_ids') /\ Elements(free_ids') = Elements(free_ids) \ {id}
              /\ time_events' \in Seq(Event) /\ Sorted(time_events') /\ Once(time_events')
              /\ Refs(time_events') = Refs(time_events) \cup {id} /\ time_events' # <<>>
<1>0. TimerData(t) \in Entry
  BY TimerAssumption DEF TimerData, Entry
<1>1. ASSUME NEW id \in Nat \ {0}, handle' = [handle EXCEPT ![t] = id], id \notin Refs(time_events)
      PROVE  /\ time_events' \in Seq(Event) /\ Sorted(time_events') /\ Once(time_events')
             /\ Refs(time_events') = Refs(time_events) \cup {id} /\ time_events' # <<>>
  <2>1. PICK e \in Event : e.ref = id /\ time_events' = insert(time_events, e)
    <3>1. handle'[t] = id
      BY <1>1 DEF TypeOK
    <3>2. now + Delay[t] \in Int
      BY TimerAssumption DEF TypeOK
    <3>3. QED
      BY <3>1, <3>2 DEF add, Event
  <2>2. QED
    BY <1>1, <2>1, Tables, Inserted
<1>2. CASE AddNew(c, t)
  <2> DEFINE id == Len(events) + 1
  <2>1. id \in Nat \ {0} /\ id \notin Ids /\ handle' = [handle EXCEPT ![t] = id]
    BY <1>2, Tables DEF AddNew
  <2>2. id \notin Refs(time_events) \cup InHandler \cup Elements(free_ids)
    BY <2>1 DEF OnePlace
  <2>3. /\ events' \in Seq(Entry) /\ DOMAIN events' = Ids \cup {id}
        /\ events'[id] = TimerData(t) /\ \A i \in Ids \ {id} : events'[i] = events[i]
    <3>1. /\ events' \in Seq(Entry) /\ Len(events') = Len(events) + 1
          /\ \A i \in 1 .. Len(events) : events'[i] = events[i]
          /\ events'[Len(events) + 1] = TimerData(t)
      BY <1>0, <1>2, Tables, AppendProperties DEF AddNew
    <3>2. DOMAIN events' = 1 .. Len(events) + 1
      BY <3>1, LenProperties
    <3>3. 1 .. Len(events) + 1 = (1 .. Len(events)) \cup {Len(events) + 1}
      BY Tables
    <3>4. QED
      BY <3>1, <3>2, <3>3, Tables
  <2>4. free_ids' = free_ids
    BY <1>2 DEF AddNew
  <2>5. /\ time_events' \in Seq(Event) /\ Sorted(time_events') /\ Once(time_events')
        /\ Refs(time_events') = Refs(time_events) \cup {id} /\ time_events' # <<>>
    BY <1>1, <2>1, <2>2
  <2>6. free_ids' \in Seq(Nat) /\ Once1(free_ids') /\ Elements(free_ids') = Elements(free_ids) \ {id}
    BY <2>2, <2>4, Tables
  <2> HIDE DEF id
  <2>7. QED
    BY <2>1, <2>2, <2>3, <2>5, <2>6
<1>3. CASE AddReused(c, t)
  <2> DEFINE id == free_ids[Len(free_ids)]
  <2>1. id \in Elements(free_ids) /\ id \in Nat /\ free_ids' = SubSeq(free_ids, 1, Len(free_ids) - 1)
    BY <1>3, Tables, Popped DEF AddReused
  <2>2. /\ free_ids' \in Seq(Nat) /\ Once1(free_ids') /\ Elements(free_ids') = Elements(free_ids) \ {id}
    BY <1>3, <2>1, Tables, Popped DEF AddReused
  <2>3. id \in Ids /\ id # 0 /\ id \notin Refs(time_events) \cup InHandler
    BY <2>1, Tables DEF OnePlace
  <2>4. handle' = [handle EXCEPT ![t] = id] /\ events' = [events EXCEPT ![id] = TimerData(t)]
    BY <1>3 DEF AddReused
  <2>5. /\ events' \in Seq(Entry) /\ DOMAIN events' = Ids \cup {id}
        /\ events'[id] = TimerData(t) /\ \A i \in Ids \ {id} : events'[i] = events[i]
    <3>1. events' \in Seq(Entry)
      BY <1>0, <2>3, <2>4, Tables, ExceptSeq
    <3>2. QED
      BY <2>3, <2>4, <3>1 DEF Ids
  <2>6. QED
    BY <1>1, <2>1, <2>2, <2>3, <2>4, <2>5
<1>4. QED
  BY <1>2, <1>3 DEF add

\* remove leaves the id in the handler that runs, or free.
LEMMA RemoveTables ==
    ASSUME TypeOK, OnePlace, NEW c \in Thread, NEW id \in Nat \ {0}, remove(c, id)
    PROVE  /\ id \in Ids
           /\ events' \in Seq(Entry) /\ DOMAIN events' = Ids
           /\ \A i \in Ids : /\ events'[i].timer = events[i].timer
                             /\ events'[i].period = events[i].period
                             /\ events'[i].valid = (i # id /\ events[i].valid)
           /\ free_ids' \in Seq(Nat) /\ Once1(free_ids')
           /\ Elements(free_ids') = Elements(free_ids) \cup ({id} \cap Refs(time_events))
           /\ time_events' \in Seq(Event) /\ Sorted(time_events') /\ Once(time_events')
           /\ Refs(time_events') = Refs(time_events) \ {id}
<1>1. id \in Ids
  BY Tables DEF remove, RemoveResult
<1>2. /\ events' \in Seq(Entry) /\ DOMAIN events' = Ids
      /\ \A i \in Ids : /\ events'[i].timer = events[i].timer
                        /\ events'[i].period = events[i].period
                        /\ events'[i].valid = (i # id /\ events[i].valid)
  <2>1. events' = [events EXCEPT ![id] = [events[id] EXCEPT !.valid = FALSE]]
    BY DEF remove
  <2>2. [events[id] EXCEPT !.valid = FALSE] \in Entry
    BY <1>1, Tables DEF Entry
  <2>3. events' \in Seq(Entry)
    BY <1>1, <2>1, <2>2, Tables, ExceptSeq
  <2>4. DOMAIN events' = Ids
    BY <2>1 DEF Ids
  <2>5. ASSUME NEW i \in Ids
        PROVE  /\ events'[i].timer = events[i].timer
               /\ events'[i].period = events[i].period
               /\ events'[i].valid = (i # id /\ events[i].valid)
    <3>1. events[i] \in Entry /\ i \in DOMAIN events
      BY Tables DEF Ids
    <3>2. CASE i # id
      <4>1. events'[i] = events[i]
        BY <2>1, <3>1, <3>2
      <4>2. events[i].valid \in BOOLEAN
        BY <3>1 DEF Entry
      <4>3. QED
        BY <3>2, <4>1, <4>2
    <3>3. CASE i = id
      <4>1. events'[i] = [events[i] EXCEPT !.valid = FALSE]
        BY <2>1, <3>1, <3>3
      <4>2. QED
        BY <3>1, <3>3, <4>1 DEF Entry
    <3>4. QED
      BY <3>2, <3>3
  <2>6. QED
    BY <2>3, <2>4, <2>5
<1>3. CASE id \in Refs(time_events)
  <2>1. PICK k \in DOMAIN time_events : time_events[k].ref = id
    BY <1>3 DEF Refs
  <2>2. \A i \in DOMAIN time_events : time_events[i].ref = id => i = k
    BY <2>1 DEF OnePlace, Once
  <2>3. \A j \in 1 .. k - 1 : j \in DOMAIN time_events /\ j # k
    BY <2>1, Tables, EventsOf
  <2>4. find(id) = k
    BY <2>1, <2>2, <2>3 DEF find
  <2>5. /\ time_events' = RemoveAt(time_events, k) /\ free_ids' = Append(free_ids, id)
    BY <1>3, <2>4, Tables DEF remove
  <2>6. id \notin Elements(free_ids)
    BY <1>3 DEF OnePlace
  <2>7. QED
    <3>1. /\ time_events \in Seq(Event) /\ Sorted(time_events) /\ Once(time_events)
          /\ free_ids \in Seq(Nat) /\ Once1(free_ids)
      BY Tables
    <3>2. /\ time_events' \in Seq(Event) /\ Sorted(time_events') /\ Once(time_events')
          /\ Refs(time_events') = Refs(time_events) \ {id}
      BY <2>1, <2>5, <3>1, Erased
    <3>3. /\ free_ids' \in Seq(Nat) /\ Once1(free_ids')
          /\ Elements(free_ids') = Elements(free_ids) \cup {id}
      BY <2>5, <2>6, <3>1, Pushed
    <3>4. QED
      BY <1>1, <1>2, <1>3, <3>2, <3>3
<1>4. CASE id \notin Refs(time_events)
  <2>1. /\ time_events \in Seq(Event) /\ Sorted(time_events) /\ Once(time_events)
        /\ free_ids \in Seq(Nat) /\ Once1(free_ids) /\ Refs(time_events) = ScheduledIds
    BY Tables
  <2>2. time_events' = time_events /\ free_ids' = free_ids
    BY <1>4, <2>1 DEF remove
  <2>3. QED
    BY <1>1, <1>2, <1>4, <2>1, <2>2
<1>5. QED
  BY <1>3, <1>4

LEMMA TakeTables ==
    ASSUME TypeOK, OnePlace, Take
    PROVE  /\ te'.ref \in Refs(time_events) /\ te' \in Event /\ te' = Head(time_events)
           /\ time_events' \in Seq(Event) /\ Sorted(time_events') /\ Once(time_events')
           /\ Refs(time_events') = Refs(time_events) \ {te'.ref}
<1>1. 1 \in DOMAIN time_events /\ Head(time_events) = time_events[1] /\ Head(time_events) \in Event
  BY Tables, EventsOf, EmptySeq, HeadTailProperties DEF Take
<1>2. RemoveAt(time_events, 1) = Tail(time_events)
  BY <1>1, Tables, Erased
<1>3. time_events[1].ref \in Refs(time_events)
  BY <1>1 DEF Refs
<1>4. te' = Head(time_events) /\ time_events' = Tail(time_events)
  BY DEF Take
<1>5. /\ Tail(time_events) \in Seq(Event) /\ Sorted(Tail(time_events)) /\ Once(Tail(time_events))
      /\ Refs(Tail(time_events)) = Refs(time_events) \ {time_events[1].ref}
  BY <1>1, <1>2, Tables, Erased
<1>6. QED
  BY <1>1, <1>3, <1>4, <1>5

LEMMA ReturnTables ==
    ASSUME TypeOK, OnePlace, HandlerReturns
    PROVE  /\ te.ref \in Ids /\ te.ref \notin Refs(time_events) \cup Elements(free_ids)
           /\ \/ /\ events[te.ref].valid /\ events[te.ref].period > 0
                 /\ UNCHANGED <<events, free_ids>>
                 /\ time_events' \in Seq(Event) /\ Sorted(time_events') /\ Once(time_events')
                 /\ Refs(time_events') = Refs(time_events) \cup {te.ref}
              \/ /\ UNCHANGED time_events
                 /\ free_ids' \in Seq(Nat) /\ Once1(free_ids')
                 /\ Elements(free_ids') = Elements(free_ids) \cup {te.ref}
                 /\ events' \in Seq(Entry) /\ DOMAIN events' = Ids
                 /\ \A i \in Ids : /\ events'[i].timer = events[i].timer
                                   /\ events'[i].period = events[i].period
                                   /\ events'[i].valid = (i # te.ref /\ events[i].valid)
<1>1. te.ref \in Ids /\ te.ref \notin Refs(time_events) \cup Elements(free_ids)
  BY DEF HandlerReturns, OnePlace, InHandler
<1>2. te.ref \in Nat /\ te.next \in Int /\ events[te.ref] \in Entry
  BY <1>1, Tables DEF TypeOK, Event
<1>3. CASE events[te.ref].valid /\ events[te.ref].period > 0
  <2>1. UNCHANGED <<events, free_ids>>
    BY <1>3 DEF HandlerReturns
  <2>2. PICK e \in Event : e.ref = te.ref /\ time_events' = insert(time_events, e)
    <3>0. te.next + events[te.ref].period \in Int
      BY <1>2 DEF Entry
    <3>1. [te EXCEPT !.next = @ + events[te.ref].period] \in Event
      BY <3>0 DEF TypeOK, Event
    <3>2. [te EXCEPT !.next = @ + events[te.ref].period].ref = te.ref
      BY DEF TypeOK, Event
    <3>3. QED
      BY <1>3, <3>1, <3>2 DEF HandlerReturns
  <2>3. QED
    BY <1>1, <1>3, <2>1, <2>2, Tables, Inserted
<1>4. CASE ~(events[te.ref].valid /\ events[te.ref].period > 0)
  <2>1. /\ events' = [events EXCEPT ![te.ref] = [events[te.ref] EXCEPT !.valid = FALSE]]
        /\ free_ids' = Append(free_ids, te.ref) /\ UNCHANGED time_events
    BY <1>4 DEF HandlerReturns
  <2>2. [events[te.ref] EXCEPT !.valid = FALSE] \in Entry
    BY <1>2 DEF Entry
  <2>3. events' \in Seq(Entry) /\ DOMAIN events' = Ids
    BY <1>1, <2>1, <2>2, Tables, ExceptSeq DEF Ids
  <2>4. ASSUME NEW i \in Ids
        PROVE  /\ events'[i].timer = events[i].timer
               /\ events'[i].period = events[i].period
               /\ events'[i].valid = (i # te.ref /\ events[i].valid)
    BY <1>1, <2>1, Tables DEF Ids, Entry
  <2>5. /\ free_ids' \in Seq(Nat) /\ Once1(free_ids')
        /\ Elements(free_ids') = Elements(free_ids) \cup {te.ref}
    BY <1>1, <1>2, <2>1, Tables, Pushed
  <2>6. QED
    BY <1>1, <2>1, <2>3, <2>4, <2>5
<1>5. QED
  BY <1>3, <1>4
-----------------------------------------------------------------------------
(* The steps. *)

Quiet ==
    \/ init \/ Exit \/ Wait \/ WaitUntil \/ Timeout \/ SpuriousWake
    \/ \E c \in Thread : NotifyAll(c)
    \/ DestoryBegin \/ DestoryNotify \/ Tick \/ Destroyed \/ UNCHANGED vars

LEMMA QuietTables ==
    ASSUME Quiet
    PROVE  UNCHANGED <<tables, history>> /\ InHandler' = InHandler /\ (pc' = "taken" => pc = "taken" /\ te' = te)
<1>1. /\ Notified = "handler" <=> pc = "handler"
      /\ Notified = "taken" <=> pc = "taken"
  BY DEF Notified
<1>2. QED
  BY <1>1 DEF Quiet, init, Exit, Wait, WaitUntil, Timeout, SpuriousWake, NotifyAll, DestoryBegin,
              DestoryNotify, Tick, Destroyed, vars, InHandler

\* The handler is called: the id stays where it is.
LEMMA CallTables ==
    ASSUME TypeOK, OnePlace, Call
    PROVE  /\ te.ref \in Ids /\ events[te.ref] \in Entry /\ te.ref \notin Refs(time_events)
           /\ UNCHANGED tables /\ InHandler' = InHandler
           /\ pc = "taken" /\ pc' = "handler"
<1>1. InHandler = {te.ref} /\ InHandler' = InHandler
  BY DEF Call, InHandler
<1>2. te.ref \in Ids /\ te.ref \notin Refs(time_events)
  BY <1>1 DEF OnePlace
<1>3. QED
  BY <1>1, <1>2, Tables DEF Call

LEMMA InitIInv == Init => IInv
<1> SUFFICES ASSUME Init PROVE IInv
  OBVIOUS
<1>1. \A S : <<>> \in Seq(S)
  BY EmptySeq
<1>2. [next |-> 0, ref |-> 0] \in Event
  BY DEF Event
<1>3. TypeOK
  <2>1. \A i, j \in DOMAIN time_events : i < j => time_events[i].next <= time_events[j].next
    BY DEF Init
  <2>2. handle \in [Timer -> Nat] /\ fired \in [Timer -> Nat]
    BY DEF Init
  <2>3. QED
    BY <1>1, <1>2, <2>1, <2>2 DEF Init, TypeOK
<1>4. OnePlace /\ EntryIsOfCall /\ ScheduledMayFire /\ TakenMayFire /\ NoLostWakeup
  BY DEF Init, OnePlace, EntryIsOfCall, ScheduledMayFire, TakenMayFire, NoLostWakeup, Ids, Refs, Once, Elements,
         Once1, InHandler
<1>5. QED
  BY <1>3, <1>4 DEF IInv

LEMMA TypeStep == ASSUME TypeOK, OnePlace, [Next]_vars PROVE TypeOK'
<1> DEFINE Typed ==
      /\ events \in Seq(Entry) /\ time_events \in Seq(Event) /\ Sorted(time_events)
      /\ free_ids \in Seq(Nat)
      /\ done \in BOOLEAN
      /\ pc \in {"none", "check", "wait", "waitUntil", "taken", "handler", "exited"}
      /\ te \in Event
      /\ signalling \subseteq Thread
      /\ owner \in {"no", "notify", "join", "destroyed"}
      /\ done <=> owner # "no"
      /\ now \in Nat
      /\ handle \in [Timer -> Nat] /\ fired \in [Timer -> Nat]
      /\ removed \subseteq Timer /\ late \subseteq Timer
<1>0. Typed /\ (Typed' => TypeOK')
  <2>1. Typed
    BY DEF TypeOK, Entry, Sorted
  <2>2. ASSUME Typed' PROVE TypeOK'
    BY <2>2 DEF TypeOK, Entry, Sorted
  <2>3. QED
    BY <2>1, <2>2
<1>1. ASSUME NEW c \in Thread, NEW t \in Timer, add(c, t) PROVE Typed'
  <2>1. PICK id \in Nat : handle' = [handle EXCEPT ![t] = id]
    BY <1>1, AddTables
  <2>2. handle' \in [Timer -> Nat]
    BY <1>0, <2>1
  <2>3. /\ events' \in Seq(Entry) /\ free_ids' \in Seq(Nat) /\ time_events' \in Seq(Event)
        /\ Sorted(time_events')
    BY <1>1, AddTables
  <2>4. signalling' \subseteq Thread /\ UNCHANGED <<done, pc, te, owner, now, fired, removed, late>>
    BY <1>0, <1>1 DEF add
  <2>5. QED
    BY <1>0, <2>2, <2>3, <2>4
<1>2. ASSUME NEW c \in Thread, NEW t \in Timer, handle[t] # 0, remove(c, handle[t])
      PROVE  Typed'
  <2>1. handle[t] \in Nat \ {0}
    BY <1>0, <1>2
  <2>2. removed' \subseteq Timer /\ late' \subseteq Timer
    <3>1. events[handle[t]] \in Entry
      BY <1>2, <2>1, RemoveTables, Tables
    <3>2. events[handle[t]].timer \in Timer
      BY <3>1 DEF Entry
    <3>3. QED
      BY <1>0, <1>2, <3>2 DEF remove, Cancel
  <2>3. /\ events' \in Seq(Entry) /\ free_ids' \in Seq(Nat) /\ time_events' \in Seq(Event)
        /\ Sorted(time_events')
    BY <1>2, <2>1, RemoveTables
  <2>4. signalling' \subseteq Thread /\ UNCHANGED <<done, pc, te, owner, now, handle, fired>>
    BY <1>0, <1>2 DEF remove
  <2>5. QED
    BY <1>0, <2>2, <2>3, <2>4
<1>3. CASE Take
  <2>1. /\ te' \in Event /\ time_events' \in Seq(Event) /\ Sorted(time_events')
    BY <1>3, TakeTables
  <2>2. /\ pc' = "taken"
        /\ UNCHANGED <<events, free_ids, done, signalling, owner, now, history>>
    BY <1>3 DEF Take
  <2>3. QED
    BY <1>0, <2>1, <2>2 DEF history
<1>c. CASE Call
  <2>1. PICK t \in Timer : fired' = [fired EXCEPT ![t] = @ + 1] /\ late' = late \ {t}
    <3>1. events[te.ref].timer \in Timer
      BY <1>c, CallTables DEF Entry
    <3>2. QED
      BY <1>c, <3>1 DEF Call
  <2>2. fired' \in [Timer -> Nat]
    <3>1. fired[t] \in Nat
      BY <1>0
    <3>2. QED
      BY <1>0, <2>1, <3>1
  <2>3. late' \subseteq Timer
    BY <1>0, <2>1
  <2>4. /\ pc' = "handler"
        /\ UNCHANGED <<tables, done, te, signalling, owner, now, handle, removed>>
    BY <1>c DEF Call
  <2>5. QED
    BY <1>0, <2>2, <2>3, <2>4 DEF tables
<1>4. CASE HandlerReturns
  <2>1. /\ events' \in Seq(Entry) /\ free_ids' \in Seq(Nat) /\ time_events' \in Seq(Event)
        /\ Sorted(time_events')
    BY <1>0, <1>4, ReturnTables
  <2>2. pc' = "check" /\ UNCHANGED <<done, te, signalling, owner, now, history>>
    BY <1>4 DEF HandlerReturns
  <2>3. QED
    BY <1>0, <2>1, <2>2 DEF history
<1>5. CASE WaitUntil
  <2>1. Head(time_events) \in Event
    BY <1>0, <1>5, HeadTailProperties DEF WaitUntil
  <2>2. QED
    BY <1>0, <1>5, <2>1 DEF WaitUntil, tables, history
<1>6. CASE DestoryJoin
  <2>1. Sorted(<<>>) /\ \A S : <<>> \in Seq(S)
    BY EmptySeq DEF Sorted
  <2>2. QED
    BY <1>0, <1>6, <2>1 DEF DestoryJoin, history
<1>7. ASSUME NEW c \in Thread, NotifyAll(c) PROVE Typed'
  BY <1>0, <1>7 DEF NotifyAll, Notified, tables, history
<1>8. CASE init \/ Exit \/ Wait \/ Timeout \/ SpuriousWake
  <2>1. /\ pc' \in {"check", "exited", "wait"}
        /\ UNCHANGED <<tables, done, te, signalling, owner, now, history>>
    BY <1>8 DEF init, Exit, Wait, Timeout, SpuriousWake
  <2>2. QED
    BY <1>0, <2>1 DEF tables, history
<1>d. CASE DestoryBegin \/ DestoryNotify
  BY <1>0, <1>d DEF DestoryBegin, DestoryNotify, Notified, tables, history
<1>e. CASE Tick
  <2>1. now + 1 \in Nat
    BY <1>0
  <2>2. QED
    BY <1>0, <1>e, <2>1 DEF Tick, tables, history
<1>9. CASE Destroyed \/ UNCHANGED vars
  BY <1>0, <1>9 DEF Destroyed, vars, tables, history
<1> HIDE DEF Typed
<1>10. QED
  BY <1>0, <1>1, <1>2, <1>3, <1>4, <1>5, <1>6, <1>7, <1>8, <1>9, <1>c, <1>d, <1>e DEF Next, WorkerStep

LEMMA OnePlaceStep == ASSUME TypeOK, OnePlace, [Next]_vars PROVE OnePlace'
<1>t. \A id \in Ids : events[id] \in Entry
  BY Tables
<1>1. ASSUME NEW c \in Thread, NEW t \in Timer, add(c, t) PROVE OnePlace'
  <2>1. InHandler' = InHandler
    BY <1>1 DEF add, InHandler
  <2>2. TimerData(t).valid
    BY DEF TimerData
  <2>3. PICK id \in Nat \ {0} :
          /\ id \notin Refs(time_events) \cup InHandler
          /\ DOMAIN events' = Ids \cup {id}
          /\ events'[id] = TimerData(t)
          /\ \A i \in Ids \ {id} : events'[i] = events[i]
          /\ Once1(free_ids') /\ Elements(free_ids') = Elements(free_ids) \ {id}
          /\ Once(time_events') /\ Refs(time_events') = Refs(time_events) \cup {id}
    BY <1>1, AddTables
  <2>4. Ids' = Ids \cup {id}
    BY <2>3 DEF Ids
  <2>5. QED
    BY <2>1, <2>2, <2>3, <2>4 DEF OnePlace
<1>2. ASSUME NEW c \in Thread, NEW t \in Timer, handle[t] # 0, remove(c, handle[t])
      PROVE  OnePlace'
  <2>1. InHandler' = InHandler
    BY <1>2 DEF remove, InHandler
  <2> DEFINE id == handle[t]
  <2>2. id \in Nat \ {0}
    BY <1>2 DEF TypeOK
  <2>3. /\ id \in Ids /\ DOMAIN events' = Ids
        /\ \A i \in Ids : events'[i].valid = (i # id /\ events[i].valid)
        /\ Once1(free_ids')
        /\ Elements(free_ids') = Elements(free_ids) \cup ({id} \cap Refs(time_events))
        /\ Once(time_events') /\ Refs(time_events') = Refs(time_events) \ {id}
    BY <1>2, <2>2, RemoveTables
  <2>4. Ids' = Ids
    BY <2>3 DEF Ids
  <2> HIDE DEF id
  <2>5. QED
    BY <2>1, <2>3, <2>4 DEF OnePlace
<1>3. CASE Take
  <2>1. InHandler = {} /\ InHandler' = {te'.ref} /\ UNCHANGED <<events, free_ids>>
    BY <1>3 DEF Take, InHandler
  <2>2. /\ te'.ref \in Refs(time_events)
        /\ Once(time_events') /\ Refs(time_events') = Refs(time_events) \ {te'.ref}
    BY <1>3, TakeTables
  <2>3. Ids' = Ids
    BY <2>1 DEF Ids
  <2>4. QED
    BY <2>1, <2>2, <2>3 DEF OnePlace
<1>4. CASE HandlerReturns
  <2>1. InHandler = {te.ref} /\ InHandler' = {}
    BY <1>4 DEF HandlerReturns, InHandler
  <2>2. te.ref \in Ids /\ te.ref \notin Refs(time_events) \cup Elements(free_ids)
    BY <1>4, ReturnTables
  <2>3. CASE /\ events[te.ref].valid /\ UNCHANGED <<events, free_ids>>
             /\ Once(time_events') /\ Refs(time_events') = Refs(time_events) \cup {te.ref}
    <3>1. Ids' = Ids
      BY <2>3 DEF Ids
    <3>2. QED
      BY <2>1, <2>2, <2>3, <3>1 DEF OnePlace
  <2>4. CASE /\ UNCHANGED time_events
             /\ Once1(free_ids') /\ Elements(free_ids') = Elements(free_ids) \cup {te.ref}
             /\ DOMAIN events' = Ids
             /\ \A i \in Ids : events'[i].valid = (i # te.ref /\ events[i].valid)
    <3>1. Ids' = Ids
      BY <2>4 DEF Ids
    <3>2. QED
      BY <2>1, <2>2, <2>4, <3>1 DEF OnePlace
  <2>5. QED
    BY <1>4, <2>3, <2>4, ReturnTables
<1>5. CASE DestoryJoin
  <2>1. InHandler' = {} /\ events' = <<>> /\ time_events' = <<>> /\ free_ids' = <<>>
    BY <1>5 DEF DestoryJoin, InHandler
  <2>2. QED
    BY <2>1 DEF OnePlace, Ids, Refs, Elements, Once, Once1
<1>6. CASE Quiet
  <2>1. UNCHANGED <<events, time_events, free_ids>> /\ InHandler' = InHandler /\ Ids' = Ids
    BY <1>6, QuietTables DEF tables, Ids
  <2>2. QED
    BY <2>1 DEF OnePlace
<1>c. CASE Call
  <2>1. UNCHANGED <<events, time_events, free_ids>> /\ InHandler' = InHandler /\ Ids' = Ids
    BY <1>c, CallTables DEF tables, Ids
  <2>2. QED
    BY <2>1 DEF OnePlace
<1>7. QED
  BY <1>1, <1>2, <1>3, <1>4, <1>5, <1>6, <1>c DEF Next, WorkerStep, Quiet

\* Two ids never belong to the same call of add.
LEMMA DistinctTimers ==
    ASSUME EntryIsOfCall
    PROVE  \A i, j \in Ids : events[i].timer = events[j].timer => i = j
BY DEF EntryIsOfCall

LEMMA EntryIsOfCallStep ==
    ASSUME TypeOK, OnePlace, EntryIsOfCall, [Next]_vars PROVE EntryIsOfCall'
<1>t. /\ \A id \in Ids : events[id] \in Entry /\ events[id].timer \in Timer /\ id # 0
      /\ handle \in [Timer -> Nat]
  <2>1. handle \in [Timer -> Nat]
    BY DEF TypeOK
  <2>2. Len(events) \in Nat /\ Ids = 1 .. Len(events) /\ \A id \in Ids : events[id] \in Entry
    BY Tables
  <2>3. \A x \in Entry : x.timer \in Timer
    BY DEF Entry
  <2>4. \A id \in Ids : id # 0
    BY <2>2
  <2>5. QED
    BY <2>1, <2>2, <2>3, <2>4
<1>1. ASSUME NEW c \in Thread, NEW t \in Timer, add(c, t) PROVE EntryIsOfCall'
  <2>1. PICK id \in Nat \ {0} :
          /\ handle' = [handle EXCEPT ![t] = id]
          /\ DOMAIN events' = Ids \cup {id}
          /\ events'[id] = TimerData(t)
          /\ \A i \in Ids \ {id} : events'[i] = events[i]
    BY <1>1, AddTables
  <2>2. Ids' = Ids \cup {id}
    BY <2>1 DEF Ids
  <2>3. handle[t] = 0 /\ UNCHANGED <<fired, removed>>
    BY <1>1 DEF add
  <2>4. /\ handle'[t] = id /\ \A u \in Timer \ {t} : handle'[u] = handle[u]
    BY <1>t, <2>1
  <2>5. TimerData(t).timer = t /\ TimerData(t).period = Period[t]
    BY DEF TimerData
  <2>6. ASSUME NEW i \in Ids'
        PROVE  handle'[events'[i].timer] = i /\ events'[i].period = Period[events'[i].timer]
    <3>1. CASE i = id
      BY <2>1, <2>4, <2>5, <3>1
    <3>2. CASE i # id
      <4>1. i \in Ids /\ events'[i] = events[i] /\ i # 0
        BY <1>t, <2>1, <2>2, <3>2
      <4>2. events[i].timer # t
        BY <2>3, <4>1 DEF EntryIsOfCall
      <4>3. QED
        BY <1>t, <2>4, <4>1, <4>2 DEF EntryIsOfCall
    <3>3. QED
      BY <3>1, <3>2
  <2>7. \A u \in Timer : fired'[u] # 0 \/ u \in removed' => handle'[u] # 0
    BY <2>3, <2>4 DEF EntryIsOfCall
  <2>8. QED
    BY <2>6, <2>7 DEF EntryIsOfCall
<1>2. ASSUME NEW c \in Thread, NEW t \in Timer, handle[t] # 0, remove(c, handle[t])
      PROVE  EntryIsOfCall'
  <2>1. handle[t] \in Nat \ {0}
    BY <1>2, <1>t
  <2>2. /\ handle[t] \in Ids /\ DOMAIN events' = Ids
        /\ \A i \in Ids : /\ events'[i].timer = events[i].timer
                          /\ events'[i].period = events[i].period
    BY <1>2, <2>1, RemoveTables
  <2>3. Ids' = Ids /\ UNCHANGED <<handle, fired>>
        /\ removed' \subseteq removed \cup {events[handle[t]].timer}
    BY <1>2, <2>2 DEF Ids, remove, Cancel
  <2>4. handle[events[handle[t]].timer] # 0
    BY <1>t, <2>2 DEF EntryIsOfCall
  <2>5. QED
    BY <2>2, <2>3, <2>4 DEF EntryIsOfCall
<1>3. CASE Take
  BY <1>3 DEF Take, EntryIsOfCall, Ids, history
<1>c. CASE Call
  <2>1. te.ref \in Ids
    BY <1>c, CallTables
  <2> DEFINE t == events[te.ref].timer
  <2>2. t \in Timer /\ handle[t] # 0
    BY <1>t, <2>1 DEF EntryIsOfCall
  <2>3. fired' = [fired EXCEPT ![t] = @ + 1] /\ UNCHANGED <<events, handle, removed>>
    BY <1>c DEF Call, tables
  <2> HIDE DEF t
  <2>4. \A u \in Timer : u = t \/ fired'[u] = fired[u]
    BY <2>2, <2>3 DEF TypeOK
  <2>5. QED
    BY <2>2, <2>3, <2>4 DEF EntryIsOfCall, Ids
<1>4. CASE HandlerReturns
  <2>1. UNCHANGED <<handle, fired, removed>>
    BY <1>4 DEF HandlerReturns, history
  <2>2. \/ UNCHANGED events
        \/ /\ DOMAIN events' = Ids
           /\ \A i \in Ids : /\ events'[i].timer = events[i].timer
                             /\ events'[i].period = events[i].period
    BY <1>4, ReturnTables
  <2>3. QED
    BY <2>1, <2>2 DEF EntryIsOfCall, Ids
<1>5. CASE DestoryJoin
  <2>1. events' = <<>> /\ UNCHANGED <<handle, fired, removed>>
    BY <1>5 DEF DestoryJoin, history
  <2>2. QED
    BY <2>1 DEF EntryIsOfCall, Ids
<1>6. CASE Quiet
  BY <1>6, QuietTables DEF EntryIsOfCall, Ids, tables, history
<1>7. QED
  BY <1>1, <1>2, <1>3, <1>4, <1>5, <1>6, <1>c DEF Next, WorkerStep, Quiet

LEMMA ScheduledMayFireStep ==
    ASSUME TypeOK, OnePlace, EntryIsOfCall, ScheduledMayFire, [Next]_vars
    PROVE  ScheduledMayFire'
<1>t. /\ \A id \in Ids : events[id].timer \in Timer /\ id # 0
      /\ handle \in [Timer -> Nat] /\ fired \in [Timer -> Nat]
      /\ Refs(time_events) \subseteq Ids
  <2>1. handle \in [Timer -> Nat] /\ fired \in [Timer -> Nat] /\ Refs(time_events) \subseteq Ids
    BY DEF TypeOK, OnePlace
  <2>2. Ids = 1 .. Len(events) /\ \A id \in Ids : events[id] \in Entry
    BY Tables
  <2>3. \A id \in Ids : id # 0
    BY <2>2, Tables
  <2>4. \A x \in Entry : x.timer \in Timer
    BY DEF Entry
  <2>5. QED
    BY <2>1, <2>2, <2>3, <2>4
<1>1. ASSUME NEW c \in Thread, NEW t \in Timer, add(c, t) PROVE ScheduledMayFire'
  <2>1. PICK id \in Nat \ {0} :
          /\ DOMAIN events' = Ids \cup {id}
          /\ events'[id] = TimerData(t)
          /\ \A i \in Ids \ {id} : events'[i] = events[i]
          /\ Refs(time_events') = Refs(time_events) \cup {id}
    BY <1>1, AddTables
  <2>2. Ids' = Ids \cup {id} /\ UNCHANGED <<fired, removed>> /\ handle[t] = 0
    BY <1>1, <2>1 DEF Ids, add
  <2>3. TimerData(t).timer = t /\ t \notin removed /\ fired[t] = 0
    BY <2>2 DEF TimerData, EntryIsOfCall
  <2>4. \A i \in Ids' : events'[i].valid => events'[i].timer \notin removed'
    BY <2>1, <2>2, <2>3 DEF ScheduledMayFire
  <2>5. \A i \in Refs(time_events') :
            Period[events'[i].timer] = 0 => fired'[events'[i].timer] = 0
    BY <1>t, <2>1, <2>2, <2>3 DEF ScheduledMayFire
  <2>6. QED
    BY <2>4, <2>5 DEF ScheduledMayFire
<1>2. ASSUME NEW c \in Thread, NEW t \in Timer, handle[t] # 0, remove(c, handle[t])
      PROVE  ScheduledMayFire'
  <2> DEFINE id == handle[t]
  <2>1. id \in Nat \ {0}
    BY <1>2, <1>t
  <2>2. /\ id \in Ids /\ DOMAIN events' = Ids
        /\ \A i \in Ids : /\ events'[i].timer = events[i].timer
                          /\ events'[i].valid = (i # id /\ events[i].valid)
        /\ Refs(time_events') \subseteq Refs(time_events)
    BY <1>2, <2>1, RemoveTables
  <2>3. /\ Ids' = Ids /\ UNCHANGED fired
        /\ removed' \subseteq removed \cup {events[id].timer}
    BY <1>2, <2>2 DEF Ids, remove, Cancel
  <2> HIDE DEF id
  <2>4. \A i \in Ids : events'[i].valid => events'[i].timer \notin removed'
    BY <2>2, <2>3, DistinctTimers DEF ScheduledMayFire
  <2>5. \A i \in Refs(time_events') :
            Period[events'[i].timer] = 0 => fired'[events'[i].timer] = 0
    BY <1>t, <2>2, <2>3 DEF ScheduledMayFire
  <2>6. QED
    BY <2>3, <2>4, <2>5 DEF ScheduledMayFire
<1>3. CASE Take
  <2>1. Refs(time_events') \subseteq Refs(time_events) /\ UNCHANGED <<events, fired, removed>>
    BY <1>3, TakeTables DEF Take, history
  <2>2. QED
    BY <2>1 DEF ScheduledMayFire, Ids
<1>c. CASE Call
  <2>1. te.ref \in Ids /\ te.ref \notin Refs(time_events)
    BY <1>c, CallTables
  <2> DEFINE t == events[te.ref].timer
  <2>2. fired' = [fired EXCEPT ![t] = @ + 1] /\ UNCHANGED <<events, time_events, removed>>
    BY <1>c DEF Call, tables
  <2>3. \A i \in Refs(time_events) : events[i].timer # t
    BY <1>t, <2>1, DistinctTimers
  <2> HIDE DEF t
  <2>4. \A i \in Refs(time_events) : fired'[events[i].timer] = fired[events[i].timer]
    BY <1>t, <2>2, <2>3
  <2>5. QED
    BY <2>2, <2>4 DEF ScheduledMayFire, Ids, Refs
<1>4. CASE HandlerReturns
  <2>1. UNCHANGED <<fired, removed>>
    BY <1>4 DEF HandlerReturns, history
  <2>2. CASE /\ events[te.ref].period > 0 /\ UNCHANGED events /\ te.ref \in Ids
             /\ Refs(time_events') = Refs(time_events) \cup {te.ref}
    <3>1. Period[events[te.ref].timer] # 0
      BY <2>2 DEF EntryIsOfCall
    <3>2. QED
      BY <2>1, <2>2, <3>1 DEF ScheduledMayFire, Ids
  <2>3. CASE /\ UNCHANGED time_events /\ DOMAIN events' = Ids
             /\ \A i \in Ids : /\ events'[i].timer = events[i].timer
                               /\ events'[i].valid = (i # te.ref /\ events[i].valid)
    <3>1. Ids' = Ids
      BY <2>3 DEF Ids
    <3>2. QED
      BY <1>t, <2>1, <2>3, <3>1 DEF ScheduledMayFire
  <2>4. QED
    BY <1>4, <2>2, <2>3, ReturnTables
<1>5. CASE DestoryJoin
  <2>1. events' = <<>> /\ time_events' = <<>>
    BY <1>5 DEF DestoryJoin
  <2>2. QED
    BY <2>1 DEF ScheduledMayFire, Ids, Refs
<1>6. CASE Quiet
  BY <1>6, QuietTables DEF ScheduledMayFire, Ids, tables, history
<1>7. QED
  BY <1>1, <1>2, <1>3, <1>4, <1>5, <1>6, <1>c DEF Next, WorkerStep, Quiet

\* What is taken was scheduled; a remove since then makes it late.
LEMMA TakenMayFireStep ==
    ASSUME TypeOK, OnePlace, EntryIsOfCall, ScheduledMayFire, TakenMayFire, [Next]_vars
    PROVE  TakenMayFire'
<1> SUFFICES ASSUME pc' = "taken"
             PROVE  /\ events'[te'.ref].timer \in removed' => events'[te'.ref].timer \in late'
                    /\ Period[events'[te'.ref].timer] = 0 => fired'[events'[te'.ref].timer] = 0
  BY DEF TakenMayFire
<1>1. ASSUME NEW c \in Thread, NEW t \in Timer, add(c, t)
      PROVE  events'[te'.ref] = events[te.ref] /\ pc = "taken" /\ UNCHANGED <<fired, removed, late>>
  <2>1. pc = "taken" /\ te' = te /\ UNCHANGED <<fired, removed, late>>
    BY <1>1 DEF add
  <2>2. te.ref \in Ids /\ te.ref \in InHandler
    BY <2>1 DEF OnePlace, InHandler
  <2>3. QED
    BY <1>1, <2>1, <2>2, AddTables
<1>2. ASSUME NEW c \in Thread, NEW t \in Timer, handle[t] # 0, remove(c, handle[t])
      PROVE  /\ events'[te'.ref].timer = events[te.ref].timer /\ pc = "taken" /\ UNCHANGED fired
             /\ events[te.ref].timer \in removed' => events[te.ref].timer \in late'
  <2>1. handle[t] \in Nat \ {0}
    BY <1>2 DEF TypeOK
  <2>2. pc = "taken" /\ te' = te /\ UNCHANGED fired /\ Cancel(handle[t])
    BY <1>2 DEF remove
  <2>3. te.ref \in Ids /\ handle[t] \in Ids
    BY <1>2, <2>1, <2>2, RemoveTables DEF OnePlace, InHandler
  <2>4. events'[te.ref].timer = events[te.ref].timer
    BY <1>2, <2>1, <2>3, RemoveTables
  <2>5. events[te.ref].timer \in removed => events[te.ref].timer \in late
    BY <2>2 DEF TakenMayFire
  <2>6. CASE handle[t] = te.ref
    BY <2>2, <2>4, <2>5, <2>6 DEF Cancel
  <2>7. CASE handle[t] # te.ref
    <3>1. events[te.ref].timer # events[handle[t]].timer
      BY <2>3, <2>7, DistinctTimers
    <3>2. QED
      BY <2>2, <2>4, <2>5, <2>7, <3>1 DEF Cancel
  <2>8. QED
    BY <2>6, <2>7
<1>3. CASE Take
  <2>1. te'.ref \in Refs(time_events) /\ UNCHANGED <<events, fired, removed, late>>
    BY <1>3, TakeTables DEF Take, history
  <2>2. QED
    BY <2>1 DEF ScheduledMayFire, OnePlace
<1>4. CASE Call \/ HandlerReturns
  BY <1>4 DEF Call, HandlerReturns
<1>5. CASE DestoryJoin
  BY <1>5 DEF DestoryJoin
<1>6. CASE Quiet
  BY <1>6, QuietTables DEF TakenMayFire, tables, history
<1>7. CASE \E c \in Thread, t \in Timer : add(c, t)
  BY <1>1, <1>7 DEF TakenMayFire
<1>8. CASE \E c \in Thread, t \in Timer : handle[t] # 0 /\ remove(c, handle[t])
  BY <1>2, <1>8 DEF TakenMayFire
<1>9. QED
  BY <1>3, <1>4, <1>5, <1>6, <1>7, <1>8 DEF Next, WorkerStep, Quiet

LEMMA NoLostWakeupStep == ASSUME TypeOK, NoLostWakeup, [Next]_vars PROVE NoLostWakeup'
<1>0. Notified \notin {"wait", "waitUntil"}
  BY DEF Notified, TypeOK
<1>1. ASSUME NEW c \in Thread, NEW t \in Timer, add(c, t) \/ remove(c, handle[t])
      PROVE NoLostWakeup'
  <2>1. signalling' # {}
    BY <1>1 DEF add, remove
  <2>2. QED
    BY <2>1 DEF NoLostWakeup
<1>2. ASSUME NEW c \in Thread, NotifyAll(c) PROVE NoLostWakeup'
  BY <1>0, <1>2 DEF NotifyAll, NoLostWakeup
<1>3. CASE DestoryBegin \/ DestoryNotify \/ DestoryJoin
  BY <1>0, <1>3 DEF DestoryBegin, DestoryNotify, DestoryJoin, NoLostWakeup
<1>4. CASE WaitUntil
  <2>1. Head(time_events) \in Event
    BY <1>4, HeadTailProperties DEF WaitUntil, TypeOK
  <2>2. Head(time_events).next \in Int
    BY <2>1 DEF Event
  <2>3. QED
    BY <1>4, <2>2 DEF WaitUntil, NoLostWakeup, tables, history
<1>5. CASE Wait
  BY <1>5 DEF Wait, NoLostWakeup, tables
<1>6. CASE init \/ Exit \/ Take \/ Call \/ HandlerReturns \/ Timeout \/ SpuriousWake
  BY <1>6 DEF init, Exit, Take, Call, HandlerReturns, Timeout, SpuriousWake, NoLostWakeup
<1>7. CASE Tick \/ Destroyed \/ UNCHANGED vars
  BY <1>7 DEF Tick, Destroyed, NoLostWakeup, vars, tables
<1>8. QED
  BY <1>1, <1>2, <1>3, <1>4, <1>5, <1>6, <1>7 DEF Next, WorkerStep

\* IInv is inductive: it holds initially and every step keeps it.
THEOREM Inductive == Spec => []IInv
<1>1. IInv /\ [Next]_vars => IInv'
  BY TypeStep, OnePlaceStep, EntryIsOfCallStep, ScheduledMayFireStep, TakenMayFireStep,
     NoLostWakeupStep
  DEF IInv
<1>2. QED
  BY InitIInv, <1>1, PTL DEF Spec
-----------------------------------------------------------------------------
(* What follows. *)

\* A queue has as many ids as events, if none is in it twice.
LEMMA OnceCounted ==
    ASSUME NEW S, NEW n \in Nat, NEW f, DOMAIN f = 1 .. n, \A i \in 1 .. n : f[i] \in S,
           \A s \in S : \E i \in 1 .. n : f[i] = s,
           \A i, j \in 1 .. n : f[i] = f[j] => i = j
    PROVE  IsFiniteSet(S) /\ Cardinality(S) = n
<1> DEFINE g == [i \in 1 .. n |-> f[i]]
<1>1. g \in Bijection(1 .. n, S)
  BY DEF Bijection, Injection, Surjection, IsInjective
<1>2. ExistsBijection(1 .. n, S)
  BY <1>1 DEF ExistsBijection
<1>3. QED
  BY <1>2, FS_CountingElements, FS_NatBijection

LEMMA Partitioned == ASSUME TypeOK, OnePlace PROVE IdsPartitioned
<1> DEFINE R == Refs(time_events)
           F == Elements(free_ids)
           m == Len(time_events)
           k == Len(free_ids)
<1>1. Ids = ScheduledIds \cup InHandler \cup FreeIds
  BY Tables DEF OnePlace
<1>2. /\ \A id \in ScheduledIds : events[id].valid
      /\ \A id \in FreeIds : ~events[id].valid
  BY Tables DEF OnePlace
<1>3. IsFiniteSet(R) /\ Cardinality(R) = m
  <2>1. m \in Nat /\ DOMAIN time_events = 1 .. m
    BY Tables, EventsOf
  <2> DEFINE f == [i \in 1 .. m |-> time_events[i].ref]
  <2>2. \A i \in 1 .. m : f[i] \in R
    BY <2>1 DEF Refs
  <2>3. \A s \in R : \E i \in 1 .. m : f[i] = s
    BY <2>1 DEF Refs
  <2>4. \A i, j \in 1 .. m : f[i] = f[j] => i = j
    BY <2>1 DEF OnePlace, Once
  <2>5. DOMAIN f = 1 .. m
    OBVIOUS
  <2> HIDE DEF f, R, m
  <2>6. QED
    BY <2>1, <2>2, <2>3, <2>4, <2>5, OnceCounted
<1>4. IsFiniteSet(F) /\ Cardinality(F) = k
  <2>1. k \in Nat /\ DOMAIN free_ids = 1 .. k
    BY Tables, LenProperties
  <2>2. /\ \A i \in 1 .. k : free_ids[i] \in F
        /\ \A s \in F : \E i \in 1 .. k : free_ids[i] = s
        /\ \A i, j \in 1 .. k : free_ids[i] = free_ids[j] => i = j
    BY <2>1 DEF Elements, OnePlace, Once1
  <2> HIDE DEF F, k
  <2>3. QED
    BY <2>1, <2>2, OnceCounted
<1>5. IsFiniteSet(InHandler) /\ Cardinality(InHandler) \in Nat
  <2>1. InHandler = {te.ref} \/ InHandler = {}
    BY DEF InHandler
  <2>2. Cardinality({te.ref}) = 1 /\ Cardinality({}) = 0
    BY FS_Singleton, FS_EmptySet
  <2>3. IsFiniteSet({te.ref}) /\ IsFiniteSet({})
    BY FS_Singleton, FS_EmptySet
  <2>4. QED
    BY <2>1, <2>2, <2>3
<1>6. Cardinality(Ids) = Len(events)
  <2>1. Ids = 1 .. Len(events) /\ Len(events) \in Nat
    BY Tables
  <2>2. Cardinality(1 .. Len(events)) = Len(events)
    <3> DEFINE n == Len(events)
    <3>1. n \in Nat
      BY <2>1
    <3> HIDE DEF n
    <3>2. Cardinality(1 .. n) = IF 1 > n THEN 0 ELSE n - 1 + 1
      BY <3>1, FS_Interval
    <3>3. Cardinality(1 .. n) = n
      BY <3>1, <3>2
    <3>4. QED
      BY <3>3 DEF n
  <2>3. QED
    BY <2>1, <2>2
<1>7. /\ Ids = (R \cup InHandler) \cup F
      /\ R \cap InHandler = {} /\ (R \cup InHandler) \cap F = {}
  BY DEF OnePlace
<1> HIDE DEF R, F
<1>8. Cardinality(Ids) = m + Cardinality(InHandler) + k
  <2>1. IsFiniteSet(R \cup InHandler) /\ Cardinality(R \cup InHandler) = m + Cardinality(InHandler)
    <3>1. Cardinality(R \cup InHandler) = Cardinality(R) + Cardinality(InHandler) - Cardinality({})
      BY <1>3, <1>5, <1>7, FS_Union
    <3>2. m \in Nat /\ Cardinality({}) = 0
      BY Tables, EventsOf, FS_EmptySet
    <3>3. IsFiniteSet(R \cup InHandler)
      BY <1>3, <1>5, FS_Union
    <3>4. QED
      BY <1>3, <1>5, <3>1, <3>2, <3>3
  <2>2. Cardinality(Ids) = Cardinality(R \cup InHandler) + Cardinality(F) - Cardinality({})
    BY <1>4, <1>7, <2>1, FS_Union
  <2>3. m \in Nat /\ k \in Nat /\ Cardinality({}) = 0
    BY Tables, EventsOf, LenProperties, FS_EmptySet
  <2>4. QED
    BY <1>4, <1>5, <2>1, <2>2, <2>3
<1>9. QED
  BY <1>1, <1>2, <1>6, <1>8 DEF IdsPartitioned

LEMMA FiresAsAsked ==
    ASSUME IInv, [Next]_vars
    PROVE  \A t \in Timer : fired'[t] # fired[t] =>
              /\ t \in removed => t \in late /\ t \notin late'
              /\ Period[t] = 0 => fired[t] = 0
<1>1. CASE Call
  <2> DEFINE u == events[te.ref].timer
  <2>1. fired' = [fired EXCEPT ![u] = @ + 1] /\ late' = late \ {u} /\ pc = "taken"
    BY <1>1 DEF Call
  <2>2. (u \in removed => u \in late) /\ (Period[u] = 0 => fired[u] = 0)
    BY <2>1 DEF IInv, TakenMayFire
  <2> HIDE DEF u
  <2>3. \A t \in Timer : t = u \/ fired'[t] = fired[t]
    BY <2>1 DEF IInv, TypeOK
  <2>4. QED
    BY <2>1, <2>2, <2>3
<1>2. CASE ~Call
  <2>1. UNCHANGED fired
    BY <1>2 DEF Next, WorkerStep, init, add, remove, NotifyAll, Exit, Wait, WaitUntil, Take,
                HandlerReturns, Timeout, SpuriousWake, DestoryBegin, DestoryNotify, DestoryJoin,
                Tick, Destroyed, vars, history
  <2>2. QED
    BY <2>1
<1>3. QED
  BY <1>1, <1>2

\* The variables have their types, and the queue of due times is sorted
\* (multiset time_events_, ordered by operator<).
THEOREM TypeCorrect == Spec => []TypeOK
BY Inductive, PTL DEF IInv

\* Whatever the clients and the handlers call, an id of the table is scheduled,
\* in the handler that runs, or free, and never two of these: add gives away
\* no id that is in use, and none is lost.
THEOREM NoIdLostNorShared == Spec => []IdsPartitioned
<1>1. IInv => IdsPartitioned
  BY Partitioned DEF IInv
<1>2. QED
  BY <1>1, Inductive, PTL

\* When no notify_all is outstanding, the worker does not sleep past the
\* earliest due time, nor past the end of the manager.
THEOREM WakeupsAreKept == Spec => []NoLostWakeup
BY Inductive, PTL DEF IInv

\* run calls no timer that remove has cancelled, but for the one call that was
\* already decided (the event taken, the mutex released) when remove ran, and a
\* one-shot timer once.
THEOREM CalledAsAsked == Spec => FiredAsAsked
<1>1. IInv /\ [Next]_vars =>
        [\A t \in Timer : fired'[t] # fired[t] =>
            /\ t \in removed => t \in late /\ t \notin late'
            /\ Period[t] = 0 => fired[t] = 0]_vars
  BY FiresAsAsked
<1>2. QED
  BY <1>1, Inductive, PTL DEF Spec, FiredAsAsked
=============================================================================
