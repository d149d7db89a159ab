----------------------------- MODULE BufferQueue -----------------------------
(***************************************************************************)
(* BufferQueue (src/buffer_queue.cpp): a doubly linked list of allocated   *)
(* elements, each with the data still to be read from it.  Every operation *)
(* holds the recursive mutex; popDataCrossElement and removeData loop over *)
(* elements, one action per turn, and op is the call that holds the mutex  *)
(* meanwhile.                                                              *)
(***************************************************************************)
EXTENDS Naturals, Sequences, FiniteSets

CONSTANTS
    Address,    \* where malloc can put an element; it fails with none left
    Null,
    Piece,      \* the data that is pushed, non-empty sequences
    MaxBytes    \* largest size asked for

ConstantsOK ==
    /\ IsFiniteSet(Address) /\ Null \notin Address
    /\ \A d \in Piece : d # <<>> /\ d \in Seq({d[i] : i \in DOMAIN d})
    /\ MaxBytes \in Nat

Idle == [name |-> "none", need |-> 0]

VARIABLES
    first_element, last_element, element_num, total_data_size,
    prev, next, data,   \* of the elements
    op,                 \* the loop that runs: [name, need]
    out                 \* what the last call copied to its caller

elements == <<first_element, last_element, prev, next, data>>
counters == <<element_num, total_data_size>>
vars == <<elements, counters, op, out>>

\* The addresses from first_element_ on.
Chain ==
    LET walk[n \in 0 .. Cardinality(Address)] ==
            IF n = 0 THEN IF first_element = Null THEN <<>> ELSE <<first_element>>
            ELSE LET w == walk[n - 1] IN
                 IF w = <<>> THEN w
                 ELSE IF next[w[Len(w)]] = Null THEN w ELSE Append(w, next[w[Len(w)]])
    IN  walk[Cardinality(Address)]

Allocated == LET c == Chain IN {c[i] : i \in DOMAIN c}

Data == UNION {{SubSeq(d, i, Len(d)) : i \in 1 .. Len(d)} : d \in Piece}

TypeOK ==
    /\ first_element \in Address \cup {Null} /\ last_element \in Address \cup {Null}
    /\ element_num \in 0 .. Cardinality(Address)
    /\ total_data_size \in Nat
    /\ prev \in [Address -> Address \cup {Null}] /\ next \in [Address -> Address \cup {Null}]
    /\ \A a \in Allocated : data[a] \in Data
    /\ op \in [name : {"none", "popData", "removeData"}, need : 0 .. MaxBytes]
    /\ op.name # "none" => op.need > 0 /\ first_element # Null

Init ==
    /\ first_element = Null /\ last_element = Null
    /\ element_num = 0 /\ total_data_size = 0
    /\ prev = [a \in Address |-> Null] /\ next = [a \in Address |-> Null]
    /\ data = [a \in Address |-> <<>>]
    /\ op = Idle /\ out = <<>>
-----------------------------------------------------------------------------
Min2(m, n) == IF m < n THEN m ELSE n
First(s, n) == SubSeq(s, 1, n)
Rest(s, n) == SubSeq(s, n + 1, Len(s))

NewElement(a, d) ==
    /\ op = Idle
    /\ a \notin Allocated
    /\ data' = [data EXCEPT ![a] = d]
    /\ total_data_size' = total_data_size + Len(d)
    /\ element_num' = element_num + 1
    /\ out' = <<>>
    /\ UNCHANGED op

pushElementToFront_OneWay(a, d) ==
    /\ NewElement(a, d)
    /\ first_element' = a
    /\ last_element' = IF first_element = Null THEN a ELSE last_element
    /\ next' = [next EXCEPT ![a] = first_element]
    /\ prev' = [prev EXCEPT ![a] = Null]

pushElementToFront(a, d) ==
    /\ NewElement(a, d)
    /\ first_element' = a
    /\ last_element' = IF first_element = Null THEN a ELSE last_element
    /\ next' = [next EXCEPT ![a] = first_element]
    /\ prev' = [b \in Address |->
                   IF b = a THEN Null ELSE IF b = first_element THEN a ELSE prev[b]]

pushElementToLast(a, d) ==
    /\ NewElement(a, d)
    /\ last_element' = a
    /\ first_element' = IF last_element = Null THEN a ELSE first_element
    /\ prev' = [prev EXCEPT ![a] = last_element]
    /\ next' = [b \in Address |->
                   IF b = a THEN Null ELSE IF b = last_element THEN a ELSE next[b]]

\* What is freed is forgotten.
Free(e) == data' = [data EXCEPT ![e] = <<>>]

\* The unlinking part of popElementFromFront and popElementFromLast.
UnlinkFirst ==
    LET n == next[first_element] IN
    /\ first_element' = n
    /\ last_element' = IF n = Null THEN Null ELSE last_element
    /\ prev' = [a \in Address |-> IF a = n THEN Null ELSE prev[a]]
    /\ next' = [next EXCEPT ![first_element] = Null]
    /\ element_num' = element_num - 1
    /\ Free(first_element)

UnlinkLast ==
    LET p == prev[last_element] IN
    /\ last_element' = p
    /\ first_element' = IF p = Null THEN Null ELSE first_element
    /\ next' = [a \in Address |-> IF a = p THEN Null ELSE next[a]]
    /\ prev' = [prev EXCEPT ![last_element] = Null]
    /\ element_num' = element_num - 1
    /\ Free(last_element)

\* An element goes whole, and at most size bytes of it are copied.
popElementFromFront(size) ==
    /\ op = Idle /\ element_num > 0
    /\ out' = First(data[first_element], Min2(Len(data[first_element]), size))
    /\ total_data_size' = total_data_size - Len(data[first_element])
    /\ UnlinkFirst
    /\ UNCHANGED op

popElementFromLast(size) ==
    /\ op = Idle /\ element_num > 0
    /\ out' = First(data[last_element], Min2(Len(data[last_element]), size))
    /\ total_data_size' = total_data_size - Len(data[last_element])
    /\ UnlinkLast
    /\ UNCHANGED op

clear ==
    /\ op = Idle
    /\ first_element' = Null /\ last_element' = Null
    /\ element_num' = 0 /\ total_data_size' = 0
    /\ prev' = [a \in Address |-> Null] /\ next' = [a \in Address |-> Null]
    /\ data' = [a \in Address |-> <<>>]
    /\ out' = <<>>
    /\ UNCHANGED op
-----------------------------------------------------------------------------
(* popDataCrossElement and removeData. *)

popDataCrossElement(n) ==
    /\ op = Idle
    /\ element_num # 0 /\ total_data_size > 0 /\ n > 0
    /\ op' = [name |-> "popData", need |-> n]
    /\ out' = <<>>
    /\ UNCHANGED <<elements, counters>>

removeData(n) ==
    /\ op = Idle
    /\ element_num > 0 /\ total_data_size > 0 /\ n > 0
    /\ op' = [name |-> "removeData", need |-> n]
    /\ out' = <<>>
    /\ UNCHANGED <<elements, counters>>

\* What this turn of the loop can take from the first element.
Portion == Min2(Len(data[first_element]), op.need)

Deliver == out' = IF op.name = "popData" THEN out \o First(data[first_element], Portion)
                                         ELSE out

TurnUsesUp_GoesOn ==
    /\ op.name # "none"
    /\ Portion = Len(data[first_element])
    /\ Deliver
    /\ UnlinkFirst
    /\ total_data_size' = total_data_size - Portion
    /\ op' = IF op.need = Portion THEN Idle ELSE [op EXCEPT !.need = @ - Portion]

\* The element is used up and unlinked; the loop ends with the request or
\* with the queue.
TurnUsesUp ==
    /\ op.name # "none"
    /\ Portion = Len(data[first_element])
    /\ Deliver
    /\ UnlinkFirst
    /\ total_data_size' = total_data_size - Portion
    /\ op' = IF op.need = Portion \/ element_num' = 0
             THEN Idle ELSE [op EXCEPT !.need = @ - Portion]

TurnShortens_NotMoved ==
    /\ op.name # "none"
    /\ Portion < Len(data[first_element])
    /\ Deliver
    /\ data' = [data EXCEPT ![first_element] = First(@, Len(@) - Portion)]
    /\ total_data_size' = total_data_size - Portion
    /\ op' = Idle
    /\ UNCHANGED <<first_element, last_element, prev, next, element_num>>

\* The element has more than is needed: dataReadAddress moves on.
TurnShortens ==
    /\ op.name # "none"
    /\ Portion < Len(data[first_element])
    /\ Deliver
    /\ data' = [data EXCEPT ![first_element] = Rest(@, Portion)]
    /\ total_data_size' = total_data_size - Portion
    /\ op' = Idle
    /\ UNCHANGED <<first_element, last_element, prev, next, element_num>>
-----------------------------------------------------------------------------
Next ==
    \/ \E a \in Address, d \in Piece : pushElementToFront(a, d) \/ pushElementToLast(a, d)
    \/ \E n \in 0 .. MaxBytes :
          \/ popElementFromFront(n) \/ popElementFromLast(n)
          \/ popDataCrossElement(n) \/ removeData(n)
    \/ TurnUsesUp \/ TurnShortens
    \/ clear

Spec == Init /\ [][Next]_vars
-----------------------------------------------------------------------------
Bytes(c) ==
    LET sum[i \in 0 .. Len(c)] == IF i = 0 THEN 0 ELSE sum[i - 1] + Len(data[c[i]])
    IN  sum[Len(c)]

\* The list is one: walked from either end it has the same elements, as many
\* as element_num_ says, and their sizes add up to total_data_size_, on which
\* toOneBuffer relies for the size of its allocation.
WellLinked ==
    LET c == Chain IN
    /\ Len(c) = element_num /\ Cardinality(Allocated) = element_num
    /\ last_element = IF c = <<>> THEN Null ELSE c[Len(c)]
    /\ \A i \in DOMAIN c : prev[c[i]] = IF i = 1 THEN Null ELSE c[i - 1]
    /\ total_data_size = Bytes(c)

\* Whatever the links, the calls see a double-ended queue of pieces, and data
\* read across elements is the front of it, in order and without a gap.
Pieces == LET c == Chain IN [i \in DOMAIN c |-> data[c[i]]]

Deque == INSTANCE ByteDeque WITH pieces <- Pieces

ActsAsDeque == Deque!Spec
=============================================================================
