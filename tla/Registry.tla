------------------------------- MODULE Registry -------------------------------
(* Registry (win/registry.cpp): its values and the two ways it deletes a tree *)
(* of keys; RegistryWatch.tla has its thread. A 64 bit system has two views of *)
(* the registry; a process sees that of its own width unless it says which.   *)
EXTENDS Integers, Sequences, SequencesExt, FiniteSetsExt

-----------------------------------------------------------------------------
\* Deleting. A key is a path of names; a store has, of each view, its keys.

Children(keys, key) == {k \in keys : Len(k) = Len(key) + 1 /\ Front(k) = key}
Below(keys, key) == {k \in keys : IsPrefix(key, k)}
Default(process) == process
Opened(prefer64, process) == IF prefer64 THEN 64 ELSE Default(process)
\* regDeleteKey32_64, on a 64 bit system.
Deleted(prefer64) == IF prefer64 THEN 64 ELSE 32

\* RegEnumKeyEx (external): names come in their order.
Enumerated(keys, key, i) == SetToSortSeq(Children(keys, key), LAMBDA a, b : Last(a) < Last(b))[i]

\* RegDeleteKeyEx (external): only a key without others below it.
RemoveKey(store, view, key) ==
    IF key \in store[view] /\ Children(store[view], key) = {}
    THEN [ok |-> TRUE, store |-> [store EXCEPT ![view] = @ \ {key}]]
    ELSE [ok |-> FALSE, store |-> store]

\* From the last child to the first; from is the view of the open handle.
RECURSIVE regDeleteSubKeys(_, _, _, _), DeleteChildren(_, _, _, _, _)
DeleteChildren(store, from, in, key, count) ==
    IF count = 0 THEN [ok |-> TRUE, store |-> store]
    ELSE IF count > Cardinality(Children(store[from], key)) THEN [ok |-> FALSE, store |-> store]
    ELSE LET child == Enumerated(store[from], key, count)
             below == regDeleteSubKeys(store, from, in, child)
             gone == RemoveKey(below.store, in, child)
         IN  IF ~below.ok THEN below ELSE IF ~gone.ok THEN gone
             ELSE DeleteChildren(gone.store, from, in, key, count - 1)
regDeleteSubKeys(store, from, in, key) ==
    DeleteChildren(store, from, in, key, Cardinality(Children(store[from], key)))

DeleteKey(store, key, prefer64, process) ==
    LET from == Opened(prefer64, process)
        below == regDeleteSubKeys(store, from, Deleted(prefer64), key)
    IN  IF key \notin store[from] THEN [ok |-> FALSE, store |-> store]
        ELSE IF ~below.ok THEN below ELSE RemoveKey(below.store, Deleted(prefer64), key)

\* The first child again and again, until one stays.
RECURSIVE regDelSubKeysRecurse(_, _, _, _), RecurseChildren(_, _, _, _)
RecurseChildren(store, from, in, key) ==
    IF Children(store[from], key) = {} THEN store
    ELSE LET r == regDelSubKeysRecurse(store, from, in, Enumerated(store[from], key, 1))
         IN  IF r.ok THEN RecurseChildren(r.store, from, in, key) ELSE r.store
regDelSubKeysRecurse(store, from, in, key) ==
    LET once == RemoveKey(store, in, key) IN
    IF once.ok \/ key \notin store[from] THEN once
    ELSE RemoveKey(RecurseChildren(store, from, in, key), in, key)

DeleteSubKeys(store, key, prefer64, process) ==
    regDelSubKeysRecurse(store, Opened(prefer64, process), Deleted(prefer64), key)

getSubKeys(store, view, key) ==
    [i \in 1..Cardinality(Children(store[view], key)) |-> Last(Enumerated(store[view], key, i))]

-----------------------------------------------------------------------------
\* Values. Texts are sequences of numbers, with a zero behind each.

createDoubleNulTermList(texts) ==
    FlattenSeq([i \in DOMAIN texts |-> Append(texts[i], 0)]) \o <<0>>

Stored(type, value) ==
    [type |-> type,
     data |-> CASE type \in {"SZ", "EXPAND_SZ"} -> Append(value, 0)
                [] type = "MULTI_SZ" -> createDoubleNulTermList(value)
                [] OTHER -> value]

LOCAL UntilZero(data) == SubSeq(data, 1, Min({i \in DOMAIN data : data[i] = 0}) - 1)

RECURSIVE SplitMulti(_)
SplitMulti(data) ==
    LET text == UntilZero(data) IN
    IF text = <<>> THEN <<>>
    ELSE <<text>> \o SplitMulti(SubSeq(data, Len(text) + 2, Len(data)))

\* getSZValue and getMultiSZValue put a zero behind what they got; the second
\* one adds to what the caller's vector has, and empties it for no bytes only.
getValue(stored, expected) == stored.type = expected
getSZValue(stored) ==
    IF stored.data = <<>> THEN [ok |-> TRUE, value |-> <<>>]
    ELSE [ok |-> getValue(stored, "SZ"), value |-> UntilZero(Append(stored.data, 0))]
getMultiSZValue(stored, values) ==
    IF stored.data = <<>> THEN [ok |-> TRUE, value |-> <<>>]
    ELSE IF ~getValue(stored, "MULTI_SZ") THEN [ok |-> FALSE, value |-> values]
    ELSE [ok |-> TRUE, value |-> values \o SplitMulti(Append(stored.data, 0))]

\* The view that getExpandSZValue asks, after an open with that view or with none, 0.
ExpandView(opened) == IF opened = 64 THEN 64 ELSE 32
ValueView(opened, process) == IF opened = 0 THEN Default(process) ELSE opened

-----------------------------------------------------------------------------
LOCAL Names == {1, 2}
LOCAL Keys == {<<>>} \cup {<<a>> : a \in Names} \cup {<<a, b>> : a \in Names, b \in Names}
                    \cup {<<1, 1, 1>>}
LOCAL Trees == {t \in SUBSET Keys : <<>> \in t /\ \A k \in t : k # <<>> => Front(k) \in t}
LOCAL Texts == {<<>>, <<5>>, <<5, 6>>}

RegistryInputs ==
         [kind : {"tree"}, keys : Trees, other : {{<<>>}, {<<>>, <<1>>, <<1, 1>>}},
          key : {<<1>>, <<2>>, <<1, 1>>}, prefer64 : BOOLEAN, process : {32, 64}]
    \cup [kind : {"text"}, type : {"SZ", "EXPAND_SZ", "BINARY"}, value : Texts]
    \cup [kind : {"multi"}, value : UNION {[1..n -> Texts] : n \in 0..3}]
    \cup [kind : {"view"}, opened : {0, 32, 64}, process : {32, 64}]

\* What is set is read back under the type it was set with; a list up to its
\* first empty text. An expandable text is looked for in the view it was set in,
\* but for a key that a 64 bit process opened without a view.
RegistryRoundTrips(d) ==
    CASE d.kind = "text" ->
            LET got == getSZValue(Stored(d.type, d.value)) IN
            /\ got.ok = (d.type = "SZ" \/ (d.type = "BINARY" /\ d.value = <<>>))
            /\ got.ok => got.value = d.value
      [] d.kind = "multi" ->
            getMultiSZValue(Stored("MULTI_SZ", d.value), <<<<9>>>>).value =
                <<<<9>>>> \o SubSeq(d.value, 1,
                    Min({Len(d.value)} \cup {i - 1 : i \in {j \in DOMAIN d.value : d.value[j] = <<>>}}))
      [] d.kind = "view" ->
            ~(d.opened = 0 /\ d.process = 64) =>
                ExpandView(d.opened) = ValueView(d.opened, d.process)
      [] OTHER -> TRUE

\* A key that can be deleted goes with all that is below it and nothing else, if
\* the view enumerated is the one to delete in; if not, nothing goes in the view
\* that was not asked for.
RegistryAgrees(d) ==
    d.kind = "tree" =>
        LET from == Opened(d.prefer64, d.process)
            store == [v \in {32, 64} |-> IF v = from THEN d.keys ELSE d.other]
            without == [store EXCEPT ![from] = @ \ Below(@, d.key)]
            a == DeleteKey(store, d.key, d.prefer64, d.process)
            b == DeleteSubKeys(store, d.key, d.prefer64, d.process)
        IN  IF from = Deleted(d.prefer64)
            THEN /\ a.store = without /\ b.store = without
                 /\ a.ok = (d.key \in d.keys) /\ b.ok = a.ok
                 /\ ToSet(getSubKeys(a.store, from, <<>>)) = {Last(k) : k \in Children(without[from], <<>>)}
            ELSE /\ a.store[from] = store[from] /\ b.store[from] = store[from]
                 /\ a.store[32] \subseteq store[32] /\ b.store[32] \subseteq store[32]
=============================================================================
