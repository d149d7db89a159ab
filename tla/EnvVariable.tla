------------------------------ MODULE EnvVariable ------------------------------
(* EnvVar and EnvHelper (win/env_variable.cpp): an object reads the variable   *)
(* when it is made and writes all of what it holds at each call. The registry, *)
(* which keeps the variable, is external. Texts are sequences of numbers.      *)
EXTENDS Integers, Sequences, SequencesExt, FiniteSetsExt, Folds

Semicolon == 59
Missing == <<0>> \* no text has this number

\* basic_string::find, from 0; -1 for npos.
find(value, text, pos) ==
    LET at == {p \in pos..(Len(value) - Len(text)) : SubSeq(value, p + 1, p + Len(text)) = text}
    IN  IF at = {} THEN -1 ELSE Min(at)
Erase(value, pos, length) == SubSeq(value, 1, pos) \o SubSeq(value, pos + length + 1, Len(value))

-----------------------------------------------------------------------------
\* EnvVar: [variable |-> what the registry has, value |-> of each object]

EnvVar(s, o) == [s EXCEPT !.value[o] = IF s.variable = Missing THEN <<>> ELSE s.variable]

\* The object takes the new value also when the registry refuses it.
Write(s, o, value) ==
    [s EXCEPT !.value[o] = value, !.variable = IF s.allowed THEN value ELSE @]

\* An empty text is found for ever.
CutEnds(text) == text # <<>>
RECURSIVE CutAll(_, _, _)
CutAll(value, text, count) ==
    LET pos == find(value, text, 0) IN
    IF pos = -1 THEN [value |-> value, count |-> count]
    ELSE CutAll(Erase(value, pos, Len(text)), text, count + 1)

cut(s, o, text) == Write(s, o, CutAll(s.value[o], text, 0).value)
paste(s, o, text) == Write(s, o, s.value[o] \o text)
set(s, o, text) == Write(s, o, text)
unset(s, o) == [s EXCEPT !.value[o] = <<>>, !.variable = IF s.allowed THEN Missing ELSE @]

-----------------------------------------------------------------------------
\* EnvHelper, on the value of Path

IsEntry(value, pos, length) ==
    /\ pos = 0 \/ value[pos] = Semicolon
    /\ pos + length = Len(value) \/ value[pos + length + 1] = Semicolon

RECURSIVE HasFrom(_, _, _)
HasFrom(value, path, pos) ==
    pos # -1 /\ (IsEntry(value, pos, Len(path)) \/ HasFrom(value, path, find(value, path, pos + 1)))

PathAdd(value, path) ==
    IF HasFrom(value, path, find(value, path, 0)) THEN value
    ELSE IF value = <<>> THEN path
    ELSE value \o <<Semicolon>> \o path

\* An empty path is found for ever in an empty value.
RemoveEnds(value, path) == path # <<>> \/ value # <<>>
RECURSIVE RemoveFrom(_, _, _, _)
RemoveFrom(value, path, pos, count) ==
    IF pos = -1 THEN [value |-> value, count |-> count]
    ELSE IF ~IsEntry(value, pos, Len(path))
    THEN RemoveFrom(value, path, find(value, path, pos + 1), count)
    ELSE LET without == IF pos # 0 THEN Erase(value, pos - 1, Len(path) + 1)
                        ELSE IF Len(path) = Len(value) THEN <<>>
                        ELSE Erase(value, pos, Len(path) + 1)
         IN  RemoveFrom(without, path, find(without, path, pos), count + 1)
PathRemove(value, path) == RemoveFrom(value, path, find(value, path, 0), 0)

-----------------------------------------------------------------------------
LOCAL Values == UNION {[1..n -> {1, 2, Semicolon}] : n \in 0..5}
LOCAL Paths == {<<1>>, <<2>>, <<1, 1>>, <<1, 2>>}
LOCAL Calls ==
    [call : {"make", "unset"}, object : {1, 2}]
        \cup [call : {"cut", "paste"}, object : {1, 2}, text : {<<1>>}]
        \cup [call : {"paste", "set"}, object : {1, 2}, text : {<<2, 1>>}]

EnvInputs ==
         [kind : {"path"}, value : Values, path : Paths]
    \cup [kind : {"calls"}, calls : UNION {[1..n -> Calls] : n \in 1..3},
          before : {Missing, <<1, 2>>}, allowed : {TRUE}]
    \cup [kind : {"calls"}, calls : UNION {[1..n -> Calls] : n \in 1..2},
          before : {Missing, <<1, 2>>}, allowed : {FALSE}]

LOCAL Made(s) == EnvVar(EnvVar(s, 1), 2)
LOCAL Call(s, c) ==
    CASE c.call = "make" -> EnvVar(s, c.object)
      [] c.call = "unset" -> unset(s, c.object)
      [] c.call = "cut" -> cut(s, c.object, c.text)
      [] c.call = "paste" -> paste(s, c.object, c.text)
      [] c.call = "set" -> set(s, c.object, c.text)
LOCAL After(d, n) ==
    FoldLeft(Call, Made([variable |-> d.before, value |-> <<<<>>, <<>>>>, allowed |-> d.allowed]),
             SubSeq(d.calls, 1, n))

\* An object that did its call last holds what a new one reads, if the registry
\* lets it write at all. What an object appends to is the variable as it is, if the
\* object has seen the last write to it.
EnvRoundTrips(d) ==
    d.kind = "calls" =>
        LET n == Len(d.calls)
            last == d.calls[n]
            before == After(d, n - 1)
            after == After(d, n)
            new == EnvVar(after, 1).value[1]
            seen == before.value[last.object] = EnvVar(before, 1).value[1]
        IN  /\ d.allowed => after.value[last.object] = new
            /\ ~d.allowed => after.variable = d.before
            /\ d.allowed /\ last.call = "paste" =>
                (seen => after.variable = EnvVar(before, 1).value[1] \o last.text)
            /\ last.call = "cut" =>
                LET r == CutAll(before.value[last.object], last.text, 0)
                IN  /\ find(r.value, last.text, 0) = -1
                    /\ Len(r.value) + (r.count * Len(last.text)) = Len(before.value[last.object])

\* The entries of a path are its parts between the semicolons: one that is there
\* is not added again, one that is not comes last, and all that match are removed
\* and counted. An empty value has no entries.
LOCAL Entries(value) ==
    LET cuts == {0, Len(value) + 1} \cup {i \in DOMAIN value : value[i] = Semicolon}
        bound(i) == CHOOSE c \in cuts : Cardinality({b \in cuts : b < c}) = i - 1
    IN  IF value = <<>> THEN <<>>
        ELSE [i \in 1..(Cardinality(cuts) - 1) |-> SubSeq(value, bound(i) + 1, bound(i + 1) - 1)]

EnvAgrees(d) ==
    d.kind = "path" =>
        LET old == Entries(d.value)
            removed == PathRemove(d.value, d.path)
            kept == SelectSeq(old, LAMBDA e : e # d.path)
        IN  /\ Entries(PathAdd(d.value, d.path)) =
                 IF d.path \in ToSet(old) THEN old ELSE Append(old, d.path)
            /\ removed.count = Len(old) - Len(kept)
            /\ Entries(removed.value) = IF kept = <<<<>>>> THEN <<>> ELSE kept
=============================================================================
