----------------------------- MODULE StringUtil -----------------------------
(* string_util.cpp, and the Version numbers of version.cpp that are parsed   *)
(* with it. The narrow and the wide form of each function are the same code, *)
(* so one definition stands for both. A text is a sequence of one-character  *)
(* strings, a position counts from 1 and None is npos.                       *)
EXTENDS Integers, Sequences, SequencesExt, FiniteSetsExt

None == 0

LOCAL Letters == {<<"a", "A">>, <<"b", "B">>, <<"x", "X">>}     \* a few of the 26
LOCAL Paired(c, from, to) ==
    LET P == {p \in Letters : p[from] = c} IN IF P = {} THEN c ELSE (CHOOSE p \in P : TRUE)[to]
Lower(c) == Paired(c, 2, 1)
Upper(c) == Paired(c, 1, 2)
StrToLower(s) == [i \in DOMAIN s |-> Lower(s[i])]
StrToUpper(s) == [i \in DOMAIN s |-> Upper(s[i])]

Digits == {"0", "1", "2"}
StrIsDigit(s) == s # <<>> /\ \A i \in DOMAIN s : s[i] \in Digits
StrIsLetterOrDigit(s) ==
    s # <<>> /\ \A i \in DOMAIN s : s[i] \in Digits \/ \E p \in Letters : s[i] \in {p[1], p[2]}

-----------------------------------------------------------------------------
\* The positions of the characters that are not in ws.
LOCAL Solid(s, ws) == {i \in DOMAIN s : s[i] \notin ws}

StrTrim(s, ws) ==
    IF Solid(s, ws) = {} THEN <<>> ELSE SubSeq(s, Min(Solid(s, ws)), Max(Solid(s, ws)))
StrTrimLeft(s, ws) ==
    IF Solid(s, ws) = {} THEN <<>> ELSE SubSeq(s, Min(Solid(s, ws)), Len(s))
StrTrimRight(s, ws) ==
    IF Solid(s, ws) = {} THEN <<>> ELSE SubSeq(s, 1, Max(Solid(s, ws)))

StrIsEqual(s, t, ignoreCase) ==
    /\ Len(s) = Len(t)
    /\ \A i \in DOMAIN s :
        IF ignoreCase THEN Lower(s[i]) = Lower(t[i]) ELSE s[i] = t[i]

\* compare(0, n, prefix) cuts the text short where it ends before the prefix.
StrIsStartsWith(s, prefix) ==
    SubSeq(s, 1, IF Len(prefix) < Len(s) THEN Len(prefix) ELSE Len(s)) = prefix
StrIsEndsWith(s, suffix) ==
    /\ Len(suffix) <= Len(s)
    /\ SubSeq(s, Len(s) - Len(suffix) + 1, Len(s)) = suffix

-----------------------------------------------------------------------------
\* Where part begins in s; the search of EqualA compares upper case.
Places(s, part, caseInsensitive) ==
    {i \in 1..(Len(s) - Len(part) + 1) :
        \A j \in DOMAIN part :
            IF caseInsensitive THEN Upper(s[i + j - 1]) = Upper(part[j])
            ELSE s[i + j - 1] = part[j]}

\* std::string::find and rfind.
find(s, part, from) ==
    LET P == {i \in Places(s, part, FALSE) : i >= from} IN IF P = {} THEN None ELSE Min(P)
rfind(s, part) ==
    LET P == Places(s, part, FALSE) IN IF P = {} THEN None ELSE Max(P)

StrFind(s, part, from, caseInsensitive) ==
    LET P == {i \in Places(s, part, caseInsensitive) : i >= from}
    IN  IF from > Len(s) \/ P = {} THEN None ELSE Min(P)

replace(s, at, n, to) == SubSeq(s, 1, at - 1) \o to \o SubSeq(s, at + n, Len(s))

StrReplaceFirst(s, from, to) ==
    LET at == find(s, from, 1) IN IF at = None THEN s ELSE replace(s, at, Len(from), to)
StrReplaceLast(s, from, to) ==
    LET at == rfind(s, from) IN IF at = None THEN s ELSE replace(s, at, Len(from), to)

RECURSIVE ReplaceFrom(_, _, _, _, _)
ReplaceFrom(s, from, to, at, caseInsensitive) ==
    LET i == StrFind(s, from, at, caseInsensitive)
    IN  IF i = None THEN s
        ELSE ReplaceFrom(replace(s, i, Len(from), to), from, to, i + Len(to), caseInsensitive)

\* The offset only decides whether anything is replaced: the loop starts at 0.
StrReplace(s, from, to, offset, caseInsensitive) ==
    IF from = <<>> \/ StrFind(s, from, offset, caseInsensitive) = None THEN s
    ELSE ReplaceFrom(s, from, to, 1, caseInsensitive)

RECURSIVE TimesFrom(_, _, _)
TimesFrom(s, part, at) ==
    LET i == find(s, part, at)
    IN  IF i = None THEN 0 ELSE 1 + TimesFrom(s, part, i + Len(part))
StrContainTimes(s, part) == IF part = <<>> THEN 0 ELSE TimesFrom(s, part, 1)

\* With an empty delimiter the loop of StrSplit never ends.
RECURSIVE SplitFrom(_, _, _)
SplitFrom(s, delimiter, offset) ==
    LET pos == find(s, delimiter, offset)
    IN  IF pos = None THEN <<SubSeq(s, offset, Len(s))>>
        ELSE <<SubSeq(s, offset, pos - 1)>> \o SplitFrom(s, delimiter, pos + Len(delimiter))
StrSplit(s, delimiter, includeEmptyStr) ==
    SelectSeq(SplitFrom(s, delimiter, 1), LAMBDA t : t # <<>> \/ includeEmptyStr)

StrJoin(fields, delimiter) ==
    FlattenSeq([i \in DOMAIN fields |->
        fields[i] \o IF i < Len(fields) THEN delimiter ELSE <<>>])

-----------------------------------------------------------------------------
\* StrFormat: the size of the buffer that takes a text of n characters and the
\* zero at its end, 0 when none can be had. An allocation fails beyond Memory.
Start == 4          \* 1024
Memory == 20
RECURSIVE FormatBuffer(_, _)
FormatBuffer(n, size) ==
    IF size > Memory THEN 0 ELSE IF n < size THEN size ELSE FormatBuffer(n, size * 2)
StrFormat(s) ==
    LET size == FormatBuffer(Len(s), Start) IN IF size = 0 THEN <<>> ELSE s

-----------------------------------------------------------------------------
\* version.cpp: the numbers between the dots, none when a part is no number.
Value(digits) ==
    FoldLeft(LAMBDA n, d : 10 * n + (CASE d = "0" -> 0 [] d = "1" -> 1 [] d = "2" -> 2), 0, digits)
Version(s) ==
    LET v == StrSplit(StrTrim(s, {" "}), <<".">>, TRUE)
    IN  IF \E i \in DOMAIN v : ~StrIsDigit(v[i]) THEN <<>>
        ELSE [i \in DOMAIN v |-> Value(v[i])]
isValid(v) == v # <<>>
isSameFormat(v, w) == Len(v) = Len(w)
VersionEqual(v, w) == isSameFormat(v, w) /\ \A i \in DOMAIN v : v[i] = w[i]
\* A mutant: the last number that differs decides.
compareFromTheEnd(v, w) ==
    LET D == {i \in DOMAIN v : v[i] # w[i]}
    IN  IF D = {} THEN 0 ELSE IF v[Max(D)] > w[Max(D)] THEN 1 ELSE -1

\* compare asserts that both have the same format.
compare(v, w) ==
    LET D == {i \in DOMAIN v : v[i] # w[i]}
    IN  IF D = {} THEN 0 ELSE IF v[Min(D)] > w[Min(D)] THEN 1 ELSE -1

-----------------------------------------------------------------------------
\* Texts, pieces of them to look for and to put in their place.
Texts == UNION {[1..n -> {"a", "A", "b", " "}] : n \in 0..4}
Pieces == {<<"a">>, <<"a", "a">>, <<"a", "b">>, <<" ">>}
StringInputs == [s : Texts, part : Pieces, to : {<<>>, <<"a">>, <<"x", "a">>}]
VersionInputs ==
    [v : UNION {[1..n -> {"0", "1", "2", "."}] : n \in 0..3}, w : {<<"1">>, <<"1", ".", "0">>}]

\* Joining what was split gives the text back, and so does replacing a mark
\* that was put everywhere; the case of a text does not survive either way.
StringRoundTrips(d) ==
    /\ StrJoin(StrSplit(d.s, d.part, TRUE), d.part) = d.s
    /\ StrReplace(StrReplace(d.s, d.part, <<"*">>, 1, FALSE), <<"*">>, d.part, 1, FALSE) = d.s
    /\ StrIsEqual(StrToLower(StrToUpper(d.s)), d.s, TRUE)

\* The result is defined by how a text is put together: the outermost solid
\* characters, the first and the last place of a piece, the pieces in between.
StringAgrees(d) ==
    LET s == d.s
        Cuts(t) == {c \in (0..Len(s)) \X (0..Len(s)) :
                        c[1] <= c[2] /\ SubSeq(s, c[1] + 1, c[2]) = t}
        Without(c) == SubSeq(s, 1, c[1]) \o d.to \o SubSeq(s, c[2] + 1, Len(s))
        Stripped(t) == t = <<>> \/ (t[1] # " " /\ t[Len(t)] # " ")
        joined == StrJoin(StrSplit(StrToUpper(s), StrToUpper(d.part), TRUE), StrToUpper(d.to))
    IN  /\ StrTrim(s, {" "}) = StrTrimLeft(StrTrimRight(s, {" "}), {" "})
        /\ Stripped(StrTrim(s, {" "}))
        /\ \E c \in Cuts(StrTrim(s, {" "})) :
            \A i \in (1..c[1]) \cup (c[2] + 1..Len(s)) : s[i] = " "
        /\ StrIsStartsWith(s, d.part) <=> \E c \in Cuts(d.part) : c[1] = 0
        /\ StrIsEndsWith(s, d.part) <=> \E c \in Cuts(d.part) : c[2] = Len(s)
        /\ IF Cuts(d.part) = {}
           THEN StrReplaceFirst(s, d.part, d.to) = s /\ StrReplaceLast(s, d.part, d.to) = s
           ELSE /\ \E c \in Cuts(d.part) :
                    /\ StrReplaceFirst(s, d.part, d.to) = Without(c)
                    /\ \A e \in Cuts(d.part) : c[1] <= e[1]
                /\ \E c \in Cuts(d.part) :
                    /\ StrReplaceLast(s, d.part, d.to) = Without(c)
                    /\ \A e \in Cuts(d.part) : c[1] >= e[1]
        /\ StrReplace(s, d.part, d.to, 1, FALSE) = StrJoin(StrSplit(s, d.part, TRUE), d.to)
        /\ StrToUpper(StrReplace(s, d.part, d.to, 1, TRUE)) = joined
        /\ StrContainTimes(s, d.part) = Len(StrSplit(s, d.part, TRUE)) - 1
        /\ StrIsLetterOrDigit(s) <=> s # <<>> /\ StrSplit(s, <<" ">>, TRUE) = <<s>>
        /\ StrFormat(s) = s

\* A valid version is read from digits and single dots, and those of one
\* format are ordered as numbers.
VersionAgrees(d) ==
    LET v == Version(d.v)
        w == Version(d.w)
        WellFormed ==
            /\ d.v # <<>>
            /\ \A i \in DOMAIN d.v : d.v[i] = "." =>
                i \in 2..Len(d.v) - 1 /\ d.v[i + 1] # "."
        Weight(u) == FoldLeft(LAMBDA n, e : 1000 * n + e, 0, u)
    IN  /\ isValid(v) <=> WellFormed
        /\ isSameFormat(v, w) =>
            /\ (compare(v, w) > 0) <=> (Weight(v) > Weight(w))
            /\ (compare(v, w) = 0) <=> VersionEqual(v, w)
            /\ compare(v, w) = -compare(w, v)
=============================================================================
