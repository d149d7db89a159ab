---------------------------- MODULE CmdLineParser ----------------------------
(* cmd_line_parser.cpp: the keys and values of a command line. A line is a   *)
(* sequence of one-character strings, a map is the set of its pairs, the     *)
(* first value of a key wins.                                                *)
EXTENDS Naturals, Sequences, SequencesExt, FiniteSetsExt

delims == {"-", "/"}
quotes == {"\""}
value_sep == {" ", ":", "="}
StrToLower(s) == [i \in DOMAIN s |-> IF s[i] = "A" THEN "a" ELSE s[i]]

\* wcspbrk: the first place from pos on, one beyond the end when there is none.
FirstOf(line, set, pos) ==
    LET P == {i \in pos..Len(line) : line[i] \in set}
    IN  IF P = {} THEN Len(line) + 1 ELSE Min(P)

insert(map, key, value) ==
    IF key = <<>> \/ \E p \in map : p.key = StrToLower(key) THEN map
    ELSE map \cup {[key |-> StrToLower(key), value |-> value]}

\* One argument after the other; what is read before a delimiter is skipped.
RECURSIVE parse(_, _, _)
parse(line, current, map) ==
    LET end == Len(line) + 1
        arg == FirstOf(line, delims, current) + 1
        sep == FirstOf(line, value_sep, arg)
        key == SubSeq(line, arg, sep - 1)
        val == sep + 1
        inQuotes == line[val] \in quotes
        start == IF inQuotes THEN val + 1 ELSE val
        stop == FirstOf(line, IF inQuotes THEN quotes ELSE {" "}, start)
        found == insert(map, key, SubSeq(line, start, stop - 1))
    IN  IF current >= end \/ arg >= end THEN map
        ELSE IF sep = end THEN insert(map, key, <<>>)
        ELSE IF line[sep] = " " \/ sep = Len(line)
        THEN parse(line, sep + 1, insert(map, key, <<>>))
        ELSE IF stop = end THEN found
        ELSE parse(line, stop + 1, found)

values(line) == parse(line, 1, {})

findKey(map, key) == {p \in map : p.key = StrToLower(key)}
hasKey(map, key) == findKey(map, key) # {}
getVal(map, key) == IF hasKey(map, key) THEN (CHOOSE p \in findKey(map, key) : TRUE).value ELSE <<>>
hasVal(map, key) == getVal(map, key) # <<>>

-----------------------------------------------------------------------------
\* Arguments, each written with a delimiter, its key, and its value, if it has
\* one, after a separator; a value with a space stands between quotes.
Key == {<<"a">>, <<"A", "b">>}
ArgumentValue == {<<>>, <<"v">>, <<"v", " ", "-", "w">>, <<"-", "v">>, <<"/", "=">>}
Argument == [delim : delims, key : Key, sep : {":", "="}, value : ArgumentValue]
LineInputs == UNION {[1..n -> Argument] : n \in 0..2}

Rendered(a) ==
    <<a.delim>> \o a.key \o
    IF a.value = <<>> THEN <<>>
    ELSE <<a.sep>> \o
         IF Contains(a.value, " ") THEN <<"\"">> \o a.value \o <<"\"">> ELSE a.value
LineOf(arguments) ==
    FlattenSeq([i \in DOMAIN arguments |-> Rendered(arguments[i]) \o <<" ">>])

\* Each key of the line has the value that was first given to it, and there is
\* no other: what looks like an argument inside a value is none.
LineRoundTrips(arguments) ==
    LET map == values(LineOf(arguments))
        Given(k) == {i \in DOMAIN arguments : StrToLower(arguments[i].key) = k}
        keys == {StrToLower(arguments[i].key) : i \in DOMAIN arguments}
    IN  /\ {p.key : p \in map} = keys
        /\ \A k \in keys :
            /\ getVal(map, k) = arguments[Min(Given(k))].value
            /\ hasVal(map, k) <=> arguments[Min(Given(k))].value # <<>>
=============================================================================
