------------------------------ MODULE Configor ------------------------------
(* Configor (src/src/configor.cpp): a tree of named elements, each with a    *)
(* list of values and a list of children, that every changing call writes to *)
(* a text file and a reload reads back.                                      *)
(*                                                                           *)
(* Every public call holds the recursive mutex for its whole length, so a    *)
(* call is one step. A text is what its characters become: the file is the   *)
(* sequence of the words and delimiters written, a value is one of Value,    *)
(* and only what the scanner does to it matters: whether it is written       *)
(* between quotes, whether it is empty, whether it has a delimiter inside.   *)
EXTENDS Naturals, Sequences, SequencesExt

CONSTANTS
    Name,       \* names of elements; none holds a delimiter
    MaxSize     \* elements and values of a tree

VARIABLES
    root,       \* root_, an element without a name
    file,       \* what the last save wrote
    dirty       \* history: a call since then changed the tree and did not save

configVars == <<root, file, dirty>>

\* A number, a text with a delimiter inside, the empty text.
Value == {"7", "a;b", ""}
isNumeric(v) == v \in {"7", ""}     \* every character of "" is a digit

Element(name, values, children) == [name |-> name, values |-> values, children |-> children]

RECURSIVE Size(_)
Size(e) == FoldLeft(LAMBDA n, c : n + 1 + Size(c), Len(e.values), e.children)

\* The first child of that name, 0 when there is none.
Find(children, name) ==
    SelectInSeq(children, LAMBDA c : c.name = name)

-----------------------------------------------------------------------------
\* The file

Bare(w) == [word |-> w, quoted |-> FALSE]
Quoted(w) == [word |-> w, quoted |-> TRUE]
Written(v) == IF isNumeric(v) THEN Bare(v) ELSE Quoted(v)

RECURSIVE writeElement(_)
writeElement(e) ==
    IF e.values = <<>> /\ e.children = <<>> THEN <<>>
    ELSE <<Bare(e.name), Bare("=")>> \o
        IF e.children # <<>>
        THEN <<Bare("{")>>
             \o FlattenSeq([i \in DOMAIN e.children |-> writeElement(e.children[i])])
             \o <<Bare("}")>>
        ELSE IF Len(e.values) = 1
        THEN <<Written(e.values[1]), Bare(";")>>
        ELSE <<Bare("[")>>
             \o Tail(FlattenSeq([i \in DOMAIN e.values |-> <<Bare(","), Written(e.values[i])>>]))
             \o <<Bare("]")>>

saved(e) == FlattenSeq([i \in DOMAIN e.children |-> writeElement(e.children[i])])

\* preprocess and tokenize: quotes keep a delimiter inside its word and are
\* cut off, an empty word is not kept.
tokenize(text) ==
    FlattenSeq([i \in DOMAIN text |->
        IF text[i].word = "" THEN <<>>
        ELSE IF ~text[i].quoted /\ text[i].word = "a;b" THEN <<"a", ";", "b">>
        ELSE <<text[i].word>>])

-----------------------------------------------------------------------------
\* The parser: each reads from position i and returns the position it stops at
\* with what it built. It never goes beyond the last token.

next(t, i) == IF i < Len(t) THEN i + 1 ELSE i
skip(t, i, token) == IF t[i] = token THEN next(t, i) ELSE i     \* an optional token

RECURSIVE commas(_, _, _)
commas(t, i, values) ==
    IF t[i] = "," THEN commas(t, next(t, i), Append(values, ""))
    ELSE [at |-> i, values |-> values]

RECURSIVE parseArray(_, _, _)
parseArray(t, i, values) ==
    IF t[i] = "]" THEN [at |-> skip(t, next(t, i), ";"), values |-> values]
    ELSE LET more == commas(t, skip(t, next(t, i), ","), Append(values, t[i]))
         IN  parseArray(t, more.at, more.values)

RECURSIVE parseVar(_, _), parseObject(_, _, _)
parseVar(t, i) ==
    LET equals == next(t, i)
        first == next(t, equals)
        Found(at, values, children) ==
            [at |-> at, found |-> <<Element(t[i], values, children)>>]
        Nothing(at) == [at |-> at, found |-> <<>>]
    IN  IF t[equals] # "=" THEN Nothing(equals)
        ELSE IF t[first] = "["
        THEN LET array == parseArray(t, next(t, first), <<>>)
             IN  Found(array.at, array.values, <<>>)
        ELSE IF t[first] = "{"
        THEN LET object == parseObject(t, next(t, first), <<>>)
             IN  Found(object.at, <<>>, object.children)
        ELSE IF t[next(t, first)] = ";"
        THEN Found(next(t, next(t, first)), <<t[first]>>, <<>>)
        ELSE Nothing(next(t, first))

parseObject(t, i, children) ==
    IF t[i] = "}" THEN [at |-> skip(t, next(t, i), ";"), children |-> children]
    ELSE LET var == parseVar(t, i) IN parseObject(t, var.at, children \o var.found)

RECURSIVE parseFrom(_, _, _)
parseFrom(t, i, children) ==
    IF i = Len(t) THEN children
    ELSE LET var == parseVar(t, i) IN parseFrom(t, var.at, children \o var.found)

parse(t) == IF t = <<>> THEN <<>> ELSE parseFrom(t, 1, <<>>)

-----------------------------------------------------------------------------
\* The calls on the element that operator[] reaches along a path; a missing
\* element of the path is created.

\* values_.resize(i + 1) where i is beyond the end.
Resized(values, i) ==
    IF i < Len(values) THEN values
    ELSE values \o [j \in 1..(i + 1 - Len(values)) |-> ""]

RECURSIVE opened(_, _)
opened(e, path) ==
    IF path = <<>> THEN e
    ELSE LET children ==
                 IF Find(e.children, Head(path)) # 0 THEN e.children
                 ELSE Append(e.children, Element(Head(path), <<>>, <<>>))
         IN  [e EXCEPT !.children =
                [children EXCEPT ![Find(children, Head(path))] = opened(@, Tail(path))]]

RECURSIVE reached(_, _)
reached(e, path) ==
    IF path = <<>> THEN e
    ELSE reached(e.children[Find(e.children, Head(path))], Tail(path))

RECURSIVE replaced(_, _, _)
replaced(e, path, with) ==
    IF path = <<>> THEN with
    ELSE LET i == Find(e.children, Head(path))
         IN  [e EXCEPT !.children[i] = replaced(@, Tail(path), with)]

\* The tree after operator[] along the path and a change of what it reached.
Changed(path, Change(_)) ==
    LET tree == opened(root, path)
    IN  replaced(tree, path, Change(reached(tree, path)))

Unsaved(tree) ==
    /\ root' = tree
    /\ dirty' = (dirty \/ tree # root)
    /\ UNCHANGED file

saveFile(tree) ==
    /\ root' = tree
    /\ file' = saved(tree)
    /\ dirty' = FALSE

\* operator[] alone: it is a read that can create, and it does not save.
Open(path) == Unsaved(opened(root, path))

\* getString: a value that is not there is created with the default.
getString(path, i, default) ==
    Unsaved(Changed(path,
        LAMBDA e : IF i < Len(e.values) THEN e
                   ELSE [e EXCEPT !.values = [Resized(@, i) EXCEPT ![i + 1] = default]]))

set(path, v, i) ==
    saveFile(Changed(path,
        LAMBDA e : [e EXCEPT !.values = [Resized(@, i) EXCEPT ![i + 1] = v]]))

\* removeElement saves only when it found one.
removeElement(path, name) ==
    LET i == Find(reached(opened(root, path), path).children, name)
    IN  IF i = 0 THEN Unsaved(opened(root, path))
        ELSE saveFile(Changed(path, LAMBDA e : [e EXCEPT !.children = RemoveAt(@, i)]))

clearElements(path) == saveFile(Changed(path, LAMBDA e : [e EXCEPT !.children = <<>>]))

clearValues(path) == saveFile(Changed(path, LAMBDA e : [e EXCEPT !.values = <<>>]))

\* An empty file leaves the tree as it is.
reloadFile ==
    /\ root' = IF file = <<>> THEN root
               ELSE [root EXCEPT !.children = parse(tokenize(file))]
    /\ dirty' = (dirty /\ file = <<>>)
    /\ UNCHANGED file

Init ==
    /\ root = Element("", <<>>, <<>>)
    /\ file = <<>>
    /\ dirty = FALSE

Paths == {<<n>> : n \in Name} \cup {<<n, m>> : n \in Name, m \in Name}

Next ==
    /\ \/ \E path \in Paths :
            \/ Open(path)
            \/ clearElements(path)
            \/ clearValues(path)
            \/ \E i \in 0..1, v \in Value : getString(path, i, v) \/ set(path, v, i)
       \/ \E path \in Paths \cup {<<>>}, n \in Name : removeElement(path, n)
       \/ clearElements(<<>>)
       \/ reloadFile
    /\ Size(root') <= MaxSize

-----------------------------------------------------------------------------
\* The values a tree has, with their paths: an element with children is an
\* object, and the values stored in it directly do not count.
RECURSIVE Values(_, _)
Values(children, path) ==
    FlattenSeq([i \in DOMAIN children |->
        LET e == children[i]
            here == Append(path, e.name)
        IN  IF e.children # <<>> THEN Values(e.children, here)
            ELSE IF e.values = <<>> THEN <<>> ELSE <<[path |-> here, values |-> e.values]>>])

\* The trees the format can hold: an empty value stands between two others,
\* as the sample at the top of configor.h says.
RECURSIVE Holdable(_)
Holdable(children) ==
    \A i \in DOMAIN children :
        LET e == children[i] IN
        /\ Holdable(e.children)
        /\ e.children = <<>> /\ e.values # <<>> =>
            e.values[1] # "" /\ e.values[Len(e.values)] # ""

\* What the file holds is read back as the values that the program sees,
\* whatever calls built the tree, unless a call changed it without a save.
RoundTrips ==
    ~dirty /\ Holdable(root.children) =>
        Values(parse(tokenize(file)), <<>>) = Values(root.children, <<>>)
=============================================================================
