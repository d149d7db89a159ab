-------------------------------- MODULE Paths --------------------------------
(* path_util.cpp and the operators of Path (path.cpp) on texts of one-letter *)
(* strings, for both systems; MakePath on a small tree of directories.       *)
EXTENDS Integers, Sequences, SequencesExt, FiniteSetsExt

LOCAL Text == INSTANCE StringUtil

Slashes == {"\\", "/"}
Quotes == {"'", "\""}
Separator(system) == IF system = "windows" THEN "\\" ELSE "/"
LOCAL Ends(path, set) == path # <<>> /\ path[Len(path)] \in set

-----------------------------------------------------------------------------
\* Quotes

PathIsSurroundQuote(path) ==
    Len(path) >= 2 /\ \E q \in Quotes : path[1] = q /\ path[Len(path)] = q

PathRemoveQuote(path) ==
    IF PathIsSurroundQuote(path) THEN SubSeq(path, 2, Len(path) - 1) ELSE path

PathAddQuote(path, singleQuote) ==
    LET quote == IF singleQuote THEN <<"'">> ELSE <<"\"">>
    IN  IF PathIsSurroundQuote(path) THEN path ELSE quote \o path \o quote

\* In place, in a buffer of buffSize characters, the zero at the end included.
PathAddQuoteFits(path, buffSize) == PathIsSurroundQuote(path) \/ ~(Len(path) + 2 >= buffSize)

-----------------------------------------------------------------------------
\* Directories and names

\* find_last_of(L"\\/", offset), both counted from 1; 0 is npos.
LastSlash(path, offset) ==
    Max({0} \cup {i \in DOMAIN path : path[i] \in Slashes /\ i <= offset})

RECURSIVE PathGetDirectory(_, _)
PathGetDirectory(path, upLevel) ==
    IF upLevel = 0 \/ path = <<>> THEN path
    ELSE LET \* size() - 2 of a text of one letter is npos
             offset == IF Ends(path, Slashes) /\ Len(path) > 1 THEN Len(path) - 1 ELSE Len(path)
             pos == LastSlash(path, offset)
         IN  PathGetDirectory(IF pos = 0 THEN path ELSE SubSeq(path, 1, pos), upLevel - 1)

PathGetFileName(path) == SubSeq(path, LastSlash(path, Len(path)) + 1, Len(path))

PathAddSlach(path, system) ==
    IF path = <<>> \/ Ends(path, Slashes) THEN path ELSE Append(path, Separator(system))

PathRemoveSlach(path) == IF Ends(path, Slashes) THEN Front(path) ELSE path

PathJoin(path1, path2, system) ==
    IF path1 = <<>> THEN path2 ELSE IF path2 = <<>> THEN path1
    ELSE PathAddSlach(path1, system) \o
            IF path2[1] \in Slashes THEN Tail(path2) ELSE path2

\* Path::operator+ and +=: only the separator of the system counts, and an empty
\* path is given one as well.
PathPlus(path1, path2, system) ==
    path1 \o (IF Text!StrIsEndsWith(path1, <<Separator(system)>>) THEN <<>>
              ELSE <<Separator(system)>>) \o path2

\* GetWindowsFolder and the like, of what the system has answered.
FolderOf(answer) ==
    IF answer = <<>> \/ answer[Len(answer)] = "\\" THEN answer ELSE Append(answer, "\\")

-----------------------------------------------------------------------------
\* ExpandEnvString. A variable between percent signs is one letter here: P and C
\* are ProgramFiles and CommonProgramFiles, p and c spell them in small letters,
\* W and V are their 64 bit forms, which a process of 32 bits has as well.
ReplaceKnownEnvToWow6432(src, isWow64) ==
    [i \in DOMAIN src |->
        IF ~isWow64 THEN src[i]
        ELSE CASE src[i] \in {"P", "p"} -> "W" [] src[i] \in {"C", "c"} -> "V" [] OTHER -> src[i]]

\* What ExpandEnvironmentStrings makes of it (external).
Expanded(src, isWow64) ==
    LET value(v) ==
            CASE v \in {"P", "p"} -> IF isWow64 THEN "files x86" ELSE "files"
              [] v \in {"C", "c"} -> IF isWow64 THEN "common x86" ELSE "common"
              [] v = "W" -> "files" [] v = "V" -> "common" [] OTHER -> v
    IN  [i \in DOMAIN src |-> value(src[i])]

ExpandEnvString(src, disableWow64FsRedirection, isWow64) ==
    Expanded(IF disableWow64FsRedirection THEN ReplaceKnownEnvToWow6432(src, isWow64) ELSE src,
             isWow64)

-----------------------------------------------------------------------------
\* MakePath

\* Creating the n-th directory of the path: [level -> "none", "dir", "file" or
\* "hidden" (it cannot be looked at, nor made)] as the tree has it on the way.
\* mkdir of the system needs the level above it.
MakeFails(tree, n) == tree[n] = "hidden" \/ (n > 1 /\ tree[n - 1] \in {"none", "file"})

RECURSIVE MakeFrom(_, _, _)
MakeFrom(tree, n, system) ==
    IF n > Len(tree) THEN [made |-> TRUE, tree |-> tree]
    ELSE CASE tree[n] = "dir" -> MakeFrom(tree, n + 1, system)
           [] tree[n] = "file" -> [made |-> FALSE, tree |-> tree]
           [] OTHER ->
              IF ~MakeFails(tree, n)
              THEN MakeFrom([tree EXCEPT ![n] = "dir"], n + 1, system)
              \* "some Android devices might not have access permission on parent dir"
              ELSE IF system = "posix" /\ n < Len(tree) THEN MakeFrom(tree, n + 1, system)
              ELSE [made |-> FALSE, tree |-> tree]
MakePath(tree, system) == MakeFrom(tree, 1, system)

-----------------------------------------------------------------------------
LOCAL Texts(letters, n) == UNION {[1..k -> letters] : k \in 0..n}

\* A level below nothing or below a file is not there.
Trees ==
    {t \in UNION {[1..k -> {"none", "dir", "file", "hidden"}] : k \in 1..3} :
        \A i \in 2..Len(t) : t[i - 1] \in {"none", "file"} => t[i] = "none"}

PathInputs ==
         [kind : {"path"}, path : Texts({"a", ".", "\\", "/"}, 4), up : 0..3]
    \cup [kind : {"quote"}, path : Texts({"a", "\"", "'"}, 3), single : BOOLEAN]
    \cup [kind : {"join"}, path : Texts({"a", "\\", "/"}, 3), more : Texts({"b", "\\", "/"}, 2),
          system : {"windows", "posix"}]
    \cup [kind : {"env"}, text : Texts({"P", "p", "c", "a"}, 3)]
    \cup [kind : {"make"}, tree : Trees, system : {"windows", "posix"}]

\* Without the quotes that were put on it, and cut into directory and name, a
\* path is what it was; a slash is added and removed again.
PathRoundTrips(d) ==
    CASE d.kind = "quote" ->
            PathRemoveQuote(PathAddQuote(d.path, d.single)) = PathRemoveQuote(d.path)
      [] d.kind = "path" ->
            \A system \in {"windows", "posix"} :
                /\ LastSlash(d.path, Len(d.path)) # 0 /\ ~Ends(d.path, Slashes) =>
                    PathJoin(PathGetDirectory(d.path, 1), PathGetFileName(d.path), system) = d.path
                /\ PathRemoveSlach(PathAddSlach(d.path, system)) = PathRemoveSlach(d.path)
      [] OTHER -> TRUE

LOCAL Above(path) ==
    {p \in {SubSeq(path, 1, n) : n \in 1..(Len(path) - 1)} : Ends(p, Slashes)}
LOCAL Up(path) ==
    IF Above(path) = {} THEN path ELSE CHOOSE p \in Above(path) : \A q \in Above(path) : Len(q) <= Len(p)

\* The directory is the longest shorter path that ends in a slash ("C:\" has
\* none); a join of a directory and a plain name has one slash more than they
\* (path_util, t_path_util.cpp); the buffer that is refused has no room for two
\* quotes and the zero; a 32 bit process finds what a 64 bit one does; and a
\* directory that was made is there, without a file on the way to it.
PathAgrees(d) ==
    CASE d.kind = "path" ->
            /\ PathGetDirectory(d.path, d.up) =
                CASE d.up = 0 -> d.path [] d.up = 1 -> Up(d.path)
                  [] d.up = 2 -> Up(Up(d.path)) [] d.up = 3 -> Up(Up(Up(d.path)))
            /\ FolderOf(d.path) # <<>> => Ends(FolderOf(d.path), {"\\"})
      [] d.kind = "quote" ->
            \A size \in 0..6 :
                PathAddQuoteFits(d.path, size) <=>
                    PathIsSurroundQuote(d.path) \/ Len(PathAddQuote(d.path, d.single)) + 1 <= size
      [] d.kind = "join" ->
            LET joined == PathJoin(d.path, d.more, d.system) IN
            /\ d.path # <<>> /\ d.more # <<>> =>
                LET left == PathRemoveSlach(d.path)
                    right == IF d.more[1] \in Slashes THEN Tail(d.more) ELSE d.more
                IN  \E s \in Slashes : joined = left \o <<s>> \o right
            /\ d.path # <<>> /\ d.more # <<>> /\ d.more[1] \notin Slashes
                    /\ ~Ends(d.path, Slashes \ {Separator(d.system)}) =>
                PathPlus(d.path, d.more, d.system) = joined
      [] d.kind = "env" -> ExpandEnvString(d.text, TRUE, TRUE) = ExpandEnvString(d.text, TRUE, FALSE)
      [] d.kind = "make" ->
            LET r == MakePath(d.tree, d.system) IN
            r.made => r.tree[Len(d.tree)] = "dir" /\ \A n \in DOMAIN d.tree : r.tree[n] \in {"dir", "hidden"}
      [] OTHER -> TRUE
=============================================================================
