-------------------------------- MODULE WinUtil --------------------------------
(* The helpers on processes (process_util.cpp, win/process_finder.cpp) and on *)
(* files of settings (win/ini.cpp). The system's list of processes, its files *)
(* and its last error are external.                                           *)
EXTENDS Integers, Sequences, SequencesExt, FiniteSetsExt

-----------------------------------------------------------------------------
\* Processes. A snapshot is a sequence of [id, parent, name]. When it is used,
\* alive has for each id the state of the process that is called so now: "mine"
\* may be ended, "foreign" may not, "gone" has ended, "other" has ended and
\* its id names a process that may be ended and that nobody asked to end.

Open(alive, id) == alive[id] \notin {"foreign", "gone"}
End(alive, id) == IF Open(alive, id) THEN [alive EXCEPT ![id] = "ended"] ELSE alive

\* r: [alive, ok]
EndOne(r, id) == [alive |-> End(r.alive, id), ok |-> r.ok /\ Open(r.alive, id)]
EndThose(snapshot, alive, entries) ==
    FoldLeft(LAMBDA r, p : IF p \in entries THEN EndOne(r, p.id) ELSE r,
             [alive |-> alive, ok |-> TRUE], snapshot)

KillProcess(alive, id) ==
    IF id = 0 THEN [alive |-> alive, ok |-> FALSE] ELSE EndOne([alive |-> alive, ok |-> TRUE], id)

KillProcessTree(snapshot, alive, id) ==
    IF id = 0 THEN [alive |-> alive, ok |-> FALSE]
    ELSE EndOne(EndThose(snapshot, alive, {p \in ToSet(snapshot) : p.parent = id}), id)

\* External: lstrcmpi, which takes a small letter for a capital one.
SameName(a, b) == a = b \/ {a, b} = {"a", "A"}

KillNamed(snapshot, alive, name) ==
    IF name = "" THEN [alive |-> alive, ok |-> FALSE]
    ELSE EndThose(snapshot, alive, {p \in ToSet(snapshot) : SameName(p.name, name)})

\* POSIX: the signal goes to the group. A negative id of KillProcess is that of a
\* group too, 0 is that of the caller's own, -1 is everybody.
Signalled(groups, id, tree) ==
    IF tree THEN IF id <= 0 THEN {} ELSE {p \in DOMAIN groups : groups[p] = id}
    ELSE CASE id > 0 -> {id} \cap DOMAIN groups
           [] id = 0 -> {p \in DOMAIN groups : groups[p] = groups[1]}
           [] id = -1 -> DOMAIN groups
           [] OTHER -> {p \in DOMAIN groups : groups[p] = -id}

\* ProcessFinder: the index of the entry after i, without the one of id 0; 0 for none.
processNext(snapshot, i) ==
    LET later == {k \in (i + 1)..Len(snapshot) : snapshot[k].id # 0}
    IN  IF later = {} THEN 0 ELSE Min(later)
processFirst(snapshot) == processNext(snapshot, 0)

RECURSIVE FindFrom(_, _, _)
FindFrom(snapshot, i, wanted) ==
    IF i = 0 \/ snapshot[i].id \in wanted THEN i
    ELSE FindFrom(snapshot, processNext(snapshot, i), wanted)
processFindId(snapshot, id) == FindFrom(snapshot, processFirst(snapshot), {id})
processFindName(snapshot, name, exceptSelf, self) ==
    FindFrom(snapshot, processFirst(snapshot),
             {snapshot[k].id : k \in {k \in DOMAIN snapshot : SameName(snapshot[k].name, name)}}
                 \ (IF exceptSelf THEN {self} ELSE {}))
IsExist(snapshot, id) == processFindId(snapshot, id) # 0

\* bits of the system and of the process; a process that cannot be asked has none.
IsWow64Process(system, process) == system = 64 /\ process = 32
Is32BitProcess(system, process) == process # 0 /\ (IsWow64Process(system, process) \/ system # 64)
Is64BitProcess(system, process) == system = 64 /\ ~IsWow64Process(system, process)

-----------------------------------------------------------------------------
\* Buffers that grow

\* GetModuleFileName (external) fails for a path of length 0, and may leave the
\* last error as it was when the path fits; stale says that it was the error of
\* too small a buffer. Path by length.
RECURSIVE ExePath(_, _, _, _)
ExePath(length, size, stale, Memory) ==
    IF size > Memory \/ length = 0 THEN "none"
    ELSE IF length >= size \/ stale THEN ExePath(length, 2 * size, stale, Memory)
    ELSE "whole"
GetCurrentExePath(length, MaxPath, stale, Memory) == ExePath(length, MaxPath, stale, Memory)

\* External: a file of settings gives a text without the blanks around it and
\* without the pair of quotes around the rest, cut to fit.
Blank == 32
Quote == 34
Trimmed(text) ==
    LET solid == {i \in DOMAIN text : text[i] # Blank}
    IN  IF solid = {} THEN <<>> ELSE SubSeq(text, Min(solid), Max(solid))
Unquoted(text) ==
    IF Len(text) >= 2 /\ text[1] = Quote /\ text[Len(text)] = Quote
    THEN SubSeq(text, 2, Len(text) - 1) ELSE text
Profile(text) == Unquoted(Trimmed(text))
GetPrivateProfileString(text, size) == SubSeq(Profile(text), 1, Min({Len(Profile(text)), size - 1}))

RECURSIVE readString(_, _, _)
readString(text, size, more) ==
    LET got == GetPrivateProfileString(text, size)
    IN  IF got # <<>> /\ Len(got) = size - 1 THEN readString(text, size + more, more) ELSE got

\* An unsigned int of Width values is written with its sign, as %ld does.
writeInt(n, Width) == IF n < Width \div 2 THEN n ELSE n - Width
readInt(written, Width) == written % Width

-----------------------------------------------------------------------------
LOCAL Ids == {1, 2, 3}
LOCAL Entry ==
    {p \in [id : Ids \cup {0}, parent : {0, 1, 2}, name : {"a", "A", "b"}] :
        /\ p.id = 0 => p.parent = 0
        /\ p.id # 0 => p.parent # p.id
        /\ p.name = CASE p.id = 2 -> "b" [] p.id = 3 -> "A" [] OTHER -> "a"}
LOCAL Snapshots ==
    {s \in UNION {[1..n -> Entry] : n \in 0..4} : \A i, j \in DOMAIN s : i < j => s[i].id < s[j].id}

UtilInputs ==
         [kind : {"kill"}, snapshot : Snapshots, alive : [Ids -> {"mine", "foreign", "gone", "other"}]]
    \cup [kind : {"group"}, groups : [1..3 -> {1, 3}], id : -3..3]
    \cup [kind : {"bits"}, system : {32, 64}, process : {0, 32, 64}]
    \cup [kind : {"path"}, length : 0..20, stale : BOOLEAN]
    \cup [kind : {"setting"}, text : UNION {[1..n -> {Blank, Quote, 5}] : n \in 0..7}]
    \cup [kind : {"number"}, n : 0..15]

\* A setting is read as it was written, however long it is, but for the blanks
\* and the quotes around it; a number too, though a large one is written as a
\* negative one. The path of the program is found if there is one, whatever its
\* length, where the last error of an earlier call is not that of a small buffer.
UtilRoundTrips(d) ==
    CASE d.kind = "setting" ->
            LET got == readString(d.text, 2, 3) IN
            /\ got = Profile(d.text)
            /\ d.text # <<>> /\ {d.text[1], d.text[Len(d.text)]} = {5} => got = d.text
      [] d.kind = "number" -> readInt(writeInt(d.n, 16), 16) = d.n
      [] d.kind = "path" ->
            ~d.stale => (GetCurrentExePath(d.length, 4, d.stale, 64) = "whole") = (d.length # 0)
      [] OTHER -> TRUE

\* A tree that is reported as ended has ended with its root, and nothing else was
\* ended than what bore the id of the root or of a child of it. One that cannot
\* be ended, or has ended by itself, makes the report a failure and keeps none of
\* the others alive. What is below the children is left alone.
LOCAL EndedAll(d, r, ids) ==
    /\ r.ok = \A i \in ids : d.alive[i] \in {"mine", "other"}
    /\ \A i \in Ids : r.alive[i] = IF i \in ids /\ d.alive[i] \in {"mine", "other"} THEN "ended"
                                   ELSE d.alive[i]
LOCAL IdsIn(d) == {d.snapshot[k].id : k \in DOMAIN d.snapshot}

\* A process of the snapshot is found by its id, or by its name in whatever case
\* without oneself, but never the idle one. On POSIX a signal for one process
\* reaches no other one and a signal for a group all of it. A process is of one
\* kind of bits at most, and of its own if it can be asked.
UtilAgrees(d) ==
    CASE d.kind = "kill" ->
            /\ \A id \in Ids :
                /\ EndedAll(d, KillProcessTree(d.snapshot, d.alive, id),
                            {id} \cup {p.id : p \in {p \in ToSet(d.snapshot) : p.parent = id}})
                /\ EndedAll(d, KillProcess(d.alive, id), {id})
                /\ IsExist(d.snapshot, id) = (id \in IdsIn(d))
                /\ LET k == processFindName(d.snapshot, "a", TRUE, id) IN
                    IF k = 0 THEN IdsIn(d) \cap ({1, 3} \ {id}) = {}
                    ELSE d.snapshot[k].id = Min(IdsIn(d) \cap ({1, 3} \ {id}))
            /\ ~KillProcessTree(d.snapshot, d.alive, 0).ok /\ ~IsExist(d.snapshot, 0)
            /\ 0 \notin IdsIn(d) =>
                EndedAll(d, KillNamed(d.snapshot, d.alive, "a"), IdsIn(d) \cap {1, 3})
      [] d.kind = "group" ->
            /\ d.id > 0 => Signalled(d.groups, d.id, FALSE) = {d.id}
            /\ d.id > 0 => (d.id \in Signalled(d.groups, d.id, TRUE)) = (d.groups[d.id] = d.id)
            /\ d.id > 1 => Signalled(d.groups, d.id, TRUE) = Signalled(d.groups, -d.id, FALSE)
            /\ d.id <= 0 => Signalled(d.groups, d.id, TRUE) = {}
      [] d.kind = "bits" ->
            d.process <= d.system =>
                /\ ~(Is32BitProcess(d.system, d.process) /\ Is64BitProcess(d.system, d.process))
                /\ d.process # 0 =>
                    /\ Is32BitProcess(d.system, d.process) = (d.process = 32)
                    /\ Is64BitProcess(d.system, d.process) = (d.process = 64)
      [] OTHER -> TRUE
=============================================================================
