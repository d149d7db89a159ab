------------------------------- MODULE FileIO -------------------------------
(* File (file.cpp): one FILE behind a recursive mutex, used by threads. A     *)
(* call that seeks first and reads, writes or measures then does so in two    *)
(* steps, with the mutex held. stdio is external: a place before the          *)
(* beginning is refused, a write in an append mode goes to the end, what lies *)
(* between the end and the place of a write is zero. Callers seek or give a   *)
(* place when they change between reading and writing, as stdio demands.      *)
EXTENDS Integers, Sequences

CONSTANTS User, MaxLength

ConstantsOK == MaxLength \in Nat

VARIABLES
    mode,       \* of f_; "closed" when it is null
    content,    \* of the file; <<-1>> when there is none
    pos,        \* the pointer of f_
    last,       \* what f_ did last: "none", "read" or "write"
    holder,     \* of mutex_; "nobody"
    call,       \* of each user: the call in its second step
    result      \* history: the last call that ended

fileVars == <<mode, content, pos, last, holder, call, result>>

Missing == <<-1>>
Modes == {"r", "w", "r+", "a+"}     \* a and w+ are these without, with reading
Reads == {"r", "r+", "a+"}
Appends == {"a+"}
Places == -1..1
Written == {<<1>>, <<2, 3>>}
Idle == [op |-> "none", from |-> -1, bytes |-> <<>>, cur |-> 0]

Free(u) == holder = "nobody" /\ call[u].op = "none"

\* Up to n bytes from the place p on.
BytesAt(s, p, n) == SubSeq(s, p + 1, IF p + n < Len(s) THEN p + n ELSE Len(s))

Overwritten(s, p, bytes) ==
    [i \in 1..(IF p + Len(bytes) > Len(s) THEN p + Len(bytes) ELSE Len(s)) |->
        IF i \in (p + 1)..(p + Len(bytes)) THEN bytes[i - p] ELSE IF i <= Len(s) THEN s[i] ELSE 0]

-----------------------------------------------------------------------------
\* A file that is open is not opened again, with whatever mode.
open(u, m) ==
    /\ Free(u) /\ mode = "closed"
    /\ m \in {"r", "r+"} => content # Missing
    /\ mode' = m
    /\ content' = IF m = "w" \/ content = Missing THEN <<>> ELSE content
    /\ pos' = 0
    /\ last' = "none"
    /\ UNCHANGED <<holder, call, result>>

close(u) ==
    /\ Free(u) /\ mode # "closed"
    /\ mode' = "closed" /\ pos' = 0 /\ last' = "none"
    /\ UNCHANGED <<content, holder, call, result>>

\* seekFromBeginning, seekFromCurrent, seekFromEnd.
seek(u, base, offset) ==
    /\ Free(u) /\ mode # "closed"
    /\ LET to == offset + (CASE base = "beginning" -> 0 [] base = "current" -> pos
                             [] base = "end" -> Len(content))
       IN  to \in 0..MaxLength /\ pos' = to
    /\ last' = "none"
    /\ UNCHANGED <<mode, content, holder, call, result>>

\* The first half of a call: the mutex is taken, the pointer goes to the place.
Enter(u, op, from, bytes) ==
    /\ Free(u) /\ mode # "closed"
    /\ holder' = u
    /\ call' = [call EXCEPT ![u] = [op |-> op, from |-> from, bytes |-> bytes, cur |-> pos]]
    /\ pos' = CASE op = "fileSize" -> Len(content) [] op = "readAll" -> 0
                [] OTHER -> IF from >= 0 THEN from ELSE pos
    /\ last' = IF from >= 0 THEN "none" ELSE last
    /\ UNCHANGED <<mode, content, result>>

readFrom(u, from) ==
    /\ mode \in Reads /\ (from = -1 => last # "write")
    /\ Enter(u, "readFrom", from, <<>>)

writeFrom(u, bytes, from) ==
    /\ mode # "r" /\ (from = -1 => last # "read")
    /\ Enter(u, "writeFrom", from, bytes)

fileSize(u) == Enter(u, "fileSize", -1, <<>>)
readAll(u) == mode \in Reads /\ Enter(u, "readAll", -1, <<>>)

\* What the call of u is to its callers: what it was asked, what it returned,
\* the file and the pointer it left.
Ended(u, got, next, at) ==
    [op |-> call[u].op, from |-> call[u].from, bytes |-> call[u].bytes, cur |-> call[u].cur,
     got |-> got, content |-> next, pos |-> at]

\* The second half: the bytes move, or the pointer goes back to where it was.
Leave(u) ==
    LET c == call[u]
        start == IF mode \in Appends THEN Len(content) ELSE pos
    IN
    /\ c.op # "none"
    /\ holder' = "nobody"
    /\ call' = [call EXCEPT ![u] = Idle]
    /\ CASE c.op = "readFrom" ->
                LET got == BytesAt(content, pos, 2) IN
                /\ pos' = pos + Len(got) /\ last' = "read" /\ UNCHANGED content
                /\ result' = Ended(u, got, content, pos')
         [] c.op = "writeFrom" ->
                /\ start + Len(c.bytes) <= MaxLength
                /\ content' = Overwritten(content, start, c.bytes)
                /\ pos' = start + Len(c.bytes) /\ last' = "write"
                /\ result' = Ended(u, <<>>, content', pos')
         [] c.op = "fileSize" ->
                /\ pos' = c.cur /\ last' = "none" /\ UNCHANGED content
                /\ result' = Ended(u, <<pos>>, content, pos')
         [] c.op = "readAll" ->
                /\ pos' = c.cur /\ last' = "none" /\ UNCHANGED content
                /\ result' = Ended(u, BytesAt(content, pos, Len(content)), content, pos')
    /\ UNCHANGED mode

\* The write does not fit into the bounds of the model.
WriteFails(u) ==
    /\ call[u].op = "writeFrom"
    /\ (IF mode \in Appends THEN Len(content) ELSE pos) + Len(call[u].bytes) > MaxLength
    /\ holder' = "nobody" /\ call' = [call EXCEPT ![u] = Idle] /\ last' = "write"
    /\ UNCHANGED <<mode, content, pos, result>>

Init ==
    /\ mode = "closed" /\ content \in {Missing, <<1, 2>>} /\ pos = 0 /\ last = "none"
    /\ holder = "nobody" /\ call = [u \in User |-> Idle]
    /\ result = [op |-> "none"]

Next ==
    \E u \in User :
        \/ (\E m \in Modes : open(u, m)) \/ close(u)
        \/ \E b \in {"beginning", "current", "end"}, o \in -1..1 : seek(u, b, o)
        \/ \E from \in Places : readFrom(u, from) \/ \E bytes \in Written : writeFrom(u, bytes, from)
        \/ fileSize(u) \/ readAll(u) \/ Leave(u) \/ WriteFails(u)

\* "Thread-safe": a call that was given a place works at that place and one that
\* asks for all of the file gets it and does not move the pointer, whatever
\* other threads do in between.
AtItsPlace ==
    LET r == result IN
    CASE r.op = "readFrom" -> r.from >= 0 => r.got = BytesAt(r.content, r.from, 2)
      [] r.op = "writeFrom" ->
            \E p \in 0..(Len(r.content) - Len(r.bytes)) :
                /\ BytesAt(r.content, p, Len(r.bytes)) = r.bytes
                /\ r.from \in {-1, p} \/ p + Len(r.bytes) = Len(r.content)
      [] r.op = "fileSize" -> r.got = <<Len(r.content)>> /\ r.pos = r.cur
      [] r.op = "readAll" -> r.got = r.content /\ r.pos = r.cur
      [] OTHER -> TRUE
=============================================================================
