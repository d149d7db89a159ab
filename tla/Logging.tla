------------------------------- MODULE Logging -------------------------------
(***************************************************************************)
(* The log of a program (src/logging.cpp): threads write messages,         *)
(* initLogging and shutdownLogging may be called at any time.  The file is *)
(* touched under gLogFileLock, so what is done there is one step; the      *)
(* destination and the level are read without it, each read is a step.     *)
(*                                                                         *)
(* A message counts as one unit of size, what goes to stderr is left out.  *)
(* The time in the name of a file may repeat, so a file is known by its    *)
(* number alone, and to open a name again empties the file.                *)
(*                                                                         *)
(* pc is the place of a thread: idle, asked (the level has passed, the     *)
(* destination is read next), message (~LogMessage reads the destination   *)
(* next), write and close (the lock is taken next), done.                  *)
(***************************************************************************)
EXTENDS Integers, Sequences

CONSTANTS
    Thread,
    Destinations,   \* the destinations of settings, subsets of {"file", "stdout"}
    Levels,         \* the levels of settings
    MaxLogFileSize, \* in messages
    MaxLogFileAge,  \* in days, 0 for no limit
    MaxMessages,    \* bound: messages of all threads
    MaxInits,       \* bound: calls of initLogging
    MaxDay          \* bound: days

ConstantsOK ==
    /\ Destinations \subseteq SUBSET {"file", "stdout"} /\ Levels \subseteq 0 .. 2
    /\ MaxLogFileSize \in Nat \ {0}
    /\ {MaxLogFileAge, MaxMessages, MaxInits, MaxDay} \subseteq Nat

INFO == 0
ERROR == 1
FATAL == 2

None == -1     \* no file is open

VARIABLES
    gLoggingDestination, gMinLogLevel, gLogFileNumber,
    gLogFile,       \* the number of the open file, or None
    files,          \* number -> the day of the last write, the messages
    today, inits, crashed,
    place,          \* the pc of each thread
    severity,       \* of its message
    closing,        \* whether shutdownLogging goes on after the message
    sent,           \* messages begun
    mine,           \* the message of each thread, 0 for none
    excused,        \* history: the settings were changed meanwhile
    owed            \* history: messages the file has taken, and the day

settings == <<gLoggingDestination, gMinLogLevel>>
disk == <<gLogFileNumber, gLogFile, files>>
world == <<today, inits, crashed>>
message == <<severity, closing, sent, mine>>
vars == <<settings, disk, world, place, message, excused, owed>>

Message == 1 .. MaxMessages

TypeOK ==
    /\ gLoggingDestination \subseteq {"file", "stdout"} /\ gMinLogLevel \in INFO .. FATAL
    /\ gLogFileNumber \in Nat \cup {-1}
    /\ DOMAIN files \subseteq 0 .. gLogFileNumber
    /\ \A f \in DOMAIN files : files[f].written \in 0 .. today /\ files[f].text \in Seq(Message)
    /\ gLogFile # None => /\ gLogFile \in DOMAIN files
                          /\ Len(files[gLogFile].text) <= MaxLogFileSize
    /\ today \in 0 .. MaxDay /\ inits \in 0 .. MaxInits /\ crashed \in BOOLEAN
    /\ place \in [Thread -> {"idle", "asked", "message", "write", "done", "close"}]
    /\ severity \in [Thread -> INFO .. FATAL] /\ closing \in [Thread -> BOOLEAN]
    /\ sent \in 0 .. MaxMessages /\ mine \in [Thread -> 0 .. sent]
    /\ excused \in [Thread -> BOOLEAN]
    /\ owed \subseteq [message : Message, day : 0 .. today]

\* Before initLogging, in a POSIX build.
Init ==
    /\ gLoggingDestination = {"stdout"} /\ gMinLogLevel = ERROR
    /\ gLogFileNumber = -1 /\ gLogFile = None /\ files = [f \in {} |-> {}]
    /\ today = 0 /\ inits = 0 /\ crashed = FALSE
    /\ place = [t \in Thread |-> "idle"] /\ severity = [t \in Thread |-> INFO]
    /\ closing = [t \in Thread |-> FALSE]
    /\ sent = 0 /\ mine = [t \in Thread |-> 0] /\ excused = [t \in Thread |-> FALSE]
    /\ owed = {}
-----------------------------------------------------------------------------
(* The file, under gLogFileLock. *)

\* removeOldFiles, at the time of the new file.
Old(f) == MaxLogFileAge # 0 /\ files[f].written < today - MaxLogFileAge

\* What the opening of a name leaves in the directory.
Opened(number) ==
    [f \in {g \in DOMAIN files : ~Old(g)} \cup {number} |->
        IF f = number THEN [written |-> today, text |-> <<>>] ELSE files[f]]

initLoggingUnlocked_SameNumber(destination, fails) ==
    IF "file" \notin destination
    THEN [number |-> gLogFileNumber, open |-> None, files |-> files]
    ELSE [number |-> 0,
          open |-> IF fails THEN None ELSE 0,
          files |-> IF fails THEN files ELSE Opened(0)]

\* The file is closed; a new one has the next number, and may fail to open.
initLoggingUnlocked(destination, fails) ==
    IF "file" \notin destination
    THEN [number |-> gLogFileNumber, open |-> None, files |-> files]
    ELSE [number |-> gLogFileNumber + 1,
          open |-> IF fails THEN None ELSE gLogFileNumber + 1,
          files |-> IF fails THEN files ELSE Opened(gLogFileNumber + 1)]

SetDisk(d) == gLogFileNumber' = d.number /\ gLogFile' = d.open /\ files' = d.files

\* tellp is -1 when no file is open, and the cast makes that the largest size.
Full == gLogFile # None => Len(files[gLogFile].text) >= MaxLogFileSize
\* write and flush, which do nothing on a stream that is not open.
Written(d, m) ==
    IF d.open = None THEN d
    ELSE [d EXCEPT !.files[d.open] = [written |-> today, text |-> Append(@.text, m)]]
-----------------------------------------------------------------------------
(* The calls. *)

Goto(t, l) == place' = [place EXCEPT ![t] = l]

Begin(t, s, l) ==
    /\ ~crashed /\ place[t] = "idle" /\ sent < MaxMessages
    /\ Goto(t, l)
    /\ severity' = [severity EXCEPT ![t] = s]
    /\ sent' = sent + 1 /\ mine' = [mine EXCEPT ![t] = sent + 1]
    /\ UNCHANGED <<settings, disk, world, excused, owed>>

\* shouldCreateLogMessage reads the level first.
LOG(t) ==
    /\ \E s \in INFO .. FATAL : s >= gMinLogLevel /\ Begin(t, s, "asked")
    /\ UNCHANGED closing

\* A failed CHECK builds its message without asking.
CHECK(t) == Begin(t, FATAL, "message") /\ UNCHANGED closing

\* "Logging finished" is a message of its own, then the file is closed.
shutdownLogging(t) ==
    IF INFO >= gMinLogLevel
    THEN Begin(t, INFO, "asked") /\ closing' = [closing EXCEPT ![t] = TRUE]
    ELSE /\ ~crashed /\ place[t] = "idle" /\ gLogFile # None
         /\ Goto(t, "close")
         /\ UNCHANGED <<settings, disk, world, message, excused, owed>>

Close(t) ==
    /\ ~crashed /\ place[t] = "close"
    /\ gLogFile' = None
    /\ Goto(t, "idle")
    /\ closing' = [closing EXCEPT ![t] = FALSE]
    /\ UNCHANGED <<settings, gLogFileNumber, files, world, severity, sent, mine, excused, owed>>

\* Settings and file change together; what initLogging then logs are messages
\* as any other.
initLogging(t) ==
    /\ ~crashed /\ place[t] = "idle" /\ inits < MaxInits
    /\ \E destination \in Destinations, level \in Levels, fails \in BOOLEAN :
        /\ gLoggingDestination' = destination /\ gMinLogLevel' = level
        /\ SetDisk(initLoggingUnlocked(destination, fails))
    /\ inits' = inits + 1
    /\ excused' = [r \in Thread |-> mine[r] # 0]
    /\ UNCHANGED <<today, crashed, place, message, owed>>
-----------------------------------------------------------------------------
(* A message. *)

\* What follows a message.
Leave(t) ==
    /\ Goto(t, IF closing[t] THEN "close" ELSE "idle")
    /\ mine' = [mine EXCEPT ![t] = 0] /\ excused' = [excused EXCEPT ![t] = FALSE]
    /\ severity' = [severity EXCEPT ![t] = INFO]

\* The end of shouldCreateLogMessage.
Asked(t) ==
    /\ ~crashed /\ place[t] = "asked"
    /\ IF gLoggingDestination # {} \/ severity[t] >= ERROR
       THEN Goto(t, "message") /\ UNCHANGED <<severity, mine, excused>>
       ELSE Leave(t)
    /\ UNCHANGED <<settings, disk, world, closing, sent, owed>>

ToFile(t) ==
    /\ ~crashed /\ place[t] = "message"
    /\ Goto(t, IF "file" \in gLoggingDestination THEN "write" ELSE "done")
    /\ UNCHANGED <<settings, disk, world, message, excused, owed>>

\* A full or closed file is replaced first.  The message is owed unless the
\* settings have changed or the new file could not be opened.
WriteFile(t) ==
    LET same == [number |-> gLogFileNumber, open |-> gLogFile, files |-> files]
    IN  /\ ~crashed /\ place[t] = "write"
        /\ \E fails \in {f \in BOOLEAN : f => Full} :
            /\ SetDisk(Written(IF Full THEN initLoggingUnlocked(gLoggingDestination, fails)
                                       ELSE same, mine[t]))
            /\ owed' = IF fails \/ excused[t] THEN owed
                       ELSE owed \cup {[message |-> mine[t], day |-> today]}
        /\ Goto(t, "done")
        /\ UNCHANGED <<settings, world, message, excused>>

\* A fatal message ends the process.
Done(t) ==
    /\ ~crashed /\ place[t] = "done"
    /\ crashed' = (severity[t] = FATAL)
    /\ Leave(t)
    /\ UNCHANGED <<settings, disk, today, inits, closing, sent, owed>>

DayPasses ==
    /\ today < MaxDay
    /\ today' = today + 1
    /\ UNCHANGED <<settings, disk, inits, crashed, place, message, excused, owed>>

\* Nobody is obliged to log.
Rest == (\A t \in Thread : place[t] = "idle" \/ crashed) /\ UNCHANGED vars

Next ==
    \/ \E t \in Thread :
        \/ LOG(t) \/ CHECK(t) \/ initLogging(t) \/ shutdownLogging(t)
        \/ Asked(t) \/ ToFile(t) \/ WriteFile(t) \/ Done(t) \/ Close(t)
    \/ DayPasses
    \/ Rest

Spec == Init /\ [][Next]_vars
-----------------------------------------------------------------------------
\* A line of a file holds m, and no other line of any file does.
WrittenOnce(m) ==
    \E f \in DOMAIN files : \E i \in DOMAIN files[f].text :
        /\ files[f].text[i] = m
        /\ \A g \in DOMAIN files : \A j \in DOMAIN files[g].text :
            files[g].text[j] = m => g = f /\ j = i

\* A message a file was to take is in one file, once, until that file has
\* reached the age: not lost by a rotation, by a shutdownLogging of another
\* thread ("the log file is opened as necessary", logging.h:189), by a file of
\* the same name, or by the crash that a fatal message brings.
LoggedIsKept ==
    \A o \in owed :
        \/ WrittenOnce(o.message)
        \/ MaxLogFileAge # 0 /\ o.day < today - MaxLogFileAge
=============================================================================
