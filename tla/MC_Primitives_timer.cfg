\* Of the eleven components the pump for Windows has most to do: two delayed
\* tasks, of which the second posted may be due before the first.
SPECIFICATION Spec
CONSTANTS
    Waiter = {w1}
    Setter = {s1}
    Owner = Owner
    Helper = Helper
    Usages <- Disciplined
    Eager = FALSE
    MaxStarts = 1
    log = log
    conf = conf
    net = net
    Singleton = {}
    Managed = {}
    Main = Main
    Worker = {t1}
    MaxProcess = 0
    Stream = {}
    Platforms = {"posix"}
    Cap = 1
    BufferSize = 1
    MaxOutput = 0
    MaxInput = 0
    Program = {}
    Systems = {"posix"}
    Empty = Empty
    MaxRuns = 0
    MaxFailures = 1
    Logger = {}
    Destinations <- FileOrStderr
    Levels = {}
    MaxLogFileSize = 1
    MaxLogFileAge = 1
    MaxMessages = 0
    MaxInits = 0
    MaxDay = 0
    Poster = {p1}
    modal = modal
    soon = soon
    later = later
    quit = quit
    Task = {soon, later}
    Modal = {}
    Quitter = {}
    Capacity = 2
    Null = Null
    MaxUser = 0
    MaxTime = 4
    MaxRequests = 1
    Tool = {c1}
    MaxCommands = 1
    Handle = {h1}
    MaxTimers = 1
    MaxCallbacks = 1
INVARIANTS
    TimerForEarliest
