SPECIFICATION Spec
CONSTANTS
    Waiter = {w1, w2}
    Setter = {s1, s2}
    Owner = Owner
    Helper = Helper
    Usages <- Disciplined
    Eager = FALSE
    MaxStarts = 2
    log = log
    conf = conf
    net = net
    Singleton = {log, conf, net}
    Managed = {log, conf, net}
    Main = Main
    Worker = {t1, t2}
    MaxProcess = 1
    Stream = {"out", "err"}
    Platforms = {"posix", "windows"}
    Cap = 1
    BufferSize = 1
    MaxOutput = 2
    MaxInput = 2
    Program = {i1, i2, i3}
    Systems = {"posix", "windows"}
    Empty = Empty
    MaxRuns = 3
    MaxFailures = 1
    Logger = {l1, l2}
    Destinations <- FileOrStderr
    Levels = {0, 1}
    MaxLogFileSize = 1
    MaxLogFileAge = 1
    MaxMessages = 2
    MaxInits = 1
    MaxDay = 2
    Poster = {p1, p2}
    modal = modal
    soon = soon
    later = later
    quit = quit
    Task = {modal, soon, quit}
    Modal = {modal}
    Quitter = {quit}
    Capacity = 2
    Null = Null
    MaxUser = 1
    MaxTime = 2
    MaxRequests = 2
    Tool = {c1, c2}
    MaxCommands = 3
    Handle = {h1, h2}
    MaxTimers = 3
    MaxCallbacks = 2
INVARIANTS
    TypeOK
    StopFindsLoop
    NoneLeft
    DeliveredBeforeStatus
    LoggedIsKept
    SecondaryIsHeard
    PumpWakes
    ReportedTruly
PROPERTIES
    SetReleases
    StartWaitsForSetup
    StopEnds
    UsersGoFirst
    EndsWithChild
