SPECIFICATION Spec
CONSTANTS
    Loop = Loop
    Poster = {p1}
    now1 = now1
    now2 = now2
    later1 = later1
    later2 = later2
    idle1 = idle1
    quit = quit
    nest = nest
    Task = {now1, later1, later2, idle1, nest}
    Delay <- MC_Delay
    NonNestable = {idle1, later2}
    Quitter = {idle1}
    Nester = {nest}
    MaxTime = 3
INVARIANTS
    TypeOK
    OneFate
    NoLostWakeup
    SleepsOnlyWhenIdle
    NoPostIntoDestroyed
PROPERTIES
    ImmediateInOrder
    QuitIsPrompt
    EveryTaskSettled
