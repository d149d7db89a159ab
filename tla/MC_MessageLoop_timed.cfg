SPECIFICATION Spec
CONSTANTS
    Loop = Loop
    Poster = {p1}
    now1 = now1
    now2 = now2
    later1 = later1
    later2 = later2
    idle1 = idle1
    quit = quit
    nest = nest
    Task = {now1, later2}
    Delay <- MC_Delay
    NonNestable = {}
    Quitter = {}
    Nester = {}
    MaxTime = 3
INVARIANTS
    PostWakesTimedWait
