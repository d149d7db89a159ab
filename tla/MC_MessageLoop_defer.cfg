SPECIFICATION Spec
CONSTANTS
    Loop = Loop
    Poster = {p1}
    now1 = now1
    now2 = now2
    later1 = later1
    later2 = later2
    idle1 = idle1
    quit = quit
    nest = nest
    Task = {idle1, nest}
    Delay <- MC_Delay
    NonNestable = {idle1}
    Quitter = {}
    Nester = {nest}
    MaxTime = 1
INVARIANTS
    NonNestableWaits
