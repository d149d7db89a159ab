SPECIFICATION Spec
CONSTANTS
    Worker = Worker
    past = past
    soon = soon
    every = every
    Client = {c1}
    Timer = {past, soon, every}
    Delay <- MC_Delay
    Period <- MC_Period
    MaxTime = 2
INVARIANTS
    TypeOK
    IdsPartitioned
    NoLostWakeup
PROPERTIES
    FiredAsAsked
    OneShotFires
