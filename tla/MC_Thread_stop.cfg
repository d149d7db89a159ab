\* The owner alone ends the thread, with stop or stopSoon.
SPECIFICATION Spec
CONSTANTS
    Owner = Owner
    Helper = Helper
    Usages = {{"owner stops"}}
    Eager = FALSE
    MaxStarts = 1
INVARIANTS
    PostEndsBeforeLoop
