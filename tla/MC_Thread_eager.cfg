\* A Helper started by the delegate, as in t_thread.cpp, but without its sleep:
\* it may post the quit while Owner is still inside start.
SPECIFICATION Spec
CONSTANTS
    Owner = Owner
    Helper = Helper
    Usages = {{"helper quits"}}
    Eager = TRUE
    MaxStarts = 1
PROPERTIES
    StartEnds
