--------------------------- MODULE MC_MessageLoop ---------------------------
(* The values TLC gives to the delays of the tasks. *)
EXTENDS MessageLoop

CONSTANTS now1, now2, later1, later2, idle1, quit, nest

\* Delays of 0, 1 and 2 ticks: later2 may be posted first and be due last.
MC_Delay == [t \in Task |-> CASE t = later1 -> 1 [] t = later2 -> 2 [] OTHER -> 0]
=============================================================================
