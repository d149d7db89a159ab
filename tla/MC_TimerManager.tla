-------------------------- MODULE MC_TimerManager --------------------------
(* The values TLC gives to the delays and the periods of the timers: a     *)
(* timer already due, one due later, and a periodic one.                   *)
EXTENDS TimerManager

CONSTANTS past, soon, every

MC_Delay == [t \in Timer |-> IF t = past THEN -1 ELSE 1]
MC_Period == [t \in Timer |-> IF t = every THEN 1 ELSE 0]
=============================================================================
