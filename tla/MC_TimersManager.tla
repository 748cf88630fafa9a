-------------------------- MODULE MC_TimersManager --------------------------
(* A small instance of TimersManager: four timers, periods 1, 2 and 3, so     *)
(* the wheel grows from 1 to 6 slots; pauses below, at and above the limit.   *)
EXTENDS TimersManager
=============================================================================
