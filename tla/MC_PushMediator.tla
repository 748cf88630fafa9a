-------------------------- MODULE MC_PushMediator ---------------------------
(***************************************************************************)
(* The alarm handler with two clips per event (the value in the shipped    *)
(* NVRAM file), the pre-alarm time of the code and an event time of seven   *)
(* ticks: enough for both clips, or for the time to run out after one.     *)
(***************************************************************************)
EXTENDS PushMediator
MCSecondDurations == {8}
=============================================================================
