----------------------------- MODULE AlarmClips -----------------------------
(***************************************************************************)
(* What the alarm handler promises about the clips of one event, without   *)
(* saying how: an event opens its clips one after the other, numbered from *)
(* 0, at most MaxClips of them, at most one open at a time, and no clip    *)
(* is open when the event ends.                                            *)
(***************************************************************************)
EXTENDS Naturals

CONSTANT MaxClips   \* a positive number

VARIABLES phase,     \* "idle", "between" two clips, or "open"
          finished   \* clips of the current event that were closed

clipVars == <<phase, finished>>

ClipsInit == phase = "idle" /\ finished = 0

Begin == phase = "idle" /\ phase' = "between" /\ finished' = 0
Open  == phase = "between" /\ finished < MaxClips /\ phase' = "open" /\ UNCHANGED finished
Close == phase = "open" /\ phase' = "between" /\ finished' = finished + 1
End   == phase = "between" /\ phase' = "idle" /\ finished' = 0

ClipsNext == Begin \/ Open \/ Close \/ End

ClipsSpec == ClipsInit /\ [][ClipsNext]_clipVars
=============================================================================
