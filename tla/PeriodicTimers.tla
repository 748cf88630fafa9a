--------------------------- MODULE PeriodicTimers ---------------------------
(***************************************************************************)
(* What the users of TimersManager rely on: a registered timer counts down *)
(* the ticks to its next event, fires exactly once when none are left, and *)
(* starts over with its period.                                            *)
(***************************************************************************)
EXTENDS Naturals

VARIABLES period,   \* of every registered timer
          due,      \* of every registered timer: ticks before the one it fires in
          fired     \* timers that fired in the current tick

timerVars == <<period, due, fired>>

Registered == DOMAIN due

TimersInit == period = <<>> /\ due = <<>> /\ fired = {}

Register(t, p, d) ==
  /\ t \notin Registered /\ d < p
  /\ period' = [x \in Registered \cup {t} |-> IF x = t THEN p ELSE period[x]]
  /\ due' = [x \in Registered \cup {t} |-> IF x = t THEN d ELSE due[x]]
  /\ UNCHANGED fired

Cancel(t) ==
  /\ t \in Registered
  /\ period' = [x \in Registered \ {t} |-> period[x]]
  /\ due' = [x \in Registered \ {t} |-> due[x]]
  /\ fired' = fired \ {t}

Fire(t) ==
  /\ t \in Registered \ fired /\ due[t] = 0
  /\ fired' = fired \cup {t}
  /\ UNCHANGED <<period, due>>

Tick ==
  /\ fired = {t \in Registered : due[t] = 0}
  /\ due' = [t \in Registered |-> IF due[t] = 0 THEN period[t] - 1 ELSE due[t] - 1]
  /\ fired' = {}
  /\ UNCHANGED period
=============================================================================
