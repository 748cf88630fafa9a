------------------------- MODULE MC_CloudConnection -------------------------
(* CloudConnection with short times.  A round can be longer than the wait   *)
(* between two tries, and two names let a timer have two connections; when  *)
(* both are taken, a try fails before it makes one.                         *)
EXTENDS CloudConnection

MCConns == 1 .. 2
AllKinds == {[kind |-> "service", ssl |-> TRUE], [kind |-> "register", ssl |-> FALSE],
             [kind |-> "air", ssl |-> FALSE]}
OneJump == {2}
=============================================================================
