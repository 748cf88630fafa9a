------------------------- MODULE MC_WorkerCommands --------------------------
(***************************************************************************)
(* One socket and two commands: two writes may cross, or a query and a     *)
(* write.  Two connections, so that a worker can be back before the old    *)
(* carrier is gone.                                                        *)
(***************************************************************************)
EXTENDS WorkerCommands
MCSockets == {System}
MCConns == {"c1", "c2"}
MCSocketOf == [c \in MCConns |-> System]
MCCallbacks == {NVRam, Timer}
MCKeys == {"pir"}
MCValues == {"on", "off"}
=============================================================================
