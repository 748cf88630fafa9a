---------------------------- MODULE ProtocolStack ----------------------------
(***************************************************************************)
(* Protocol stacks and their end (thelib: baseprotocol.cpp,                *)
(* protocolmanager.cpp, tcpprotocol.cpp, and the I/O handlers of           *)
(* netio/select).  A connection is a chain of protocols linked far and     *)
(* near: the far endpoint owns the carrier (socket or timer), the near     *)
(* endpoint is next to the application.  Nothing that is in use may be     *)
(* deleted inside an event, so objects are enqueued for delete; after each *)
(* Pulse the loop of qcam.cpp deletes dead handlers, then dead protocols,  *)
(* and each destructor enqueues its neighbours.  A few error paths delete  *)
(* a protocol directly.                                                    *)
(*                                                                         *)
(* A carrier is made once, together with the chain, for its far endpoint,  *)
(* and goes by the id of that protocol here; a handler without protocol    *)
(* goes by an id that no protocol gets.  DeleteNearProtocol(false) of RTMP *)
(* over HTTP, which keeps a chain without carrier, is left out.            *)
(***************************************************************************)
EXTENDS Integers, FiniteSets

CONSTANTS MaxProtocols,   \* bound on protocols ever created, for TLC
          MaxChain        \* protocols in the longest configured chain

ASSUME StackAssumption == MaxProtocols \in Nat /\ MaxChain \in Nat

None == 0
Pid == 1..MaxProtocols
Phases == {"events", "handlers", "protocols",
           "last protocols", "last handlers", "stopped"}

VARIABLES live,          \* protocol objects that exist
          active,        \* ProtocolManager::_activeProtocols
          dead,          \* ProtocolManager::_deadProtocols
          graceful,      \* those with _gracefullyEnqueueForDelete
          far, near,     \* _pFarProtocol, _pNearProtocol
          timers,        \* far endpoints that are BaseTimerProtocols
          carried,       \* far endpoints with a carrier (_pCarrier, _pTimer)
          handlers,      \* IOHandlerManager::_activeIOHandlers
          bound,         \* handlers with a _pProtocol
          deadHandlers,  \* IOHandlerManager::_deadIOHandlers
          lastId,        \* BaseProtocol::_idGenerator
          phase          \* where the loop is

protocolVars == <<live, active, dead, graceful, far, near, timers, lastId>>
handlerVars == <<carried, handlers, bound, deadHandlers>>
stackVars == <<protocolVars, handlerVars, phase>>

StackInit ==
  /\ live = {} /\ active = {} /\ dead = {} /\ graceful = {} /\ timers = {}
  /\ far = [p \in Pid |-> None] /\ near = [p \in Pid |-> None]
  /\ carried = {} /\ handlers = {} /\ bound = {} /\ deadHandlers = {}
  /\ lastId = 0 /\ phase = "events"

-----------------------------------------------------------------------------
(***************************************************************************)
(* Making and changing stacks                                              *)
(***************************************************************************)

\* New protocols first..last are linked; those in doomed are enqueued for delete.
Chain(first, last, doomed) ==
  /\ far' = [p \in Pid |-> IF p \in (first + 1)..last THEN p - 1 ELSE far[p]]
  /\ near' = [p \in Pid |-> IF p \in first..(last - 1) THEN p + 1 ELSE near[p]]
  /\ live' = live \cup (first..last)
  /\ active' = active \cup ((first..last) \ doomed)
  /\ dead' = dead \cup doomed

Carry(p) == carried' = carried \cup {p} /\ handlers' = handlers \cup {p} /\ bound' = bound \cup {p}

\* An acceptor, connector or timer: n protocols on a carrier.
CreateStack(n) ==
  /\ phase = "events" /\ lastId + n <= MaxProtocols
  /\ Chain(lastId + 1, lastId + n, {})
  /\ Carry(lastId + 1)
  /\ timers' = IF n = 1 THEN timers \cup {lastId + 1} ELSE timers
  /\ lastId' = lastId + n
  /\ UNCHANGED <<graceful, deadHandlers, phase>>

\* A handler without protocol: an acceptor, or a connector that waits.
OpenSocket ==
  /\ phase = "events" /\ lastId < MaxProtocols
  /\ lastId' = lastId + 1
  /\ handlers' = handlers \cup {lastId'}
  /\ UNCHANGED <<live, active, dead, graceful, far, near, timers, carried, bound,
                 deadHandlers, phase>>

\* CreateProtocolChain cannot spawn the next protocol after n: the far endpoint
\* is deleted on the spot, which enqueues its neighbour.
CreateStackFails(n) ==
  /\ phase = "events" /\ n > 1 /\ lastId + n <= MaxProtocols
  /\ Chain(lastId + 2, lastId + n, {lastId + 2})
  /\ lastId' = lastId + n
  /\ UNCHANGED <<graceful, timers, handlerVars, phase>>

\* Slip: the protocol next to the deleted one is not enqueued.
Orphan_Kept(p) == {}

\* What the deletion of the near endpoint of a new chain enqueues.
Orphan(p) == {p}

\* TCPConnector::OnEvent: the protocol class refuses the chain of n that was made
\* for the connection, and the near endpoint is deleted on the spot.
ConnectorFails(n) ==
  /\ phase = "events" /\ n > 1 /\ lastId + n <= MaxProtocols
  /\ Chain(lastId + 1, lastId + n - 1, Orphan(lastId + n - 1))
  /\ Carry(lastId + 1)
  /\ lastId' = lastId + n
  /\ UNCHANGED <<graceful, timers, deadHandlers, phase>>

\* A WebSocket sub-protocol is put on the near endpoint p of a stack.
AddNear(p) ==
  LET q == lastId + 1
  IN /\ phase = "events" /\ q <= MaxProtocols
     /\ p \in active \ timers /\ near[p] = None
     /\ near' = [near EXCEPT ![p] = q] /\ far' = [far EXCEPT ![q] = p]
     /\ live' = live \cup {q} /\ active' = active \cup {q} /\ lastId' = q
     /\ UNCHANGED <<dead, graceful, timers, handlerVars, phase>>

\* The sub-protocol cannot be initialised: its deletion takes p with it.
AddNearFails(p) ==
  /\ phase = "events" /\ lastId < MaxProtocols
  /\ p \in active \ timers /\ near[p] = None
  /\ lastId' = lastId + 1
  /\ active' = active \ {p} /\ dead' = dead \cup {p}
  /\ UNCHANGED <<live, graceful, far, near, timers, handlerVars, phase>>

\* ResetFarProtocol
FarOfReplaced(p) == None

\* The RTMPS discriminator p puts the protocol it has found out about in its place.
Rebind(p) ==
  LET q == lastId + 1
  IN /\ phase = "events" /\ q <= MaxProtocols
     /\ p \in active /\ near[p] = None /\ far[p] # None
     /\ near' = [near EXCEPT ![far[p]] = q]
     /\ far' = [far EXCEPT ![q] = far[p], ![p] = FarOfReplaced(p)]
     /\ live' = live \cup {q} /\ active' = (active \ {p}) \cup {q} /\ dead' = dead \cup {p}
     /\ lastId' = q
     /\ UNCHANGED <<graceful, timers, handlerVars, phase>>

\* An RTMPE protocol is put in on the far side of p.
InsertFar(p) ==
  LET q == lastId + 1
  IN /\ phase = "events" /\ q <= MaxProtocols
     /\ p \in active /\ far[p] # None
     /\ near' = [near EXCEPT ![far[p]] = q, ![q] = p]
     /\ far' = [far EXCEPT ![q] = far[p], ![p] = q]
     /\ live' = live \cup {q} /\ active' = active \cup {q} /\ lastId' = q
     /\ UNCHANGED <<dead, graceful, timers, handlerVars, phase>>

-----------------------------------------------------------------------------
(***************************************************************************)
(* Enqueueing for delete                                                   *)
(***************************************************************************)
Enqueue(ps) == active' = active \ ps /\ dead' = dead \cup ps

\* Protocols are given up inside events and in the destructors of others.
EnqueueForDelete(p) ==
  /\ phase \in {"events", "protocols"} /\ p \in live
  /\ Enqueue({p})
  /\ UNCHANGED <<live, graceful, far, near, timers, lastId, handlerVars, phase>>

\* The stack p belongs to: what its links lead to.
Closed(ps) == \A q \in ps : {far[q], near[q]} \ {None} \subseteq ps
Stack(p) == {q \in live : \A ps \in SUBSET live : p \in ps /\ Closed(ps) => q \in ps}

\* From the far endpoint on towards the application: it stops there while output
\* is still to be sent; without any, the near endpoint is enqueued.
GracefullyEnqueueForDelete(p) ==
  /\ phase = "events" /\ p \in live
  /\ \/ \E f \in Stack(p) : /\ far[f] = None /\ graceful' = graceful \cup {f}
                            /\ UNCHANGED <<active, dead>>
     \/ /\ graceful' = graceful \cup Stack(p)
        /\ Enqueue({q \in Stack(p) : near[q] = None})
  /\ UNCHANGED <<live, far, near, timers, lastId, handlerVars, phase>>

\* The carrier has sent everything: ReadyForSend reaches a protocol that waits.
OutputSent(p) ==
  /\ phase = "events" /\ p \in bound \cap graceful
  /\ Enqueue({p})
  /\ UNCHANGED <<live, graceful, far, near, timers, lastId, handlerVars, phase>>

\* OnEvent of the carrier has returned false: the peer is gone.
HandlerFails(h) ==
  /\ phase = "events" /\ h \in handlers
  /\ deadHandlers' = deadHandlers \cup {h}
  /\ UNCHANGED <<protocolVars, carried, handlers, bound, phase>>

-----------------------------------------------------------------------------
(***************************************************************************)
(* The loop of qcam.cpp: Pulse, DeleteDeadHandlers, CleanupDeadProtocols   *)
(***************************************************************************)

AfterEvents == "handlers"

PulseReturns ==
  /\ phase = "events" /\ phase' = AfterEvents
  /\ UNCHANGED <<protocolVars, handlerVars>>

\* Who is enqueued when handler h is deleted.
Uncarried(h) == {h} \cap bound

DeleteDeadHandler(h) ==
  /\ phase \in {"handlers", "last handlers"} /\ h \in deadHandlers
  /\ \A g \in deadHandlers : h <= g
  /\ deadHandlers' = deadHandlers \ {h}
  /\ handlers' = handlers \ {h} /\ bound' = bound \ {h}
  /\ carried' = carried \ {h}
  /\ Enqueue(Uncarried(h))
  /\ UNCHANGED <<live, graceful, far, near, timers, lastId, phase>>

DeadHandlersDone ==
  /\ deadHandlers = {}
  /\ \/ phase = "handlers" /\ phase' = "protocols"
     \/ phase = "last handlers" /\ phase' = "stopped"
  /\ UNCHANGED <<protocolVars, handlerVars>>

\* Slip: only the far neighbour is enqueued.
Neighbours_FarOnly(p) == {far[p]} \ {None}

Neighbours(p) == {far[p], near[p]} \ {None}

\* Slip: the destructor clears its own links only.
Unlinked_OwnOnly(p, link) == [q \in Pid |-> IF q = p THEN None ELSE link[q]]

\* A link map without p.
Unlinked(p, link) == [q \in Pid |-> IF q = p \/ link[q] = p THEN None ELSE link[q]]

\* ~TCPProtocol deletes the carrier, ~BaseProtocol unlinks and enqueues the
\* neighbours.  Nothing removes a deleted handler from _deadIOHandlers.
CleanupDeadProtocol(p) ==
  /\ phase \in {"protocols", "last protocols"} /\ p \in dead
  /\ \A q \in dead : p <= q
  /\ far' = Unlinked(p, far) /\ near' = Unlinked(p, near)
  /\ live' = live \ {p}
  /\ active' = active \ Neighbours(p)
  /\ dead' = (dead \cup Neighbours(p)) \ {p}
  /\ graceful' = graceful \ {p} /\ timers' = timers \ {p}
  /\ carried' = carried \ {p} /\ bound' = bound \ {p}
  /\ handlers' = handlers \ (carried \cap {p})
  /\ UNCHANGED <<deadHandlers, lastId, phase>>

\* Slip: only carriers are deleted at the end.
ToClose_Bound == bound

\* ShutdownIOHandlers
ToClose == handlers

CleanupDone ==
  /\ dead = {}
  /\ \/ phase = "protocols" /\ phase' = "events" /\ UNCHANGED deadHandlers
     \/ /\ phase = "last protocols" /\ phase' = "last handlers"
        /\ deadHandlers' = deadHandlers \cup ToClose
  /\ UNCHANGED <<protocolVars, carried, handlers, bound>>

\* Pulse returns false before it handles any event, and Cleanup begins.
Shutdown ==
  /\ phase = "events" /\ dead = {} /\ deadHandlers = {}
  /\ phase' = "last protocols"
  /\ Enqueue(active)
  /\ UNCHANGED <<live, graceful, far, near, timers, lastId, handlerVars>>

Loop == \/ PulseReturns \/ DeadHandlersDone \/ CleanupDone
        \/ \E p \in Pid : DeleteDeadHandler(p) \/ CleanupDeadProtocol(p)

Events == \/ OpenSocket
          \/ \E n \in 1..MaxChain : CreateStack(n) \/ CreateStackFails(n) \/ ConnectorFails(n)
          \/ \E p \in Pid : \/ AddNear(p) \/ AddNearFails(p) \/ Rebind(p) \/ InsertFar(p)
                            \/ EnqueueForDelete(p) \/ GracefullyEnqueueForDelete(p)
                            \/ OutputSent(p) \/ HandlerFails(p)

StackNext == Events \/ Loop \/ Shutdown

StackSpec == StackInit /\ [][StackNext]_stackVars

\* Pulse handles each handler once and returns, so the loop goes round.
StackFairSpec == StackSpec /\ WF_stackVars(Loop)

-----------------------------------------------------------------------------
(***************************************************************************)
(* Properties                                                              *)
(***************************************************************************)

\* Every variable keeps its type.
TypeOK ==
  /\ live \subseteq Pid /\ active \subseteq Pid /\ dead \subseteq Pid
  /\ graceful \subseteq Pid /\ timers \subseteq Pid
  /\ far \in [Pid -> Pid \cup {None}] /\ near \in [Pid -> Pid \cup {None}]
  /\ carried \subseteq Pid /\ handlers \subseteq Pid /\ bound \subseteq Pid
  /\ deadHandlers \subseteq Pid
  /\ lastId \in Nat /\ lastId <= MaxProtocols /\ phase \in Phases

\* The links of BaseProtocol are mutual and never lead to a deleted protocol,
\* also after direct deletions and replacements inside a stack.
LinksMutual ==
  \A p \in Pid :
    /\ far[p] # None => p \in live /\ far[p] \in live /\ near[far[p]] = p
    /\ near[p] # None => p \in live /\ near[p] \in live /\ far[near[p]] = p

\* ProtocolManager knows every protocol that exists, once, and no other.
EachInOneMap == active \cup dead = live /\ active \cap dead = {}

\* Every protocol's carrier exists and points back; a handler enqueued for
\* delete exists, although no destructor takes itself off the dead list.
CarriersMutual ==
  /\ carried = bound /\ bound \subseteq handlers \cap live
  /\ deadHandlers \subseteq handlers

\* Whatever is created, replaced, refused or deleted directly: no link, no
\* carrier and neither map of ProtocolManager leads to a deleted object.
NoDangling == LinksMutual /\ CarriersMutual /\ EachInOneMap

\* No half stacks: a protocol that has lost the far part of its chain, or its
\* carrier, is on its way out, so after a round every stack reaches a carrier.
NoHeadless == \A p \in live : far[p] = None /\ p \notin carried => p \in dead

\* What TCPProtocol::SignalInputData relies on when it hands input to
\* _pNearProtocol unchecked: a socket that select still polls has a stack.
InputHasReceiver ==
  \A p \in carried \ timers : near[p] # None \/ p \in dead

\* A stack is whole or on its way out, so input always finds a receiver and no
\* protocol waits for a socket it does not have.
WholeStacksOnly == NoHeadless /\ InputHasReceiver

\* What IOHandlerManager::Shutdown tests for, and more: nothing is left.
NothingLeft == phase = "stopped" => live = {} /\ handlers = {}

\* A protocol that is given up takes along the carrier and all protocols that
\* are linked to it, in whatever order the loop finds them.
WholeStackGoes ==
  \A p, q \in Pid : (p \in dead /\ q \in Stack(p)) ~> q \notin live
=============================================================================
