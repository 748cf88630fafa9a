------------------------------- MODULE IOLoop -------------------------------
(***************************************************************************)
(* The loop around select: IOHandlerManager (thelib/src/netio/select/      *)
(* iohandlermanager.cpp), its descriptor sets, and the handlers in it:     *)
(* acceptors, connectors, carriers and timers (tcpacceptor.cpp,            *)
(* tcpconnector.h, tcpcarrier.cpp, iotimer.cpp).                           *)
(*                                                                         *)
(* A descriptor may belong to two handlers at once: a connector hands its  *)
(* socket to a new carrier and stays until the end of the round, and a     *)
(* timer's descriptor is a number it made up.  Flags are therefore kept    *)
(* per handler, and the sets for select are their unions.  Sockets are     *)
(* closed by destructors only, when the round is over; a close is a bare   *)
(* close of a number, whoever has it by then (CLOSE_SOCKET).               *)
(***************************************************************************)
EXTENDS Naturals, Sequences, FiniteSets, SequencesExt, FiniteSetsExt

CONSTANTS Handlers,      \* names of handlers, reused when they are gone
          Acceptor,      \* the one that listens
          MaxFd,         \* descriptors 1 .. MaxFd, 1 being the acceptor's
          MaxTimers      \* bound: timers made in a behaviour

Fds == 1 .. MaxFd

ASSUME LoopAssumption ==
  /\ IsFiniteSet(Handlers) /\ Acceptor \in Handlers
  /\ MaxFd \in Nat /\ MaxFd >= 1
  /\ MaxTimers \in 0 .. MaxFd

VARIABLES kind, fd,                \* of each handler: _type, _inboundFd = _outboundFd
          active,                  \* _activeIOHandlers, in the order of their ids
          dead,                    \* _deadIOHandlers
          orphans,                 \* carriers whose protocol is enqueued for delete
          readers, writers,        \* _fdState: who wants to read, to write
          readFds, writeFds,       \* _readFds, _writeFds
          readCopy, writeCopy,     \* _readFdsCopy, _writeFdsCopy after select
          phase, at,               \* of the loop; the event it has got to
          open,                    \* descriptors that are open
          closeSocket,             \* connectors with _closeSocket
          output,                  \* carriers whose protocol has output
          writeDataEnabled,        \* carriers with _writeDataEnabled
          timersMade,              \* IOTimer::_idGenerator
          refused,                 \* history: descriptors whose chain was refused and
          again                    \* those closed once more than opened, since select

fdVars == <<readers, writers, readFds, writeFds>>
roundVars == <<readCopy, writeCopy, phase, at, refused, again>>
carrierVars == <<output, writeDataEnabled>>
vars == <<kind, fd, active, dead, orphans, fdVars, roundVars, open, closeSocket,
          carrierVars, timersMade, refused, again>>

Kinds == {"none", "acceptor", "connector", "carrier", "timer"}
Phases == {"select", "timers", "events", "handlers", "protocols"}
Of(k) == {h \in Handlers : kind[h] = k}
FdsOf(hs) == {fd[h] : h \in hs}
InHandler == phase \in {"timers", "events"}

Init ==
  /\ kind = [h \in Handlers |-> IF h = Acceptor THEN "acceptor" ELSE "none"]
  /\ fd = [h \in Handlers |-> IF h = Acceptor THEN 1 ELSE 0]
  /\ active = <<Acceptor>> /\ dead = {} /\ orphans = {}
  /\ readers = [f \in Fds |-> IF f = 1 THEN {Acceptor} ELSE {}]
  /\ writers = [f \in Fds |-> {}]
  /\ readFds = {1} /\ writeFds = {}
  /\ readCopy = {} /\ writeCopy = {} /\ phase = "select" /\ at = 1
  /\ open = {1} /\ closeSocket = {} /\ output = {} /\ writeDataEnabled = {}
  /\ timersMade = 0 /\ refused = {} /\ again = {}

(***************************************************************************)
(* Descriptor sets                                                         *)
(***************************************************************************)
UpdateFdSets(fs) ==
  /\ readFds' = (readFds \ fs) \cup {f \in fs : readers'[f] # {}}
  /\ writeFds' = (writeFds \ fs) \cup {f \in fs : writers'[f] # {}}

\* Slip: one set of flags for a descriptor, whoever it belongs to.
Disabled_Descriptor(flags, hs) ==
  [f \in Fds |-> IF f \in FdsOf(hs) THEN {} ELSE flags[f]]

\* DisableReadData, DisableWriteData, DisableAcceptConnections
Disabled(flags, hs) == [f \in Fds |-> flags[f] \ hs]

EnqueueForDelete(hs) ==
  /\ dead' = dead \cup hs
  /\ readers' = Disabled(readers, hs) /\ writers' = Disabled(writers, hs)
  /\ UpdateFdSets(FdsOf(hs))
  /\ UNCHANGED open

\* ENABLE_WRITE_DATA
EnableWriteData(h) ==
  /\ writeDataEnabled' = writeDataEnabled \cup {h}
  /\ writers' = IF h \in writeDataEnabled THEN writers
                ELSE [writers EXCEPT ![fd[h]] = @ \cup {h}]
  /\ UNCHANGED readers /\ UpdateFdSets({fd[h]})

(***************************************************************************)
(* New handlers.  IOHandler::IOHandler registers them with the next id.    *)
(***************************************************************************)
FreshName(h) == Of("none") # {} /\ h = CHOOSE x \in Of("none") : TRUE
LowestFree == Min(Fds \ open)
Register(h, k, f) ==
  /\ kind' = [kind EXCEPT ![h] = k] /\ fd' = [fd EXCEPT ![h] = f]
  /\ active' = Append(active, h)

\* a carrier reads from the start, and what its protocol has to say is
\* enqueued at once
NewCarrier(h, f, speaks) ==
  /\ Register(h, "carrier", f)
  /\ output' = IF speaks THEN output \cup {h} ELSE output
  /\ writeDataEnabled' = IF speaks THEN writeDataEnabled \cup {h} ELSE writeDataEnabled

(***************************************************************************)
(* What handlers do to others while one of them runs                       *)
(***************************************************************************)
\* TCPConnector::Connect; connect may fail at once
Connect(h, works) ==
  /\ InHandler /\ FreshName(h) /\ Fds \ open # {}
  /\ Register(h, "connector", LowestFree)
  /\ open' = open \cup {LowestFree}
  /\ writers' = IF works THEN [writers EXCEPT ![LowestFree] = @ \cup {h}] ELSE writers
  /\ UNCHANGED readers /\ UpdateFdSets({LowestFree})
  /\ closeSocket' = IF works THEN closeSocket ELSE closeSocket \cup {h}
  /\ dead' = IF works THEN dead ELSE dead \cup {h}
  /\ UNCHANGED <<orphans, roundVars, carrierVars, timersMade>>

\* BaseServiceTimer gives up a connector that has made no protocol
GiveUpConnector(h) ==
  /\ InHandler /\ kind[h] = "connector"
  /\ \A c \in Of("carrier") : fd[c] # fd[h]
  /\ closeSocket' = closeSocket \cup {h}
  /\ EnqueueForDelete({h})
  /\ UNCHANGED <<kind, fd, active, orphans, roundVars, carrierVars, timersMade>>

\* a protocol gets something to send; a dead carrier takes it too
SignalOutputData(h) ==
  /\ InHandler /\ kind[h] = "carrier" /\ h \notin output
  /\ output' = output \cup {h}
  /\ EnableWriteData(h)
  /\ UNCHANGED <<kind, fd, active, dead, orphans, roundVars, open, closeSocket,
                 timersMade>>

ProtocolEnqueueForDelete(h) ==
  /\ InHandler /\ kind[h] = "carrier"
  /\ orphans' = orphans \cup {h}
  /\ UNCHANGED <<kind, fd, active, dead, fdVars, roundVars, open, closeSocket,
                 carrierVars, timersMade>>

\* IOTimer::IOTimer makes up a descriptor
NewTimer(h) ==
  /\ InHandler /\ FreshName(h) /\ timersMade < MaxTimers
  /\ timersMade' = timersMade + 1
  /\ Register(h, "timer", timersMade + 1)
  /\ UNCHANGED <<dead, orphans, fdVars, roundVars, open, closeSocket, carrierVars>>

DropTimer(h) ==
  /\ InHandler /\ kind[h] = "timer"
  /\ EnqueueForDelete({h})
  /\ UNCHANGED <<kind, fd, active, orphans, roundVars, closeSocket, carrierVars,
                 timersMade>>

(***************************************************************************)
(* Pulse                                                                   *)
(***************************************************************************)
\* select reports some of the descriptors it was asked for; a closed one among
\* them would make it fail and Pulse return false, which ends the program
Select(r, w) ==
  /\ phase = "select"
  /\ readCopy' = r /\ writeCopy' = w
  /\ phase' = "timers" /\ at' = 1 /\ refused' = {} /\ again' = {}
  /\ UNCHANGED <<kind, fd, active, dead, orphans, fdVars, open, closeSocket, carrierVars,
                 timersMade>>

\* IOTimer::OnEvent, called for whatever event
TimePeriodElapsed(h) ==
  /\ UNCHANGED <<kind, fd, active, orphans, closeSocket, carrierVars, timersMade, refused>>
  /\ \/ UNCHANGED <<dead, fdVars, open>>
     \/ EnqueueForDelete({h})

ProcessTimer(h) ==
  /\ phase = "timers" /\ kind[h] = "timer"
  /\ TimePeriodElapsed(h)
  /\ UNCHANGED roundVars

TimersDone ==
  /\ phase = "timers"
  /\ phase' = IF readCopy \cup writeCopy = {} THEN "handlers" ELSE "events"
  /\ UNCHANGED <<kind, fd, active, dead, orphans, fdVars, readCopy, writeCopy, at, open,
                 closeSocket, carrierVars, timersMade, refused, again>>

(***************************************************************************)
(* The walk over _activeIOHandlers.  Event 2i is "active[i] can read",     *)
(* 2i + 1 "it can write".  Handlers made meanwhile are visited too, and    *)
(* nobody asks whether one is dead.                                        *)
(***************************************************************************)
Pending ==
  {e \in (at + 1) .. (2 * Len(active) + 1) :
     fd[active[e \div 2]] \in IF e % 2 = 0 THEN readCopy ELSE writeCopy}

\* the loop calls OnEvent of h
Event(h, type) ==
  /\ phase = "events" /\ Pending # {}
  /\ at' = Min(Pending)
  /\ active[at' \div 2] = h
  /\ type = (IF at' % 2 = 0 THEN "read" ELSE "write")
  /\ UNCHANGED <<phase, readCopy, writeCopy, again>>

TimerEvent(h, type) ==
  /\ kind[h] = "timer"
  /\ Event(h, type)
  /\ TimePeriodElapsed(h)

\* TCPAcceptor::Accept, which may fail
AcceptEvent(h, c, speaks) ==
  /\ kind[h] = "acceptor" /\ Event(h, "read")
  /\ \/ /\ FreshName(c) /\ Fds \ open # {}
        /\ NewCarrier(c, LowestFree, speaks)
        /\ readers' = [readers EXCEPT ![LowestFree] = @ \cup {c}]
        /\ writers' = IF speaks THEN [writers EXCEPT ![LowestFree] = @ \cup {c}]
                      ELSE writers
        /\ UpdateFdSets({LowestFree})
        /\ open' = open \cup {LowestFree}
     \/ UNCHANGED <<kind, fd, active, fdVars, carrierVars, open>>
  /\ UNCHANGED <<dead, orphans, closeSocket, timersMade, refused>>

\* Slip: the socket the carrier has got stays the connector's.
HandedOver_Kept(h) == closeSocket

HandedOver(h) == closeSocket \ {h}

\* TCPConnector::OnEvent when there is a chain: the socket goes to a carrier.
\* If SignalProtocolCreated refuses the chain, it is deleted, the connector closes
\* the socket, and so does the carrier that came with the chain.
ConnectorEvent(h, c, refuses, speaks) ==
  /\ kind[h] = "connector" /\ Event(h, "write") /\ FreshName(c)
  /\ NewCarrier(c, fd[h], speaks /\ ~refuses)
  /\ dead' = dead \cup {h}
  /\ readers' = [Disabled(readers, {h}) EXCEPT ![fd[h]] = @ \cup {c}]
  /\ writers' = IF speaks /\ ~refuses
                THEN [Disabled(writers, {h}) EXCEPT ![fd[h]] = @ \cup {c}]
                ELSE Disabled(writers, {h})
  /\ UpdateFdSets({fd[h]})
  /\ closeSocket' = IF refuses THEN closeSocket \cup {h} ELSE HandedOver(h)
  /\ orphans' = IF refuses THEN orphans \cup {c} ELSE orphans
  /\ refused' = IF refuses THEN refused \cup {fd[h]} ELSE refused
  /\ UNCHANGED <<open, timersMade>>

\* ... and when CreateProtocolChain fails
ConnectorFails(h) ==
  /\ kind[h] = "connector" /\ Event(h, "write")
  /\ EnqueueForDelete({h})
  /\ closeSocket' = closeSocket \cup {h}
  /\ UNCHANGED <<kind, fd, active, orphans, carrierVars, timersMade, refused>>

\* TCPCarrier::OnEvent: what is read goes to protocols, and reading or writing
\* may fail
CarrierReads(h) ==
  /\ kind[h] = "carrier" /\ Event(h, "read")
  /\ UNCHANGED <<kind, fd, active, orphans, closeSocket, carrierVars, timersMade, refused>>
  /\ \/ UNCHANGED <<dead, fdVars, open>>
     \/ EnqueueForDelete({h})

CarrierWriteFails(h) ==
  /\ kind[h] = "carrier" /\ Event(h, "write") /\ h \in output
  /\ EnqueueForDelete({h})
  /\ UNCHANGED <<kind, fd, active, orphans, closeSocket, carrierVars, timersMade, refused>>

CarrierWritesSome(h) ==
  /\ kind[h] = "carrier" /\ Event(h, "write") /\ h \in output
  /\ EnableWriteData(h)
  /\ UNCHANGED <<kind, fd, active, dead, orphans, open, closeSocket, output, timersMade,
                 refused>>

\* Slip: what ReadyForSend has brought is not looked at.
StopsWriting_Always(h, called, more) == TRUE

\* DISABLE_WRITE_DATA, when ReadyForSend has called for output or left some
StopsWriting(h, called, more) == ~called /\ ~more

CarrierWritesAll(h, called, more) ==
  /\ kind[h] = "carrier" /\ Event(h, "write")
  /\ output' = IF more THEN output \cup {h} ELSE output \ {h}
  /\ IF h \in writeDataEnabled /\ StopsWriting(h, called, more)
     THEN /\ writeDataEnabled' = writeDataEnabled \ {h}
          /\ writers' = [writers EXCEPT ![fd[h]] = @ \ {h}]
          /\ UNCHANGED readers /\ UpdateFdSets({fd[h]})
     ELSE UNCHANGED <<writeDataEnabled, fdVars>>
  /\ h \notin writeDataEnabled => ~called /\ ~more    \* ReadyForSend is not called
  /\ UNCHANGED <<kind, fd, active, dead, orphans, open, closeSocket, timersMade, refused>>

EventsDone ==
  /\ phase = "events" /\ Pending = {}
  /\ phase' = "handlers" /\ readCopy' = {} /\ writeCopy' = {} /\ at' = 1
  /\ UNCHANGED <<kind, fd, active, dead, orphans, fdVars, open, closeSocket, carrierVars,
                 timersMade, refused, again>>

(***************************************************************************)
(* The end of a round                                                      *)
(***************************************************************************)
\* Slip: a destroyed handler stays in the list.
Registered_Still(hs) == active

\* The handlers that stay close up, in the order they had.
Place(i, places) == Cardinality({j \in places : j <= i})
Registered(hs) ==
  LET kept == {i \in DOMAIN active : active[i] \notin hs}
  IN  [n \in 1 .. Cardinality(kept) |-> active[CHOOSE i \in kept : Place(i, kept) = n]]

\* Who closes its descriptor when it is destroyed: ~TCPCarrier, ~TCPAcceptor and,
\* with _closeSocket, ~TCPConnector.
Closers(hs) == {h \in hs : kind[h] \in {"carrier", "acceptor"} \/ h \in closeSocket}

\* Their descriptors that are closed already, or are closed by two of them.
ClosedAgain(hs) ==
  {fd[h] : h \in {g \in Closers(hs) : \/ fd[g] \notin open
                                      \/ \E k \in Closers(hs) \ {g} : fd[k] = fd[g]}}

\* The destructors; ~IOHandler unregisters.  Every closer closes its number, and
\* whoever comes second finds it closed: nothing is opened between.
Destroy(hs) ==
  /\ open' = open \ FdsOf(Closers(hs))
  /\ again' = again \cup ClosedAgain(hs)
  /\ kind' = [h \in Handlers |-> IF h \in hs THEN "none" ELSE kind[h]]
  /\ fd' = [h \in Handlers |-> IF h \in hs THEN 0 ELSE fd[h]]
  /\ active' = Registered(hs)
  /\ readers' = Disabled(readers, hs) /\ writers' = Disabled(writers, hs)
  /\ UpdateFdSets(FdsOf(hs))
  /\ closeSocket' = closeSocket \ hs
  /\ output' = output \ hs /\ writeDataEnabled' = writeDataEnabled \ hs
  /\ dead' = dead \ hs /\ orphans' = orphans \ hs

DeleteDeadHandlers ==
  /\ phase = "handlers"
  /\ Destroy(dead)
  /\ phase' = "protocols"
  /\ UNCHANGED <<readCopy, writeCopy, at, timersMade, refused>>

\* ~TCPProtocol deletes its carrier
CleanupDeadProtocols ==
  /\ phase = "protocols"
  /\ Destroy(orphans)
  /\ phase' = "select"
  /\ UNCHANGED <<readCopy, writeCopy, at, timersMade, refused>>

Calls ==
  \E h \in Handlers : \/ \E works \in BOOLEAN : Connect(h, works)
                      \/ GiveUpConnector(h) \/ SignalOutputData(h)
                      \/ ProtocolEnqueueForDelete(h) \/ NewTimer(h) \/ DropTimer(h)
Selects == \E r \in SUBSET readFds, w \in SUBSET writeFds : Select(r, w)
Events ==
  \/ \E h \in Handlers, type \in {"read", "write"} : TimerEvent(h, type)
  \/ \E h, c \in Handlers, speaks \in BOOLEAN :
       \/ AcceptEvent(h, c, speaks)
       \/ \E refuses \in BOOLEAN : ConnectorEvent(h, c, refuses, speaks)
  \/ \E h \in Handlers :
       \/ ConnectorFails(h)
       \/ CarrierReads(h) \/ CarrierWriteFails(h) \/ CarrierWritesSome(h)
       \/ \E called, more \in BOOLEAN : CarrierWritesAll(h, called, more)
Loop == \/ Selects \/ TimersDone \/ Events \/ EventsDone
        \/ DeleteDeadHandlers \/ CleanupDeadProtocols

Next == Calls \/ Loop \/ \E h \in Handlers : ProcessTimer(h)

Spec == Init /\ [][Next]_vars

\* Every variable stays in its domain, and no handler is listed twice.
TypeOK ==
  /\ kind \in [Handlers -> Kinds] /\ fd \in [Handlers -> 0 .. MaxFd]
  /\ active \in Seq(Handlers) /\ IsInjective(active)
  /\ ToSet(active) = Handlers \ Of("none")
  /\ dead \subseteq ToSet(active) /\ orphans \subseteq Of("carrier")
  /\ readers \in [Fds -> SUBSET Handlers] /\ writers \in [Fds -> SUBSET Handlers]
  /\ readFds \subseteq Fds /\ writeFds \subseteq Fds
  /\ readCopy \subseteq Fds /\ writeCopy \subseteq Fds
  /\ phase \in Phases /\ at \in 1 .. (2 * Cardinality(Handlers) + 1)
  /\ open \subseteq Fds /\ closeSocket \subseteq Of("connector")
  /\ output \subseteq Of("carrier") /\ writeDataEnabled \subseteq Of("carrier")
  /\ timersMade \in 0 .. MaxTimers
  /\ refused \subseteq Fds /\ again \subseteq Fds

Sockets == Handlers \ (Of("none") \cup Of("timer"))

\* A handler that is not dead is watched for what it waits for, although
\* handlers that share its descriptor are enabled, disabled and destroyed
\* (UpdateFdSets, the hand-over in TCPConnector::OnEvent, IOTimer::IOTimer).
LiveAreWatched ==
  \A h \in Sockets \ dead : fd[h] \in IF kind[h] = "connector" THEN writeFds ELSE readFds

\* Output of a live carrier is never forgotten: as long as there is some, its
\* socket is watched for writing (ENABLE_WRITE_DATA, DISABLE_WRITE_DATA).
OutputIsWatched == \A h \in output \ dead : fd[h] \in writeFds

\* select is never asked for a closed descriptor, which would end the program,
\* and what it reported stays the same socket until the walk is over.
OnlyOpenSockets ==
  /\ phase = "select" => readFds \cup writeFds \subseteq open
  /\ readCopy \cup writeCopy \subseteq open

\* No socket is left open without a handler that will close it, and only a
\* connector that has done its work shares one.
SocketsOwned ==
  /\ \A f \in open : \E h \in Sockets : fd[h] = f /\ (h \in dead \cap Of("connector")
                                                         => h \in closeSocket)
  /\ \A h, g \in Sockets : h # g /\ fd[h] = fd[g] /\ kind[h] # "connector"
                             => kind[g] = "connector" /\ g \in dead

\* A socket is closed once, but that of a connection whose chain was refused a
\* second time, by the carrier after the connector: a handler that has a number
\* that is closed already is such a carrier, in the same end of round, and when
\* the second close comes no other handler has got the number.
ClosedOnce ==
  /\ again \subseteq refused
  /\ again \cap (open \cup FdsOf(Sockets)) = {}
  /\ \A h \in Sockets : fd[h] \notin open =>
        kind[h] = "carrier" /\ h \in orphans /\ fd[h] \in refused /\ phase = "protocols"

\* No handler closes a socket that another one still uses, whoever shares it: the
\* loop and the handlers are done with every socket when it is closed, each is
\* closed by somebody, and twice only after a refusal.
SocketsExact == OnlyOpenSockets /\ SocketsOwned /\ ClosedOnce

\* "This is invoked by the framework when the protocol is enqueued for timing
\* operations" (baseprotocol.h:233): a timer runs when its time has come.
TimerOnlyOnTimer ==
  [][at' > at => kind[active[at' \div 2]] # "timer"]_vars
=============================================================================
