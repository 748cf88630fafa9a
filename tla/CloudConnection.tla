--------------------------- MODULE CloudConnection ---------------------------
(***************************************************************************)
(* One connection of the camera to the cloud: a service timer              *)
(* (qicstreamer/src/baseservicetimer.cpp and its subclasses), the          *)
(* connection it opens (TCPConnector, then OutboundHTTPWSProtocol on a     *)
(* carrier) and WSClientAppProtocolHandler, which passes what happens to   *)
(* the connection on to the timer by name.                                 *)
(*                                                                         *)
(* The kind of a service says which subclass the timer is: "service"       *)
(* connects for ever, "register" does so until the camera is registered,   *)
(* "air" is made by a command for one connection and goes with it.         *)
(*                                                                         *)
(* The I/O loop runs the timer for every second that has passed, then the  *)
(* sockets that were ready, then deletes dead handlers and protocols.  A   *)
(* connector that the timer has given up is still dispatched if its socket *)
(* was ready in the same round.                                            *)
(***************************************************************************)
EXTENDS Integers, FiniteSets, FiniteSetsExt

CONSTANTS Services,      \* kinds of timer, each over SSL or plain TCP
          InitTicks,     \* 10: ticks in ST_WSPROTOCOL_INIT before a try
          StepTicks,     \* 5: ticks a connection may take for one step
          RetryTicks,    \* RECONNECT_TIME, 10
          QueryTick,     \* 2: the tick of QueryCloudServer
          PingEvery,     \* 10000 ms, in seconds
          Expire,        \* _wsParams.expire, in seconds
          MaxPause,      \* bound: seconds a round of the loop takes
          ClockJumps,    \* by how many seconds the wall clock is set back
          Conns          \* names for connections, reused when they are gone

Forever == 1000    \* 0x7fffffff: such a tick is not counted down to 0
NoConn == 0

ASSUME CloudAssumption ==
  /\ Services \subseteq [kind : {"service", "register", "air"}, ssl : BOOLEAN]
  /\ {InitTicks, StepTicks, RetryTicks} \subseteq 1 .. Forever - 1
  /\ QueryTick \in 1 .. InitTicks - 1
  /\ {PingEvery, Expire, MaxPause} \subseteq Nat \ {0} /\ ClockJumps \subseteq Nat
  /\ Conns \subseteq Nat \ {NoConn} /\ IsFiniteSet(Conns) /\ Conns # {}

VARIABLES service,    \* which kind of timer this is; it never changes
          timer,      \* the service timer, or NoTimer
          enabled,    \* _wsParams.enabled
          uri,        \* _wsParams.uri: empty, asked for, or known
          keys,       \* the camera has a CUID and a private key
          conn,       \* how far each connection is
          pingAge,    \* now - _lastPingTime, at most PingEvery + 1
          pongAge,    \* now - _lastPongTime of the connection, at most Expire + 1
          due,        \* calls of OnEvent left in this round
          phase,      \* "timer", or "events"
          sinceTry,   \* history: ticks since the last try, at most InitTicks
          overlong    \* history: since there was no connection, a round has taken
                      \* longer than the wait of a timer that tries again

vars == <<service, timer, enabled, uri, keys, conn, pingAge, pongAge, due, phase,
          sinceTry, overlong>>
env == <<service, enabled, uri, keys>>

Kind == service.kind
SSL == service.ssl      \* _wsParams.isSSL

States == {"INIT", "HTTP_CONNECTING", "HANDSHAKE", "CREATED", "SNO_FAILED", "WAIT_CUID",
           "CUID_RECEIVED", "AUTH_FAILED", "AUTH_SUCCESS", "WAIT_TIMEOUT"}
NoTimer == [state |-> "none", tick |-> 0, protocol |-> NoConn, connector |-> NoConn]

\* connecting: a TCPConnector waits; killed: enqueued for delete by the timer
\* dead: a connector enqueued for delete that is not called again
\* handshake, alive, rejected: a protocol; closing: it is enqueued for delete
Stages == {"free", "connecting", "killed", "dead", "handshake", "alive", "rejected", "closing"}
Protocols == {"handshake", "alive", "rejected"}
At(stages) == {c \in Conns : conn[c] \in stages}

Exists == timer # NoTimer
CapAt(n, limit) == IF n > limit THEN limit ELSE n
(***************************************************************************)
(* The timer                                                               *)
(***************************************************************************)
\* Slip: a step of the handshake has no time limit.
TicksOf_HandshakeForever(s, old) ==
  CASE s = "INIT" -> InitTicks
    [] s = "HTTP_CONNECTING" -> StepTicks
    [] s = "SNO_FAILED" -> old
    [] s = "WAIT_TIMEOUT" -> RetryTicks
    [] OTHER -> Forever

TicksOf(s, old) == CASE s = "INIT" -> InitTicks
                     [] s \in {"HTTP_CONNECTING", "HANDSHAKE", "CREATED"} -> StepTicks
                     [] s = "SNO_FAILED" -> old
                     [] s = "WAIT_TIMEOUT" -> RetryTicks
                     [] OTHER -> Forever

\* a value that is no state leaves the timer as it is
SetConnectState(t, s) ==
  IF s \in States THEN [t EXCEPT !.state = s, !.tick = TicksOf(s, @)] ELSE t

\* Slip: the tick runs on below zero.
Ticked_Below(t) == [t EXCEPT !.tick = @ - 1]

\* nothing tells a tick of 0 from a negative one
Ticked(t) == [t EXCEPT !.tick = IF @ = Forever THEN @ ELSE Max({@ - 1, 0})]

\* Slip: pongs count only after the camera is registered.
InSession_AuthOnly(t) == t.protocol # NoConn /\ t.state = "WAIT_CUID"

InSession(t) == t.protocol # NoConn /\ t.state \in {"AUTH_SUCCESS", "WAIT_CUID"}
Silent == pongAge > Expire

\* Slip: only a live connection is timed out.
HandleTimeout_SessionOnly(t) ==
  IF InSession(t) /\ Silent THEN [t EXCEPT !.state = "WAIT_TIMEOUT"] ELSE t

HandleTimeout(t) ==
  IF (InSession(t) /\ Silent) \/ (t.tick <= 0 /\ t.state # "INIT")
  THEN [t EXCEPT !.state = "WAIT_TIMEOUT"] ELSE t

\* Slip: the connector is killed only if no protocol was ever made.
ClosedBy_ProtocolOnly(t) == [c \in {t.protocol} \ {NoConn} |-> "closing"]

\* the protocol is given up if there is one, else the connector that waits
ClosedBy(t) == IF t.protocol # NoConn
               THEN [c \in {t.protocol} |-> "closing"]
               ELSE [c \in {t.connector} \cap At({"connecting"}) |-> "killed"]
Overlaid(stages, some) ==
  [c \in Conns |-> IF c \in DOMAIN some THEN some[c] ELSE stages[c]]
ForgetAll(t) == IF t.protocol # NoConn THEN [t EXCEPT !.protocol = NoConn]
                                       ELSE [t EXCEPT !.connector = NoConn]
GiveUp(t) == SetConnectState(ForgetAll(t), "INIT")

\* what OnEvent makes of the timer before it tries to connect
Watched(t) == HandleTimeout(Ticked(t))
TimedOut(t) == Watched(t).state = "WAIT_TIMEOUT"
AfterWatch(t) == IF TimedOut(t) THEN GiveUp(Watched(t)) ELSE Watched(t)
ConnAfterWatch(t) == IF TimedOut(t) THEN Overlaid(conn, ClosedBy(Watched(t))) ELSE conn

PingSent == enabled /\ InSession(Ticked(timer)) /\ pingAge > PingEvery

TryDue(t) == Kind # "air" /\ t.state = "INIT" /\ t.tick <= 0
\* Slip: a try does not reset the tick.
Retick_Not(t) == t

Retick(t) == [t EXCEPT !.tick = InitTicks]

\* service timers connect once the camera has keys, the register timer until
\* then
MayOpen(t) == t.protocol = NoConn /\ uri = "known" /\ (keys <=> Kind = "service")

Fresh(t, stages) == {c \in Conns \ {t.connector} : stages[c] = "free"}

\* OpenWSSConnection tells the timer before TCPConnector::Connect and
\* OpenWSConnection after it; the timer of a new "air" connection is not
\* registered yet and is not told
Told(t) == IF Kind = "air" THEN t ELSE SetConnectState(t, "HTTP_CONNECTING")
Opened(t, c) == [Told(t) EXCEPT !.connector = c]
OpenFailed(t) == IF SSL THEN Told(t) ELSE t

CountTick == sinceTry' = CapAt(sinceTry + 1, InitTicks)

Ping == pingAge' = IF PingSent THEN 0 ELSE pingAge

\* OnEvent of a timer that is switched off, or that does not try now
TickOnly ==
  /\ IF enabled
     THEN /\ ~TryDue(AfterWatch(timer))
          /\ timer' = AfterWatch(timer) /\ conn' = ConnAfterWatch(timer)
     ELSE timer' = Ticked(timer) /\ UNCHANGED conn
  /\ uri' = IF enabled /\ Kind # "air" /\ uri = "empty"
               /\ timer'.state = "INIT" /\ timer'.tick = QueryTick
            THEN "asked" ELSE uri
  /\ CountTick

\* ... that would try to connect but has no address or no keys
TickWithoutTry ==
  /\ enabled
  /\ LET t == AfterWatch(timer)
     IN TryDue(t) /\ ~MayOpen(t) /\ timer' = Retick(t)
  /\ conn' = ConnAfterWatch(timer)
  /\ CountTick
  /\ UNCHANGED uri

\* ... that tries; the name of the server may not be found, socket() may fail
\* and so may connect(), at once
TickTry ==
  /\ enabled
  /\ LET t == AfterWatch(timer)
         stages == ConnAfterWatch(timer)
     IN /\ TryDue(t) /\ MayOpen(t)
        /\ \/ timer' \in {Retick(t), OpenFailed(Retick(t))} /\ conn' = stages
           \/ /\ Fresh(t, stages) # {}
              /\ LET c == Min(Fresh(t, stages))
                 IN \/ /\ timer' = Opened(Retick(t), c)
                       /\ conn' = [stages EXCEPT ![c] = "connecting"]
                    \/ /\ timer' = OpenFailed(Retick(t))
                       /\ conn' = [stages EXCEPT ![c] = "dead"]
  /\ sinceTry' = 0
  /\ UNCHANGED uri

Tick ==
  /\ phase = "timer" /\ due > 0 /\ Exists
  /\ due' = due - 1
  /\ TickOnly \/ TickWithoutTry \/ TickTry
  /\ Ping
  /\ UNCHANGED <<service, enabled, keys, pongAge, phase, overlong>>

TicksDone ==
  /\ phase = "timer" /\ (due = 0 \/ ~Exists)
  /\ phase' = "events" /\ due' = 0
  /\ UNCHANGED <<timer, conn, pingAge, pongAge, sinceTry, overlong, env>>

(***************************************************************************)
(* WSClientAppProtocolHandler::OnProtocolEvent: each case gives the timer  *)
(* the handler leaves behind.  Without a timer it does nothing.            *)
(***************************************************************************)
OnCreated(t, c) ==
  IF t = NoTimer THEN t ELSE SetConnectState([t EXCEPT !.protocol = c], "HANDSHAKE")
OnHandshake(t) ==
  IF t = NoTimer THEN t
  ELSE SetConnectState(t, IF Kind = "register" THEN "WAIT_CUID" ELSE "AUTH_SUCCESS")

\* timerState is not set on this path, and then passed to SetConnectState
OnRejected(t) ==
  LET failed == SetConnectState(t, IF Kind = "register" THEN "SNO_FAILED" ELSE "AUTH_FAILED")
  IN IF t = NoTimer THEN {t}
     ELSE {SetConnectState(failed, s) : s \in States \cup {"uninitialised"}}

OnDestroyed(t) ==
  CASE t = NoTimer -> NoTimer
    [] Kind = "air" -> NoTimer
    [] OTHER -> [SetConnectState(t, "WAIT_TIMEOUT") EXCEPT !.protocol = NoConn]

(***************************************************************************)
(* Events of the sockets and of the rest of the program                    *)
(***************************************************************************)
Events == phase = "events"

\* TCPConnector::OnEvent: the protocols cannot be made
ChainFails(c) ==
  /\ Events /\ conn[c] \in {"connecting", "killed"}
  /\ conn' = [conn EXCEPT ![c] = "dead"]
  /\ UNCHANGED <<timer, pingAge, pongAge, due, phase, sinceTry, overlong, env>>

\* ... they are made, and the request is sent or not; a protocol that could
\* not send is deleted on the spot
Connected(c) ==
  /\ Events /\ conn[c] \in {"connecting", "killed"}
  /\ \/ timer' = OnCreated(timer, c) /\ conn' = [conn EXCEPT ![c] = "handshake"]
     \/ timer' = OnDestroyed(OnCreated(timer, c)) /\ conn' = [conn EXCEPT ![c] = "dead"]
  /\ pongAge' = 0
  /\ UNCHANGED <<pingAge, due, phase, sinceTry, overlong, env>>

HandshakeSuccess(c) ==
  /\ Events /\ conn[c] = "handshake"
  /\ timer' = OnHandshake(timer) /\ conn' = [conn EXCEPT ![c] = "alive"]
  /\ UNCHANGED <<pingAge, pongAge, due, phase, sinceTry, overlong, env>>

\* an answer other than 101: the protocol is enqueued for delete, at once
\* unless some output is left
Rejected(c) ==
  /\ Events /\ conn[c] = "handshake"
  /\ timer' \in OnRejected(timer)
  /\ conn' \in {[conn EXCEPT ![c] = s] : s \in {"rejected", "closing"}}
  /\ UNCHANGED <<pingAge, pongAge, due, phase, sinceTry, overlong, env>>

OutputSent(c) ==
  /\ Events /\ conn[c] = "rejected"
  /\ conn' = [conn EXCEPT ![c] = "closing"]
  /\ UNCHANGED <<timer, pingAge, pongAge, due, phase, sinceTry, overlong, env>>

\* the peer closes, the socket fails, or what comes in is refused
Closes(c) ==
  /\ Events /\ conn[c] \in Protocols
  /\ conn' = [conn EXCEPT ![c] = "closing"]
  /\ UNCHANGED <<timer, pingAge, pongAge, due, phase, sinceTry, overlong, env>>

Pong(c) ==
  /\ Events /\ conn[c] = "alive" /\ timer.protocol = c /\ pongAge # 0
  /\ pongAge' = 0
  /\ UNCHANGED <<timer, conn, pingAge, due, phase, sinceTry, overlong, env>>

\* ProcessWebsocketText on the register connection deletes the timer, whose
\* destructor enqueues the protocol it knows for delete
RegisterAuthed(c) ==
  /\ Events /\ Kind = "register" /\ conn[c] = "alive" /\ Exists
  /\ timer' = NoTimer /\ keys' = TRUE
  /\ conn' = Overlaid(conn, [d \in {timer.protocol} \ {NoConn} |-> "closing"])
  /\ UNCHANGED <<service, enabled, uri, pingAge, pongAge, due, phase, sinceTry, overlong>>

\* InitiateConnection: TryConnect of the new timer, which is deleted again if
\* that fails
Initiate ==
  /\ Events /\ Kind = "air" /\ ~Exists /\ keys /\ Fresh(NoTimer, conn) # {}
  /\ LET t == [NoTimer EXCEPT !.state = "INIT"]
         c == Min(Fresh(t, conn))
     IN \/ timer' = Opened(t, c) /\ conn' = [conn EXCEPT ![c] = "connecting"]
        \/ UNCHANGED timer /\ conn' = [conn EXCEPT ![c] = "dead"]
  /\ UNCHANGED <<pingAge, pongAge, due, phase, sinceTry, overlong, env>>

\* OnCmdFinished of QueryCloudServer
AddressKnown ==
  /\ Events /\ uri = "asked"
  /\ uri' \in {"known", "empty"}
  /\ UNCHANGED <<service, timer, enabled, keys, conn, pingAge, pongAge, due, phase,
                 sinceTry, overlong>>

\* the register connection of the same camera has got the keys
KeysSet ==
  /\ Events /\ Kind = "service" /\ ~keys
  /\ keys' = TRUE
  /\ UNCHANGED <<service, timer, enabled, uri, conn, pingAge, pongAge, due, phase, sinceTry,
                 overlong>>

EnableCloudConnection ==
  /\ Events /\ Kind = "service" /\ ~enabled
  /\ enabled' = TRUE
  /\ UNCHANGED <<service, timer, uri, keys, conn, pingAge, pongAge, due, phase, sinceTry,
                 overlong>>

\* the clock is set back and UpdatePongTime renews the pong of the connection;
\* what is known of an old ping is only that it is old
ClockSet(back) ==
  /\ Events
  /\ pingAge' \in {pingAge - back} \cup (IF pingAge > PingEvery THEN {pingAge} ELSE {})
  /\ pingAge' >= -back
  /\ pongAge' = IF timer.protocol # NoConn THEN 0 ELSE pongAge
  /\ UNCHANGED <<timer, conn, due, phase, sinceTry, overlong, env>>

\* DeleteDeadHandlers and CleanupDeadProtocols, whose destructors report to
\* the timer, then the select of the next round
RoundEnds(seconds) ==
  /\ Events
  /\ timer' = IF At({"closing"}) = {} THEN timer ELSE OnDestroyed(timer)
  /\ conn' = [c \in Conns |-> IF conn[c] \in {"killed", "dead", "closing"} THEN "free"
                                                                          ELSE conn[c]]
  /\ phase' = "timer" /\ due' = seconds
  /\ pingAge' = CapAt(pingAge + seconds, PingEvery + 1)
  /\ pongAge' = CapAt(pongAge + seconds, Expire + 1)
  /\ overlong' = (/\ Kind # "air"
                  /\ \/ seconds > InitTicks
                     \/ overlong /\ At({"connecting"} \cup Protocols) # {})
  /\ UNCHANGED <<sinceTry, env>>

Dispatch == \E c \in Conns :
  \/ ChainFails(c) \/ Connected(c) \/ HandshakeSuccess(c) \/ Rejected(c)
  \/ OutputSent(c) \/ Closes(c) \/ Pong(c) \/ RegisterAuthed(c)

Commands == Initiate \/ AddressKnown \/ KeysSet \/ EnableCloudConnection
            \/ \E back \in ClockJumps : ClockSet(back)

NextRound == \E seconds \in 0 .. MaxPause : RoundEnds(seconds)

Init ==
  /\ service \in Services
  /\ timer = IF Kind = "air" THEN NoTimer ELSE SetConnectState(NoTimer, "INIT")
  /\ enabled \in IF Kind = "service" THEN BOOLEAN ELSE {TRUE}
  /\ uri = IF Kind = "air" THEN "known" ELSE "empty"
  /\ keys \in CASE Kind = "service" -> BOOLEAN
                [] Kind = "register" -> {FALSE}
                [] OTHER -> {TRUE}
  /\ conn = [c \in Conns |-> "free"]
  /\ pingAge = PingEvery + 1 /\ pongAge = 0
  /\ due = 0 /\ phase = "timer"
  /\ sinceTry = InitTicks /\ overlong = FALSE

Next == Tick \/ TicksDone \/ Dispatch \/ Commands \/ NextRound

Spec == Init /\ [][Next]_vars

(***************************************************************************)
(* Fairness: select returns within a second, so rounds go on and seconds   *)
(* pass; the shell command of QueryCloudServer ends and now and then finds *)
(* the address; a socket that is connecting or has output left is reported *)
(* in the end, with success or with an error.                              *)
(***************************************************************************)
Reported == \E c \in Conns : ChainFails(c) \/ Connected(c) \/ OutputSent(c)
FairSpec ==
  /\ Spec
  /\ WF_vars(Tick) /\ WF_vars(TicksDone)
  /\ WF_vars(NextRound) /\ SF_vars(NextRound /\ due' > 0)
  /\ SF_vars(AddressKnown /\ uri' = "known") /\ SF_vars(Reported)

\* The timer and the connections stay in their domains, and so do the clocks.
TypeOK ==
  /\ service \in Services
  /\ timer \in {NoTimer} \cup
       [state : States, tick : Nat, protocol : Conns \cup {NoConn},
        connector : Conns \cup {NoConn}]
  /\ {enabled, keys} \subseteq BOOLEAN /\ uri \in {"empty", "asked", "known"}
  /\ conn \in [Conns -> Stages]
  /\ pingAge \in Int /\ {pongAge, due, sinceTry} \subseteq Nat
  /\ phase \in {"timer", "events"} /\ overlong \in BOOLEAN

\* There are not two connections to one server.
AtMostOneConnection == Cardinality(At({"connecting"} \cup Protocols)) <= 1

\* No live protocol and no waiting connector is unknown to its timer, which is
\* the only one to time it out.
TimerKnowsItsConnection ==
  /\ \A c \in At(Protocols) : timer.protocol = c
  /\ \A c \in At({"connecting"}) : timer.connector = c /\ timer.protocol = NoConn

\* _pProtocol points to a protocol that is not yet destroyed.
ProtocolExists ==
  timer.protocol # NoConn => conn[timer.protocol] \in Protocols \cup {"closing"}

\* The pointer of a timer to its protocol is always good.  The camera never has
\* two connections to one server, nor one its timer does not know, whether it
\* gave one up for being silent or slow, was rejected, or connected after all in
\* the round in which it gave up; except that a round longer than the wait lets
\* a timer give up and try again before what it gave up is deleted, which can
\* leave such connections behind until all are gone (OnEvent, OnProtocolEvent,
\* TCPConnector::OnEvent).  An air timer does not try again.
OneKnownConnection ==
  ProtocolExists /\ (overlong \/ (AtMostOneConnection /\ TimerKnowsItsConnection))

\* Once the timer has run, no connection is open whose server has not answered
\* for longer than the time-out, with the same exception (HandleTimeout).
SilentServerDropped ==
  phase = "events" /\ enabled /\ At({"alive"}) # {} /\ ~overlong => pongAge <= Expire

\* The camera waits at least InitTicks between two tries, however the first
\* one ended (TryConnect resets _timerTick before it can fail).
TriesAreSpaced ==
  [][phase = "timer" /\ phase' = "timer" /\ sinceTry' = 0
       => sinceTry + 1 >= InitTicks]_vars

\* A connection that waits for the answer to its request is answered, fails or
\* is given up (SetConnectState arms the tick of each step), with the same
\* exception: a timer with two connections watches one of them.
HandshakeEnds ==
  \A c \in Conns : conn[c] = "handshake" /\ enabled ~> conn[c] # "handshake" \/ overlong

\* While it is switched on and has an address and keys, the camera connects or
\* tries again, whatever happened before.
KeepsTrying ==
  Kind = "service" /\ enabled /\ keys /\ uri = "known"
    ~> sinceTry = 0 \/ At({"connecting", "handshake", "alive"}) # {}
=============================================================================
