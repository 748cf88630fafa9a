----------------------- MODULE CloudConnection_proofs -----------------------
(***************************************************************************)
(* Proofs about one cloud connection, for any number of names and any      *)
(* times: every try waits its turn, and there is one connection, which its *)
(* timer knows and watches, unless a round of the loop has taken longer    *)
(* than the wait between two tries.                                        *)
(***************************************************************************)
EXTENDS CloudConnection, FiniteSetTheorems, WellFoundedInduction, TLAPS

(***************************************************************************)
(* Operators                                                               *)
(***************************************************************************)
Names == Conns \cup {NoConn}
Records == [state : States, tick : Nat, protocol : Names, connector : Names]
MaybeTimer == [state : States \cup {"none"}, tick : Nat, protocol : Names, connector : Names]

\* What one tick leaves of n.
Down(n) == IF n = Forever \/ n = 0 THEN n ELSE n - 1

LEMMA ConstantTypes ==
  /\ InitTicks \in 1 .. Forever - 1 /\ StepTicks \in 1 .. Forever - 1
  /\ RetryTicks \in 1 .. Forever - 1 /\ QueryTick \in 1 .. InitTicks - 1
  /\ PingEvery \in Nat \ {0} /\ Expire \in Nat \ {0} /\ MaxPause \in Nat \ {0}
  /\ ClockJumps \subseteq Nat /\ Conns \subseteq Nat /\ NoConn \notin Conns
  /\ \A s \in Services : s.kind \in {"service", "register", "air"} /\ s.ssl \in BOOLEAN
  /\ Forever = 1000
BY CloudAssumption DEF Forever, NoConn

\* A set of connections that is not empty has a smallest one.
LEMMA SmallestName ==
  ASSUME NEW S \in SUBSET Conns, S # {}
  PROVE  Min(S) \in S
<1> DEFINE below == OpToRel(<, Nat)
<1>1. S \subseteq Nat
  BY ConstantTypes
<1>2. IsWellFoundedOn(below, Nat)
  BY NatLessThanWellFounded
<1> HIDE DEF below
<1>3. PICK x \in S : \A y \in S : ~(<<y, x>> \in below)
  BY <1>1, <1>2, WFMin
<1>4. ASSUME NEW y \in S PROVE x <= y
  <2>1. x \in Nat /\ y \in Nat
    BY <1>1
  <2>2. ~(<<y, x>> \in below)
    BY <1>3
  <2> QED
    BY <2>1, <2>2 DEF below, OpToRel
<1> QED
  BY <1>4 DEF Min

LEMMA TicksType == ASSUME NEW s \in States, NEW n \in Nat PROVE TicksOf(s, n) \in Nat
<1>0. InitTicks \in Nat /\ StepTicks \in Nat /\ RetryTicks \in Nat /\ Forever \in Nat
  BY ConstantTypes
<1>1. CASE s \in {"INIT", "HTTP_CONNECTING", "HANDSHAKE", "CREATED"}
  BY <1>0, <1>1 DEF TicksOf
<1>2. CASE s \in {"SNO_FAILED", "WAIT_TIMEOUT"}
  BY <1>0, <1>2 DEF TicksOf
<1>3. CASE s \in {"WAIT_CUID", "CUID_RECEIVED", "AUTH_FAILED", "AUTH_SUCCESS"}
  BY <1>0, <1>3 DEF TicksOf
<1> QED
  BY <1>1, <1>2, <1>3 DEF States

LEMMA SetProperties ==
  ASSUME NEW t \in MaybeTimer, NEW s \in States
  PROVE  /\ SetConnectState(t, s) \in Records
         /\ SetConnectState(t, s).state = s
         /\ SetConnectState(t, s).tick = TicksOf(s, t.tick)
         /\ SetConnectState(t, s).protocol = t.protocol
         /\ SetConnectState(t, s).connector = t.connector
BY TicksType DEF SetConnectState, MaybeTimer, Records

LEMMA NoTimerMaybe == NoTimer \in MaybeTimer /\ Records \subseteq MaybeTimer /\ NoTimer \notin Records
BY DEF NoTimer, MaybeTimer, Records, Names, States

LEMMA TickedProperties ==
  ASSUME NEW t \in Records
  PROVE  /\ Ticked(t) \in Records
         /\ Ticked(t).state = t.state /\ Ticked(t).tick = Down(t.tick)
         /\ Ticked(t).protocol = t.protocol /\ Ticked(t).connector = t.connector
<1>1. ASSUME NEW n \in Nat PROVE Max({n - 1, 0}) = IF n = 0 THEN 0 ELSE n - 1
  BY DEF Max
<1>2. Down(t.tick) \in Nat
  BY DEF Down, Records, Forever
<1>3. Ticked(t) = [t EXCEPT !.tick = Down(t.tick)]
  BY <1>1 DEF Ticked, Down, Records, Forever
<1> QED
  BY <1>2, <1>3 DEF Records

\* What HandleTimeout and the reaction to it make of a timer.
LEMMA WatchProperties ==
  ASSUME NEW t \in Records
  PROVE  /\ AfterWatch(t) \in Records
         /\ TimedOut(t) =>
              /\ AfterWatch(t).state = "INIT" /\ AfterWatch(t).tick = InitTicks
              /\ AfterWatch(t).protocol = NoConn
              /\ Watched(t).protocol = t.protocol /\ Watched(t).connector = t.connector
         /\ ~TimedOut(t) => AfterWatch(t) = Ticked(t)
         /\ InSession(t) /\ Silent => TimedOut(t)
         /\ t.state # "INIT" /\ t.tick <= 1 => TimedOut(t)
         /\ TimedOut(t) => t.state # "INIT"
<1> DEFINE u == Ticked(t)
<1>1. /\ u \in Records /\ u.state = t.state /\ u.tick = Down(t.tick)
      /\ u.protocol = t.protocol /\ u.connector = t.connector
  BY TickedProperties
<1> HIDE DEF u
<1>2. /\ HandleTimeout(u) \in Records
      /\ HandleTimeout(u).protocol = u.protocol /\ HandleTimeout(u).connector = u.connector
      /\ HandleTimeout(u) = u \/ HandleTimeout(u).state = "WAIT_TIMEOUT"
  BY <1>1 DEF HandleTimeout, Records, States
<1>3. Watched(t) = HandleTimeout(u)
  BY DEF Watched, u
<1>4. ForgetAll(Watched(t)) \in MaybeTimer /\ ForgetAll(Watched(t)).protocol = NoConn
  BY <1>2, <1>3 DEF ForgetAll, Records, MaybeTimer, Names
<1>5. /\ GiveUp(Watched(t)) \in Records /\ GiveUp(Watched(t)).state = "INIT"
      /\ GiveUp(Watched(t)).tick = InitTicks /\ GiveUp(Watched(t)).protocol = NoConn
  BY <1>4, SetProperties DEF GiveUp, TicksOf, States
<1>6. ~TimedOut(t) => AfterWatch(t) = Ticked(t)
  BY <1>2, <1>3 DEF TimedOut, AfterWatch, u
<1>7. InSession(t) /\ Silent => TimedOut(t)
  BY <1>1, <1>3 DEF InSession, TimedOut, HandleTimeout, Records
<1>8. t.state # "INIT" /\ t.tick <= 1 => TimedOut(t)
  BY <1>1, <1>3 DEF TimedOut, HandleTimeout, Records, Down, Forever
<1>9. TimedOut(t) => t.state # "INIT"
  BY <1>1, <1>3 DEF TimedOut, HandleTimeout, Records, InSession
<1> QED
  BY <1>1, <1>2, <1>3, <1>5, <1>6, <1>7, <1>8, <1>9 DEF AfterWatch

\* Giving up closes the protocol, or kills the connector that waits.
LEMMA ClosedProperties ==
  ASSUME NEW t \in Records, conn \in [Conns -> Stages]
  PROVE  /\ Overlaid(conn, ClosedBy(t)) \in [Conns -> Stages]
         /\ \A c \in Conns : Overlaid(conn, ClosedBy(t))[c] =
              IF t.protocol # NoConn
              THEN IF c = t.protocol THEN "closing" ELSE conn[c]
              ELSE IF c = t.connector /\ conn[c] = "connecting" THEN "killed" ELSE conn[c]
<1>1. CASE t.protocol # NoConn
  BY <1>1 DEF Overlaid, ClosedBy, Stages
<1>2. CASE t.protocol = NoConn
  BY <1>2 DEF Overlaid, ClosedBy, Stages, At
<1> QED
  BY <1>1, <1>2

LEMMA HandlerProperties ==
  ASSUME NEW t \in Records, NEW c \in Conns
  PROVE  /\ OnCreated(t, c) \in Records
         /\ OnCreated(t, c).state = "HANDSHAKE" /\ OnCreated(t, c).tick = StepTicks
         /\ OnCreated(t, c).protocol = c /\ OnCreated(t, c).connector = t.connector
         /\ OnHandshake(t) \in Records /\ OnHandshake(t).state \in {"WAIT_CUID", "AUTH_SUCCESS"}
         /\ OnHandshake(t).protocol = t.protocol /\ OnHandshake(t).connector = t.connector
<1>1. [t EXCEPT !.protocol = c] \in MaybeTimer
  BY DEF Records, MaybeTimer, Names
<1>2. TicksOf("HANDSHAKE", t.tick) = StepTicks /\ "HANDSHAKE" \in States
  BY DEF TicksOf, States
<1>3. t \in MaybeTimer /\ t # NoTimer
  BY NoTimerMaybe
<1> QED
  BY <1>1, <1>2, <1>3, SetProperties DEF OnCreated, OnHandshake, Records, States

\* Without a timer the handler does nothing.
LEMMA NothingToTell ==
  /\ \A c \in Conns : OnCreated(NoTimer, c) = NoTimer
  /\ OnHandshake(NoTimer) = NoTimer /\ OnDestroyed(NoTimer) = NoTimer
  /\ \A u \in OnRejected(NoTimer) : u = NoTimer
  /\ NoTimer.protocol = NoConn /\ NoTimer.state # "INIT"
BY DEF OnCreated, OnHandshake, OnDestroyed, OnRejected, NoTimer

LEMMA RejectedProperties ==
  ASSUME NEW t \in Records, NEW u \in OnRejected(t)
  PROVE  /\ u \in Records /\ u.protocol = t.protocol /\ u.connector = t.connector
         /\ u.state = "INIT" => u.tick = InitTicks
<1> DEFINE failed == SetConnectState(t, IF Kind = "register" THEN "SNO_FAILED" ELSE "AUTH_FAILED")
<1>1. /\ failed \in Records /\ failed.state # "INIT"
      /\ failed.protocol = t.protocol /\ failed.connector = t.connector
  BY SetProperties, NoTimerMaybe DEF States
<1>2. PICK s \in States \cup {"uninitialised"} : u = SetConnectState(failed, s)
  BY NoTimerMaybe DEF OnRejected
<1> HIDE DEF failed
<1>3. CASE s \in States
  BY <1>1, <1>2, <1>3, SetProperties, NoTimerMaybe DEF TicksOf
<1>4. CASE s \notin States
  BY <1>1, <1>2, <1>4 DEF SetConnectState
<1> QED
  BY <1>3, <1>4

LEMMA DestroyedProperties ==
  ASSUME NEW t \in {NoTimer} \cup Records
  PROVE  /\ OnDestroyed(t) \in {NoTimer} \cup Records
         /\ t = NoTimer \/ Kind = "air" => OnDestroyed(t) = NoTimer
         /\ t # NoTimer /\ Kind # "air" =>
              /\ OnDestroyed(t) \in Records /\ OnDestroyed(t).state = "WAIT_TIMEOUT"
              /\ OnDestroyed(t).protocol = NoConn
<1>1. CASE t = NoTimer
  BY <1>1 DEF OnDestroyed
<1>2. CASE t # NoTimer /\ Kind = "air"
  BY <1>2 DEF OnDestroyed
<1>3. CASE t # NoTimer /\ Kind # "air"
  <2>1. OnDestroyed(t) = [SetConnectState(t, "WAIT_TIMEOUT") EXCEPT !.protocol = NoConn]
    BY <1>3 DEF OnDestroyed
  <2>2. SetConnectState(t, "WAIT_TIMEOUT") \in Records
        /\ SetConnectState(t, "WAIT_TIMEOUT").state = "WAIT_TIMEOUT"
    BY <1>3, SetProperties, NoTimerMaybe DEF States
  <2> QED
    BY <2>1, <2>2, <1>3 DEF Records, Names
<1> QED
  BY <1>1, <1>2, <1>3

LEMMA OpenedProperties ==
  ASSUME NEW t \in Records, NEW c \in Conns
  PROVE  /\ Opened(t, c) \in Records /\ Opened(t, c).connector = c
         /\ Opened(t, c).protocol = t.protocol
         /\ Kind # "air" => Opened(t, c).state = "HTTP_CONNECTING"
         /\ OpenFailed(t) \in Records /\ OpenFailed(t).protocol = t.protocol
         /\ OpenFailed(t) = t \/ OpenFailed(t).state = "HTTP_CONNECTING" \/ Kind = "air"
<1>1. /\ Told(t) \in Records /\ Told(t).protocol = t.protocol
      /\ Kind # "air" => Told(t).state = "HTTP_CONNECTING"
  BY SetProperties, NoTimerMaybe DEF Told, States
<1> QED
  BY <1>1 DEF Opened, OpenFailed, Records, Names

(***************************************************************************)
(* The ways a tick can end                                                 *)
(***************************************************************************)
Uneventful == timer' = Ticked(timer) /\ conn' = conn /\ CountTick
Dropped == /\ enabled /\ TimedOut(timer) /\ CountTick
           /\ timer' = AfterWatch(timer) /\ conn' = Overlaid(conn, ClosedBy(Watched(timer)))
MissedTry == /\ enabled /\ ~TimedOut(timer) /\ CountTick /\ TryDue(Ticked(timer))
             /\ timer' = Retick(Ticked(timer)) /\ conn' = conn
Tried == /\ enabled /\ ~TimedOut(timer) /\ TryDue(Ticked(timer)) /\ timer.protocol = NoConn
         /\ sinceTry' = 0
         /\ \/ /\ timer' \in {Retick(Ticked(timer)), OpenFailed(Retick(Ticked(timer)))}
               /\ conn' = conn
            \/ \E c \in Conns :
                 /\ conn[c] = "free"
                 /\ \/ /\ timer' = Opened(Retick(Ticked(timer)), c)
                       /\ conn' = [conn EXCEPT ![c] = "connecting"]
                    \/ /\ timer' = OpenFailed(Retick(Ticked(timer)))
                       /\ conn' = [conn EXCEPT ![c] = "dead"]

LEMMA TickOutcomes ==
  ASSUME TypeOK, Tick
  PROVE  /\ timer \in Records
         /\ \/ Uneventful /\ (enabled => ~TimedOut(timer))
            \/ Dropped \/ MissedTry \/ Tried
<1>1. timer \in Records
  BY DEF TypeOK, Tick, Exists, Records, Names
<1>2. ~TimedOut(timer) => AfterWatch(timer) = Ticked(timer) /\ ConnAfterWatch(timer) = conn
  BY <1>1, WatchProperties DEF ConnAfterWatch
<1>3. /\ TimedOut(timer) => ~TryDue(AfterWatch(timer))
      /\ TimedOut(timer) => ConnAfterWatch(timer) = Overlaid(conn, ClosedBy(Watched(timer)))
  BY <1>1, WatchProperties, ConstantTypes DEF TryDue, ConnAfterWatch
<1>4. CASE TickOnly
  <2>1. CASE ~enabled
    BY <1>1, <1>4, <2>1 DEF TickOnly, Uneventful
  <2>2. CASE enabled /\ TimedOut(timer)
    BY <1>1, <1>3, <1>4, <2>2 DEF TickOnly, Dropped
  <2>3. CASE enabled /\ ~TimedOut(timer)
    BY <1>1, <1>2, <1>4, <2>3 DEF TickOnly, Uneventful
  <2> QED
    BY <1>1, <2>1, <2>2, <2>3
<1>5. CASE TickWithoutTry
  <2>1. /\ enabled /\ TryDue(AfterWatch(timer)) /\ timer' = Retick(AfterWatch(timer))
        /\ conn' = ConnAfterWatch(timer) /\ CountTick
    BY <1>5 DEF TickWithoutTry
  <2> QED
    BY <1>1, <1>2, <1>3, <2>1 DEF MissedTry
<1>6. CASE TickTry
  <2> DEFINE t == AfterWatch(timer)
             c == Min(Fresh(t, ConnAfterWatch(timer)))
  <2>1. t = Ticked(timer) /\ ConnAfterWatch(timer) = conn /\ ~TimedOut(timer)
    BY <1>2, <1>3, <1>6 DEF TickTry
  <2>2. timer.protocol = NoConn
    BY <1>1, <1>6, <2>1, TickedProperties DEF TickTry, MayOpen
  <2>3. enabled /\ TryDue(t) /\ sinceTry' = 0
    BY <1>6 DEF TickTry
  <2>4. CASE timer' \in {Retick(t), OpenFailed(Retick(t))} /\ conn' = conn
    BY <1>1, <2>1, <2>2, <2>3, <2>4 DEF Tried
  <2>5. CASE /\ Fresh(t, conn) # {}
             /\ \/ timer' = Opened(Retick(t), c) /\ conn' = [conn EXCEPT ![c] = "connecting"]
                \/ timer' = OpenFailed(Retick(t)) /\ conn' = [conn EXCEPT ![c] = "dead"]
    <3>1. Fresh(t, conn) \subseteq Conns
      BY DEF Fresh
    <3>2. c \in Conns /\ conn[c] = "free"
      BY <2>1, <2>5, <3>1, SmallestName DEF Fresh
    <3> HIDE DEF c
    <3> QED
      BY <1>1, <2>1, <2>2, <2>3, <2>5, <3>2 DEF Tried
  <2> QED
    BY <1>6, <2>1, <2>4, <2>5 DEF TickTry
<1> QED
  BY <1>1, <1>4, <1>5, <1>6 DEF Tick

LEMMA RetickProperties ==
  ASSUME NEW t \in Records
  PROVE  /\ Retick(Ticked(t)) \in Records /\ Retick(Ticked(t)).state = t.state
         /\ Retick(Ticked(t)).tick = InitTicks /\ Retick(Ticked(t)).protocol = t.protocol
         /\ Retick(Ticked(t)).connector = t.connector
BY TickedProperties, ConstantTypes DEF Retick, Records, Forever

LEMMA TriedProperties ==
  ASSUME timer \in Records, conn \in [Conns -> Stages], Tried
  PROVE  /\ timer' \in Records /\ timer'.protocol = NoConn
         /\ timer'.state # "INIT" \/ timer'.tick = InitTicks
         /\ conn' \in [Conns -> Stages]
         /\ \E c \in Conns : \A d \in Conns \ {c} : conn'[d] = conn[d]
         /\ \A d \in Conns : \/ conn'[d] = conn[d] \/ conn'[d] = "dead"
                             \/ /\ conn'[d] = "connecting" /\ timer'.connector = d
                                /\ timer'.state = "HTTP_CONNECTING"
<1> DEFINE t == Retick(Ticked(timer))
<1>1. /\ t \in Records /\ t.protocol = NoConn /\ t.tick = InitTicks /\ Kind # "air"
      /\ \/ timer' \in {t, OpenFailed(t)} /\ conn' = conn
         \/ \E c \in Conns :
              \/ timer' = Opened(t, c) /\ conn' = [conn EXCEPT ![c] = "connecting"]
              \/ timer' = OpenFailed(t) /\ conn' = [conn EXCEPT ![c] = "dead"]
  BY RetickProperties DEF Tried, TryDue
<1> HIDE DEF t
<1>2. CASE timer' \in {t, OpenFailed(t)} /\ conn' = conn
  <2>1. Conns # {}
    BY CloudAssumption
  <2> QED
    BY <1>1, <1>2, <2>1, OpenedProperties
<1>3. ASSUME NEW c \in Conns, timer' = Opened(t, c), conn' = [conn EXCEPT ![c] = "connecting"]
      PROVE  /\ timer' \in Records /\ timer'.protocol = NoConn /\ timer'.connector = c
             /\ timer'.state = "HTTP_CONNECTING"
             /\ conn' \in [Conns -> Stages] /\ conn'[c] = "connecting"
             /\ \A d \in Conns \ {c} : conn'[d] = conn[d]
  BY <1>1, <1>3, OpenedProperties DEF Stages
<1>4. ASSUME NEW c \in Conns, timer' = OpenFailed(t), conn' = [conn EXCEPT ![c] = "dead"]
      PROVE  /\ timer' \in Records /\ timer'.protocol = NoConn
             /\ timer'.state # "INIT" \/ timer'.tick = InitTicks
             /\ conn' \in [Conns -> Stages] /\ conn'[c] = "dead"
             /\ \A d \in Conns \ {c} : conn'[d] = conn[d]
  BY <1>1, <1>4, OpenedProperties DEF Stages
<1> QED
  BY <1>1, <1>2, <1>3, <1>4

(***************************************************************************)
(* Types                                                                   *)
(***************************************************************************)
LEMMA TimerTypes == TypeOK => timer \in {NoTimer} \cup Records /\ timer \in MaybeTimer
BY NoTimerMaybe DEF TypeOK, Records, Names

LEMMA InitTyped == Init => TypeOK
<1> SUFFICES ASSUME Init PROVE TypeOK
  OBVIOUS
<1>1. timer \in {NoTimer} \cup Records
  BY NoTimerMaybe, SetProperties DEF Init, States
<1>2. /\ {enabled, keys} \subseteq BOOLEAN /\ uri \in {"empty", "asked", "known"}
      /\ conn \in [Conns -> Stages] /\ service \in Services /\ overlong \in BOOLEAN
  BY DEF Init, Stages
<1>3. pingAge \in Int /\ {pongAge, due, sinceTry} \subseteq Nat /\ phase \in {"timer", "events"}
  BY ConstantTypes DEF Init
<1> QED
  BY <1>1, <1>2, <1>3 DEF TypeOK, Records, Names

LEMMA CapType == ASSUME NEW n \in Int, NEW m \in Nat
                 PROVE CapAt(n, m) \in Int /\ CapAt(n, m) <= n /\ CapAt(n, m) <= m
                       /\ (n \in Nat => CapAt(n, m) \in Nat)
BY DEF CapAt

LEMMA TickTyped == ASSUME TypeOK, Tick PROVE TypeOK'
<1>1. timer' \in {NoTimer} \cup Records /\ conn' \in [Conns -> Stages]
  <2>0. timer \in Records /\ conn \in [Conns -> Stages]
    BY TickOutcomes DEF TypeOK
  <2>1. CASE Uneventful
    BY <2>0, <2>1, TickedProperties DEF Uneventful
  <2>2. CASE Dropped
    <3>1. Watched(timer) \in Records
      BY <2>0, TickedProperties DEF Watched, HandleTimeout, Records, States
    <3> QED
      BY <2>0, <2>2, <3>1, WatchProperties, ClosedProperties DEF Dropped
  <2>3. CASE MissedTry
    BY <2>0, <2>3, RetickProperties DEF MissedTry
  <2>4. CASE Tried
    BY <2>0, <2>4, TriedProperties
  <2> QED
    BY <2>1, <2>2, <2>3, <2>4, TickOutcomes
<1>2. uri' \in {"empty", "asked", "known"}
  BY DEF TypeOK, Tick, TickOnly, TickWithoutTry, TickTry
<1>3. sinceTry' \in Nat /\ due' \in Nat /\ pingAge' \in Int
  BY CapType, ConstantTypes
  DEF TypeOK, Tick, TickOnly, TickWithoutTry, TickTry, CountTick, Ping, CapAt
<1>4. UNCHANGED <<service, enabled, keys, pongAge, phase, overlong>>
  BY DEF Tick
<1> QED
  BY <1>1, <1>2, <1>3, <1>4 DEF TypeOK, Records, Names

LEMMA DispatchTyped == ASSUME TypeOK, NEW c \in Conns,
                              \/ ChainFails(c) \/ Connected(c) \/ HandshakeSuccess(c) \/ Rejected(c)
                              \/ OutputSent(c) \/ Closes(c) \/ Pong(c) \/ RegisterAuthed(c)
                       PROVE  TypeOK'
<1>0. timer \in {NoTimer} \cup Records /\ timer \in MaybeTimer
  BY TimerTypes
<1>1. timer' \in {NoTimer} \cup Records
  <2>0. OnCreated(timer, c) \in {NoTimer} \cup Records
    BY <1>0, HandlerProperties, NothingToTell
  <2>1. CASE Connected(c)
    BY <2>0, <2>1, DestroyedProperties DEF Connected
  <2>2. CASE HandshakeSuccess(c)
    BY <1>0, <2>2, HandlerProperties, NothingToTell DEF HandshakeSuccess
  <2>3. CASE Rejected(c)
    BY <1>0, <2>3, RejectedProperties, NothingToTell DEF Rejected
  <2> QED
    BY <1>0, <2>1, <2>2, <2>3 DEF ChainFails, OutputSent, Closes, Pong, RegisterAuthed
<1>2. conn' \in [Conns -> Stages]
  <2>1. CASE RegisterAuthed(c)
    BY <2>1 DEF TypeOK, Stages, RegisterAuthed, Overlaid
  <2> QED
    BY <2>1 DEF TypeOK, Stages, ChainFails, Connected, HandshakeSuccess, Rejected, OutputSent,
                Closes, Pong
<1>3. UNCHANGED <<service, enabled, uri, pingAge, due, phase, sinceTry, overlong>>
  BY DEF ChainFails, Connected, HandshakeSuccess, Rejected, OutputSent, Closes, Pong,
         RegisterAuthed, env
<1>4. keys' \in BOOLEAN /\ pongAge' \in Nat
  <2>1. UNCHANGED pongAge \/ pongAge' = 0
    BY DEF ChainFails, Connected, HandshakeSuccess, Rejected, OutputSent, Closes, Pong,
           RegisterAuthed
  <2>2. UNCHANGED keys \/ keys' = TRUE
    BY DEF ChainFails, Connected, HandshakeSuccess, Rejected, OutputSent, Closes, Pong,
           RegisterAuthed, env
  <2>3. keys' \in BOOLEAN
    BY <2>2, Zenon DEF TypeOK
  <2>4. pongAge' \in Nat
    BY <2>1 DEF TypeOK
  <2> QED
    BY <2>3, <2>4
<1> QED
  BY <1>1, <1>2, <1>3, <1>4 DEF TypeOK, Records, Names

\* The timer InitiateConnection makes, and the connection it tries to open.
LEMMA InitiateProperties ==
  ASSUME TypeOK, Initiate
  PROVE  /\ Kind = "air" /\ timer = NoTimer /\ phase = "events"
         /\ UNCHANGED <<pingAge, pongAge, due, phase, sinceTry, overlong, env>>
         /\ \E c \in Conns :
              /\ conn[c] = "free"
              /\ \/ /\ timer' \in Records /\ timer'.connector = c /\ timer'.protocol = NoConn
                    /\ conn' = [conn EXCEPT ![c] = "connecting"]
                 \/ UNCHANGED timer /\ conn' = [conn EXCEPT ![c] = "dead"]
<1> DEFINE t == [NoTimer EXCEPT !.state = "INIT"]
           c == Min(Fresh(t, conn))
<1>1. t \in Records /\ t.protocol = NoConn /\ Fresh(t, conn) = Fresh(NoTimer, conn)
  BY DEF NoTimer, Records, States, Names, Fresh
<1>2. c \in Conns /\ conn[c] = "free"
  BY <1>1, SmallestName DEF Initiate, Fresh
<1> HIDE DEF t, c
<1>3. Opened(t, c) \in Records /\ Opened(t, c).connector = c /\ Opened(t, c).protocol = NoConn
  BY <1>1, <1>2, OpenedProperties
<1>4. \/ timer' = Opened(t, c) /\ conn' = [conn EXCEPT ![c] = "connecting"]
      \/ UNCHANGED timer /\ conn' = [conn EXCEPT ![c] = "dead"]
  BY DEF Initiate, t, c
<1> QED
  BY <1>2, <1>3, <1>4 DEF Initiate, Exists, Events

LEMMA RestTyped ==
  ASSUME TypeOK, TicksDone \/ Commands \/ NextRound \/ UNCHANGED vars
  PROVE  TypeOK'
<1>0. timer \in {NoTimer} \cup Records
  BY TimerTypes
<1>1. CASE TicksDone
  BY <1>1 DEF TypeOK, TicksDone, env
<1>2. CASE Initiate
  <2>1. timer' \in {NoTimer} \cup Records /\ conn' \in [Conns -> Stages]
    BY <1>0, <1>2, InitiateProperties DEF TypeOK, Stages
  <2> QED
    BY <1>2, <2>1, InitiateProperties DEF TypeOK, Records, Names, env
<1>3. CASE AddressKnown \/ KeysSet \/ EnableCloudConnection
  BY <1>3 DEF TypeOK, AddressKnown, KeysSet, EnableCloudConnection
<1>4. ASSUME NEW back \in ClockJumps, ClockSet(back) PROVE TypeOK'
  <2>1. pingAge' \in Int /\ pongAge' \in Nat
    BY <1>4, ConstantTypes DEF ClockSet, TypeOK
  <2> QED
    BY <1>4, <2>1 DEF ClockSet, TypeOK, env
<1>5. ASSUME NEW seconds \in 0 .. MaxPause, RoundEnds(seconds) PROVE TypeOK'
  <2>1. timer' \in {NoTimer} \cup Records
    BY <1>0, <1>5, DestroyedProperties DEF RoundEnds
  <2>2. conn' \in [Conns -> Stages]
    BY <1>5 DEF RoundEnds, TypeOK, Stages
  <2>3. /\ pingAge' \in Int /\ pongAge' \in Nat /\ due' \in Nat
        /\ UNCHANGED sinceTry /\ phase' \in {"timer", "events"}
    BY <1>5, ConstantTypes, CapType DEF RoundEnds, TypeOK
  <2>4. overlong' \in BOOLEAN
    BY <1>5, Zenon DEF RoundEnds
  <2> QED
    BY <1>5, <2>1, <2>2, <2>3, <2>4 DEF RoundEnds, TypeOK, Records, Names, env
<1>6. CASE UNCHANGED vars
  BY <1>6 DEF TypeOK, vars
<1> QED
  BY <1>1, <1>2, <1>3, <1>4, <1>5, <1>6 DEF Commands, NextRound

LEMMA StepTyped == TypeOK /\ [Next]_vars => TypeOK'
BY TickTyped, DispatchTyped, RestTyped DEF Next, Dispatch

\* Whatever the server, the socket and the clock do, the fields of the timer and
\* the stages of the connections stay in their domains (BaseServiceTimer).
THEOREM CloudTyped == Spec => []TypeOK
BY InitTyped, StepTyped, PTL DEF Spec

(***************************************************************************)
(* Tries                                                                   *)
(***************************************************************************)
\* A timer that will try has the ticks it still waits, and those since the last
\* try, add up to the full wait.
Spacing ==
  /\ sinceTry <= InitTicks
  /\ Kind # "air" /\ timer.state = "INIT" => timer.tick + sinceTry >= InitTicks

SpacingInv == TypeOK /\ Spacing

LEMMA InitSpacing == Init => Spacing
<1> SUFFICES ASSUME Init PROVE Spacing
  OBVIOUS
<1>1. NoTimer.state = "none" /\ SetConnectState(NoTimer, "INIT").tick = InitTicks
  BY SetProperties, NoTimerMaybe DEF States, TicksOf, NoTimer
<1> QED
  BY <1>1, ConstantTypes DEF Init, Spacing

LEMMA CountProperties ==
  ASSUME TypeOK, Spacing, CountTick
  PROVE  sinceTry' <= InitTicks /\ (sinceTry' = sinceTry + 1 \/ sinceTry' = InitTicks)
BY ConstantTypes DEF TypeOK, Spacing, CountTick, CapAt

LEMMA TickSpacing == ASSUME SpacingInv, Tick PROVE Spacing'
<1>0. timer \in Records /\ UNCHANGED service /\ sinceTry \in Nat
  BY TickOutcomes DEF SpacingInv, TypeOK, Tick
<1>1. CASE Uneventful
  <2>1. timer'.state = timer.state /\ timer'.tick = Down(timer.tick)
    BY <1>0, <1>1, TickedProperties DEF Uneventful
  <2>2. sinceTry' <= InitTicks /\ (sinceTry' = sinceTry + 1 \/ sinceTry' = InitTicks)
    BY <1>1, CountProperties DEF SpacingInv, Uneventful
  <2>3. timer.tick \in Nat /\ timer'.tick \in Nat /\ timer'.tick + 1 >= timer.tick
    BY <1>0, <2>1 DEF Records, Down, Forever
  <2> QED
    BY <1>0, <2>1, <2>2, <2>3, ConstantTypes DEF Spacing, SpacingInv, Kind
<1>2. CASE Dropped \/ MissedTry
  <2>1. timer'.tick = InitTicks
    BY <1>0, <1>2, WatchProperties, RetickProperties DEF Dropped, MissedTry
  <2>2. sinceTry' \in Nat /\ sinceTry' <= InitTicks
    BY <1>0, <1>2, CountProperties, ConstantTypes DEF SpacingInv, Dropped, MissedTry
  <2>3. \A a, b \in Nat : a + b >= a
    OBVIOUS
  <2>4. InitTicks \in Nat /\ sinceTry' \in Nat
    BY <2>2, ConstantTypes
  <2>5. InitTicks + sinceTry' >= InitTicks
    BY <2>3, <2>4
  <2> QED
    BY <2>1, <2>2, <2>5 DEF Spacing
<1>3. CASE Tried
  <2>1. sinceTry' = 0 /\ Kind # "air"
    BY <1>3 DEF Tried, TryDue
  <2>2. timer'.state # "INIT" \/ timer'.tick = InitTicks
    BY <1>0, <1>3, TriedProperties DEF SpacingInv, TypeOK
  <2> QED
    BY <2>1, <2>2, ConstantTypes DEF Spacing
<1> QED
  BY <1>1, <1>2, <1>3, TickOutcomes DEF SpacingInv

\* A step that counts no ticks keeps the spacing if the timer begins to wait
\* only with the full wait.
LEMMA OtherSpacing ==
  ASSUME SpacingInv, [Next]_vars, ~Tick
  PROVE  Spacing'
<1>0. timer \in {NoTimer} \cup Records /\ timer \in MaybeTimer /\ NoTimer.state = "none"
  BY TimerTypes DEF SpacingInv, NoTimer
<1>1. UNCHANGED <<service, sinceTry>>
  BY DEF Next, TicksDone, Dispatch, ChainFails, Connected, HandshakeSuccess, Rejected, OutputSent,
         Closes, Pong, RegisterAuthed, Commands, Initiate, AddressKnown, KeysSet,
         EnableCloudConnection, ClockSet, NextRound, RoundEnds, env, vars
<1>2. \/ UNCHANGED timer \/ timer'.state # "INIT" \/ timer'.tick = InitTicks \/ Kind = "air"
  <2>1. ASSUME NEW c \in Conns, Connected(c) PROVE timer'.state # "INIT"
    <3>0. CASE timer = NoTimer
      BY <1>0, <2>1, <3>0, NothingToTell DEF Connected
    <3> SUFFICES ASSUME timer \in Records PROVE timer'.state # "INIT"
      BY <1>0, <3>0
    <3>1. CASE timer' = OnCreated(timer, c)
      BY <1>0, <3>1, HandlerProperties
    <3>2. CASE timer' = OnDestroyed(OnCreated(timer, c))
      <4>1. OnCreated(timer, c) \in Records
        BY <1>0, HandlerProperties
      <4> QED
        BY <1>0, <3>2, <4>1, DestroyedProperties, NoTimerMaybe
    <3> QED
      BY <2>1, <3>1, <3>2 DEF Connected
  <2>2. ASSUME NEW c \in Conns, HandshakeSuccess(c) PROVE timer'.state # "INIT"
    BY <1>0, <2>2, HandlerProperties, NothingToTell DEF HandshakeSuccess
  <2>3. ASSUME NEW c \in Conns, Rejected(c) PROVE timer'.state # "INIT" \/ timer'.tick = InitTicks
    BY <1>0, <2>3, RejectedProperties, NothingToTell DEF Rejected
  <2>4. ASSUME NEW c \in Conns, RegisterAuthed(c) PROVE timer'.state # "INIT"
    BY <1>0, <2>4 DEF RegisterAuthed
  <2>5. ASSUME NEW seconds \in 0 .. MaxPause, RoundEnds(seconds)
        PROVE UNCHANGED timer \/ timer'.state # "INIT"
    BY <1>0, <2>5, DestroyedProperties DEF RoundEnds
  <2>6. ASSUME NEW c \in Conns, ChainFails(c) \/ OutputSent(c) \/ Closes(c) \/ Pong(c)
        PROVE UNCHANGED timer
    BY <2>6 DEF ChainFails, OutputSent, Closes, Pong
  <2>7. CASE Commands
    BY <2>7 DEF Commands, Initiate, AddressKnown, KeysSet, EnableCloudConnection, ClockSet
  <2>8. CASE TicksDone \/ UNCHANGED vars
    BY <2>8 DEF TicksDone, vars
  <2> QED
    BY <2>1, <2>2, <2>3, <2>4, <2>5, <2>6, <2>7, <2>8 DEF Next, Dispatch, NextRound
<1>3. sinceTry \in Nat /\ sinceTry' = sinceTry /\ Kind' = Kind /\ sinceTry <= InitTicks
  BY <1>1 DEF Spacing, SpacingInv, TypeOK, Kind
<1>4. CASE UNCHANGED timer
  BY <1>3, <1>4 DEF Spacing, SpacingInv
<1>5. CASE timer'.state # "INIT" \/ timer'.tick = InitTicks \/ Kind = "air"
  BY <1>3, <1>5, ConstantTypes DEF Spacing
<1> QED
  BY <1>2, <1>4, <1>5

\* Between two tries of a timer lie at least InitTicks ticks, however the first
\* one ended: it failed at once, its steps timed out, it was rejected in a state
\* nobody set, or it was never told of (TryConnect resets _timerTick before it
\* can fail, and all ways back to ST_WSPROTOCOL_INIT set it).
THEOREM TriesTheorem == Spec => TriesAreSpaced
<1>1. SpacingInv /\ [Next]_vars => SpacingInv'
  BY StepTyped, TickSpacing, OtherSpacing DEF SpacingInv
<1>2. SpacingInv /\ [Next]_vars
        => [phase = "timer" /\ phase' = "timer" /\ sinceTry' = 0
              => sinceTry + 1 >= InitTicks]_vars
  <2> SUFFICES ASSUME SpacingInv, Next, phase = "timer", phase' = "timer", sinceTry' = 0
               PROVE  sinceTry + 1 >= InitTicks
    OBVIOUS
  <2>1. Tick
    BY DEF Next, TicksDone, Dispatch, ChainFails, Connected, HandshakeSuccess, Rejected,
           OutputSent, Closes, Pong, RegisterAuthed, Commands, Initiate, AddressKnown, KeysSet,
           EnableCloudConnection, ClockSet, NextRound, RoundEnds, Events
  <2>2. timer \in Records /\ sinceTry \in Nat
    BY <2>1, TickOutcomes DEF SpacingInv, TypeOK
  <2>3. CASE CountTick
    BY <2>2, <2>3, ConstantTypes, CountProperties DEF SpacingInv
  <2>4. CASE Tried
    <3>1. Kind # "air" /\ timer.state = "INIT" /\ Down(timer.tick) <= 0
      BY <2>2, <2>4, TickedProperties DEF Tried, TryDue
    <3>2. timer.tick \in Nat /\ timer.tick <= 1
      BY <2>2, <3>1 DEF Records, Down, Forever
    <3> QED
      BY <2>2, <3>1, <3>2, ConstantTypes DEF SpacingInv, Spacing
  <2> QED
    BY <2>1, <2>3, <2>4, TickOutcomes DEF SpacingInv, Uneventful, Dropped, MissedTry
<1>3. Init => SpacingInv
  BY InitTyped, InitSpacing DEF SpacingInv
<1> QED
  BY <1>1, <1>2, <1>3, PTL DEF Spec, TriesAreSpaced

(***************************************************************************)
(* What holds after a round of any length                                  *)
(***************************************************************************)
Always ==
  /\ ProtocolExists
  /\ ~enabled => Kind = "service"
  /\ phase = "events" => due = 0
  /\ Kind = "air" => ~overlong

AlwaysInv == TypeOK /\ Always

LEMMA InitAlways == Init => AlwaysInv
<1> SUFFICES ASSUME Init PROVE AlwaysInv
  OBVIOUS
<1>1. timer.protocol = NoConn
  BY SetProperties, NoTimerMaybe DEF Init, States, NoTimer
<1>2. due = 0 /\ (~enabled => Kind = "service") /\ ~overlong
  BY DEF Init
<1> QED
  BY <1>1, <1>2, InitTyped DEF AlwaysInv, Always, ProtocolExists

LEMMA AlwaysStep == ASSUME AlwaysInv, [Next]_vars PROVE AlwaysInv'
<1>0. /\ timer \in {NoTimer} \cup Records /\ NoTimer.protocol = NoConn /\ TypeOK'
      /\ conn \in [Conns -> Stages] /\ TypeOK /\ ProtocolExists
      /\ timer.protocol # NoConn => timer.protocol \in Conns
  BY TimerTypes, StepTyped DEF AlwaysInv, Always, TypeOK, NoTimer, Records, Names
<1>1. UNCHANGED service /\ (UNCHANGED enabled \/ enabled')
  BY DEF Next, Tick, TicksDone, Dispatch, ChainFails, Connected, HandshakeSuccess, Rejected,
         OutputSent, Closes, Pong, RegisterAuthed, Commands, Initiate, AddressKnown, KeysSet,
         EnableCloudConnection, ClockSet, NextRound, RoundEnds, env, vars
<1>2. ~enabled' => Kind' = "service"
  BY <1>1 DEF AlwaysInv, Always, Kind
<1>3. phase' = "events" => due' = 0
  BY DEF AlwaysInv, Always, Next, Tick, TicksDone, Dispatch, ChainFails, Connected,
         HandshakeSuccess, Rejected, OutputSent, Closes, Pong, RegisterAuthed, Commands, Initiate,
         AddressKnown, KeysSet, EnableCloudConnection, ClockSet, NextRound, RoundEnds, env, vars
<1>4. Kind' = "air" => ~overlong'
  <2>1. UNCHANGED overlong \/ ~overlong' \/ Kind # "air"
    BY Zenon
    DEF Next, Tick, TicksDone, Dispatch, ChainFails, Connected, HandshakeSuccess, Rejected,
        OutputSent, Closes, Pong, RegisterAuthed, Commands, Initiate, AddressKnown, KeysSet,
        EnableCloudConnection, ClockSet, NextRound, RoundEnds, vars
  <2> QED
    BY <1>1, <2>1, Zenon DEF AlwaysInv, Always, Kind
<1>5. ASSUME Tick PROVE ProtocolExists'
  <2>0. timer \in Records
    BY <1>0, <1>5, TickOutcomes
  <2>1. CASE Uneventful \/ MissedTry
    <3>1. timer'.protocol = timer.protocol /\ conn' = conn
      BY <2>0, <2>1, TickedProperties, RetickProperties DEF Uneventful, MissedTry
    <3> QED
      BY <1>0, <3>1 DEF ProtocolExists
  <2>2. CASE Dropped
    BY <2>0, <2>2, WatchProperties DEF Dropped, ProtocolExists
  <2>3. CASE Tried
    BY <1>0, <2>0, <2>3, TriedProperties DEF ProtocolExists
  <2> QED
    BY <1>0, <1>5, <2>1, <2>2, <2>3, TickOutcomes
<1>6. ASSUME NEW c \in Conns,
             \/ ChainFails(c) \/ Connected(c) \/ HandshakeSuccess(c) \/ Rejected(c)
             \/ OutputSent(c) \/ Closes(c) \/ Pong(c) \/ RegisterAuthed(c)
      PROVE  ProtocolExists'
  <2>1. CASE ChainFails(c)
    BY <1>0, <2>1 DEF ChainFails, ProtocolExists, Protocols, Stages
  <2>2. CASE Connected(c)
    <3>0. CASE timer = NoTimer
      BY <1>0, <2>2, <3>0, NothingToTell DEF Connected, ProtocolExists
    <3>1. CASE timer \in Records /\ timer' = OnCreated(timer, c)
               /\ conn' = [conn EXCEPT ![c] = "handshake"]
      BY <1>0, <3>1, HandlerProperties DEF ProtocolExists, Protocols
    <3>2. CASE timer \in Records /\ timer' = OnDestroyed(OnCreated(timer, c))
      <4>1. OnCreated(timer, c) \in Records
        BY <3>2, HandlerProperties
      <4>2. timer'.protocol = NoConn
        BY <1>0, <3>2, <4>1, DestroyedProperties, NoTimerMaybe
      <4> QED
        BY <4>2 DEF ProtocolExists
    <3> QED
      BY <1>0, <2>2, <3>0, <3>1, <3>2 DEF Connected
  <2>3. CASE HandshakeSuccess(c)
    <3>1. timer'.protocol = timer.protocol
      BY <1>0, <2>3, HandlerProperties, NothingToTell DEF HandshakeSuccess
    <3> QED
      BY <1>0, <2>3, <3>1 DEF HandshakeSuccess, ProtocolExists, Protocols
  <2>4. CASE Rejected(c)
    <3>1. timer'.protocol = timer.protocol
      BY <1>0, <2>4, RejectedProperties, NothingToTell DEF Rejected
    <3>2. PICK s \in {"rejected", "closing"} : conn' = [conn EXCEPT ![c] = s]
      BY <2>4 DEF Rejected
    <3> QED
      BY <1>0, <3>1, <3>2 DEF ProtocolExists, Protocols
  <2>5. CASE OutputSent(c) \/ Closes(c)
    BY <1>0, <2>5 DEF OutputSent, Closes, ProtocolExists, Protocols
  <2>6. CASE Pong(c)
    BY <1>0, <2>6 DEF Pong, ProtocolExists
  <2>7. CASE RegisterAuthed(c)
    BY <1>0, <2>7 DEF RegisterAuthed, ProtocolExists
  <2> QED
    BY <1>6, <2>1, <2>2, <2>3, <2>4, <2>5, <2>6, <2>7
<1>7. ASSUME Initiate PROVE ProtocolExists'
  <2>1. timer'.protocol = NoConn
    BY <1>0, <1>7, InitiateProperties
  <2> QED
    BY <2>1 DEF ProtocolExists
<1>8. ASSUME \/ TicksDone \/ AddressKnown \/ KeysSet \/ EnableCloudConnection \/ UNCHANGED vars
             \/ \E back \in ClockJumps : ClockSet(back)
      PROVE  ProtocolExists'
  <2>1. UNCHANGED <<timer, conn>>
    BY <1>8 DEF TicksDone, AddressKnown, KeysSet, EnableCloudConnection, ClockSet, vars
  <2> QED
    BY <1>0, <2>1 DEF ProtocolExists
<1>9. ASSUME NEW seconds \in 0 .. MaxPause, RoundEnds(seconds) PROVE ProtocolExists'
  <2>1. CASE At({"closing"}) = {}
    <3>1. /\ UNCHANGED timer /\ \A c \in Conns : conn[c] # "closing"
          /\ \A c \in Conns : conn[c] \in Protocols => conn'[c] = conn[c]
      BY <1>9, <2>1 DEF RoundEnds, At, Protocols
    <3> QED
      BY <1>0, <3>1 DEF ProtocolExists
  <2>2. CASE At({"closing"}) # {}
    <3>1. timer' = OnDestroyed(timer)
      BY <1>9, <2>2 DEF RoundEnds
    <3>2. timer'.protocol = NoConn
      BY <1>0, <3>1, DestroyedProperties
    <3> QED
      BY <3>2 DEF ProtocolExists
  <2> QED
    BY <2>1, <2>2
<1>10. ProtocolExists'
  BY <1>5, <1>6, <1>7, <1>8, <1>9 DEF Next, Commands, Dispatch, NextRound
<1> QED
  BY <1>0, <1>2, <1>3, <1>4, <1>10 DEF AlwaysInv, Always

(***************************************************************************)
(* One connection.  A connection is busy from the connector on until the   *)
(* loop deletes it; only what is free or dead cannot call the timer.       *)
(***************************************************************************)
Busy == {"connecting", "killed", "closing"} \cup Protocols

\* There is one at a time, even of those that were given up ...
OneBusy == \A c, d \in Conns : conn[c] \in Busy /\ conn[d] \in Busy => c = d

\* ... its timer has its name ...
BusyKnown ==
  /\ ProtocolExists
  /\ \A c \in Conns : /\ conn[c] \in Protocols => timer.protocol = c
                      /\ conn[c] = "connecting" => timer.connector = c
                      /\ conn[c] = "killed" => Exists

\* ... and tries again only after a full wait, which outlasts the round that
\* deletes what it gave up.
GivenUpFirst ==
  \A c \in Conns : conn[c] \in {"killed", "closing"} /\ phase = "timer"
                     => /\ timer.state = "INIT" /\ timer.protocol = NoConn
                        /\ Kind # "air" => timer.tick > due

\* A timer that waits for its connector is in the state that says so.
ConnectingTimed ==
  \A c \in Conns : conn[c] = "connecting" /\ Kind # "air" => timer.state = "HTTP_CONNECTING"

\* Nothing is open of a camera that is switched off or of an air timer that is gone.
NothingOpen ==
  /\ ~enabled => Kind = "service" /\ \A c \in Conns : conn[c] \notin Busy
  /\ Kind = "air" /\ ~Exists => \A c \in Conns : conn[c] \notin Busy

\* The seconds of a round do not outlast the wait of a timer that tries again,
\* and are gone when its events are handled.
RoundShort == /\ Kind # "air" => due <= InitTicks
              /\ phase = "events" => due = 0

ConnInv == /\ TypeOK /\ OneBusy /\ BusyKnown /\ GivenUpFirst
           /\ ConnectingTimed /\ NothingOpen /\ RoundShort

LEMMA InitConn == Init => ConnInv
<1> SUFFICES ASSUME Init PROVE ConnInv
  OBVIOUS
<1>1. \A c \in Conns : conn[c] = "free"
  BY DEF Init
<1>2. timer.protocol = NoConn
  BY SetProperties, NoTimerMaybe DEF Init, States, NoTimer
<1>3. due = 0 /\ (~enabled => Kind = "service")
  BY DEF Init
<1> QED
  BY <1>1, <1>2, <1>3, InitTyped, ConstantTypes
  DEF ConnInv, OneBusy, BusyKnown, ProtocolExists, GivenUpFirst, ConnectingTimed, NothingOpen, RoundShort, Busy,
      Protocols

\* With a busy connection a timer does not try.
LEMMA TryAlone ==
  ASSUME ConnInv, Tick, enabled, TryDue(Ticked(timer)), timer.protocol = NoConn
  PROVE  \A c \in Conns : conn[c] \notin Busy
<1> SUFFICES ASSUME NEW c \in Conns, conn[c] \in Busy PROVE FALSE
  OBVIOUS
<1>1. timer \in Records /\ phase = "timer" /\ due > 0 /\ due \in Nat
  BY TickOutcomes DEF ConnInv, TypeOK, Tick
<1>2. Kind # "air" /\ timer.state = "INIT" /\ timer.tick \in Nat /\ timer.tick <= 1
  <2>1. Kind # "air" /\ timer.state = "INIT" /\ Down(timer.tick) <= 0 /\ timer.tick \in Nat
    BY <1>1, TickedProperties DEF TryDue, Records
  <2> QED
    BY <2>1 DEF Down, Forever
<1>3. CASE conn[c] \in Protocols
  BY <1>3, ConstantTypes DEF ConnInv, BusyKnown
<1>4. CASE conn[c] = "connecting"
  BY <1>2, <1>4 DEF ConnInv, ConnectingTimed
<1>5. CASE conn[c] \in {"killed", "closing"}
  BY <1>1, <1>2, <1>5 DEF ConnInv, GivenUpFirst
<1> QED
  BY <1>3, <1>4, <1>5 DEF Busy

LEMMA TickConn ==
  ASSUME ConnInv, Tick
  PROVE  ConnInv'
<1>0. /\ timer \in Records /\ conn \in [Conns -> Stages] /\ phase = "timer" /\ phase' = "timer"
      /\ due \in Nat /\ due > 0 /\ due' = due - 1
      /\ Kind # "air" => due <= InitTicks
      /\ UNCHANGED <<service, enabled>> /\ TypeOK' /\ Exists
  BY TickOutcomes, TickTyped DEF ConnInv, TypeOK, Tick, RoundShort
<1>1. RoundShort'
  BY <1>0, ConstantTypes DEF RoundShort, Kind
<1>2. timer' \in Records
  <2>1. CASE Uneventful
    BY <1>0, <2>1, TickedProperties DEF Uneventful
  <2>2. CASE Dropped
    BY <1>0, <2>2, WatchProperties DEF Dropped
  <2>3. CASE MissedTry
    BY <1>0, <2>3, RetickProperties DEF MissedTry
  <2>4. CASE Tried
    BY <1>0, <2>4, TriedProperties
  <2> QED
    BY <2>1, <2>2, <2>3, <2>4, TickOutcomes DEF ConnInv
<1>3. Exists'
  BY <1>2, NoTimerMaybe DEF Exists
<1>4. CASE Uneventful \/ MissedTry
  <2>1. /\ timer'.state = timer.state /\ timer'.protocol = timer.protocol
        /\ timer'.connector = timer.connector /\ conn' = conn
        /\ timer'.tick = Down(timer.tick) \/ timer'.tick = InitTicks
    BY <1>0, <1>4, TickedProperties, RetickProperties DEF Uneventful, MissedTry
  <2>2. OneBusy' /\ BusyKnown' /\ NothingOpen' /\ ConnectingTimed'
    BY <1>0, <1>3, <2>1
    DEF ConnInv, OneBusy, BusyKnown, ProtocolExists, NothingOpen, ConnectingTimed, Kind
  <2>3. GivenUpFirst'
    <3> SUFFICES ASSUME NEW c \in Conns, conn'[c] \in {"killed", "closing"}
                 PROVE  /\ timer'.state = "INIT" /\ timer'.protocol = NoConn
                        /\ Kind' # "air" => timer'.tick > due'
      BY DEF GivenUpFirst
    <3>1. /\ timer.state = "INIT" /\ timer.protocol = NoConn
          /\ Kind # "air" => timer.tick > due
      BY <1>0, <2>1 DEF ConnInv, GivenUpFirst
    <3>2. timer.tick \in Nat
      BY <1>0 DEF Records
    <3>4. ASSUME Kind # "air" PROVE timer'.tick > due - 1
      <4>0. InitTicks \in Nat /\ InitTicks > due - 1
        BY <1>0, <3>4, ConstantTypes
      <4>1. CASE timer'.tick = InitTicks
        BY <4>0, <4>1
      <4>2. CASE timer'.tick = Down(timer.tick)
        <5>1. Down(timer.tick) \in Nat /\ Down(timer.tick) >= timer.tick - 1
          BY <3>2 DEF Down, Forever
        <5>2. timer.tick > due /\ timer.tick \in Nat /\ due \in Nat
          BY <1>0, <3>1, <3>2, <3>4
        <5> QED
          BY <4>2, <5>1, <5>2
      <4> QED
        BY <2>1, <4>1, <4>2
    <3> QED
      BY <1>0, <2>1, <3>1, <3>4 DEF Kind
  <2> QED
    BY <1>0, <1>1, <2>2, <2>3 DEF ConnInv
<1>5. CASE Dropped
  <2> DEFINE t == Watched(timer)
  <2>0. /\ t \in Records /\ t.protocol = timer.protocol /\ t.connector = timer.connector
        /\ timer'.state = "INIT" /\ timer'.tick = InitTicks /\ timer'.protocol = NoConn
        /\ timer.state # "INIT" /\ enabled /\ conn' = Overlaid(conn, ClosedBy(t))
    <3>1. t \in Records
      BY <1>0, TickedProperties DEF Watched, HandleTimeout, Records, States
    <3> QED
      BY <1>0, <1>5, <3>1, WatchProperties DEF Dropped
  <2> HIDE DEF t
  <2>1. \A c \in Conns : conn'[c] = IF timer.protocol # NoConn
                                    THEN IF c = timer.protocol THEN "closing" ELSE conn[c]
                                    ELSE IF c = timer.connector /\ conn[c] = "connecting"
                                         THEN "killed" ELSE conn[c]
    BY <1>0, <2>0, ClosedProperties
  <2>2. \A c \in Conns : conn'[c] \in Busy => conn[c] \in Busy
    BY <2>1 DEF ConnInv, BusyKnown, ProtocolExists, Busy
  <2>3. \A c \in Conns : conn'[c] \in Busy => conn'[c] \in {"killed", "closing"}
    <3> SUFFICES ASSUME NEW c \in Conns, conn'[c] \in Protocols \cup {"connecting"} PROVE FALSE
      BY DEF Busy
    <3>1. conn[c] = conn'[c]
      BY <2>1 DEF Protocols
    <3>2. CASE conn[c] \in Protocols
      <4>1. timer.protocol = c /\ c # NoConn
        BY <3>2, ConstantTypes DEF ConnInv, BusyKnown
      <4> QED
        BY <2>1, <3>1, <3>2, <4>1 DEF Protocols
    <3>3. CASE conn[c] = "connecting"
      <4>1. timer.connector = c
        BY <3>3 DEF ConnInv, BusyKnown
      <4>2. timer.protocol = NoConn
        <5>1. ASSUME timer.protocol # NoConn PROVE FALSE
          <6>1. timer.protocol \in Conns /\ conn[timer.protocol] \in Protocols \cup {"closing"}
            BY <1>0, <5>1 DEF Records, Names, ConnInv, BusyKnown, ProtocolExists
          <6> QED
            BY <3>3, <6>1 DEF ConnInv, OneBusy, Busy, Protocols
        <5> QED
          BY <5>1
      <4> QED
        BY <2>1, <3>1, <3>3, <4>1, <4>2
    <3> QED
      BY <3>1, <3>2, <3>3
  <2>4. OneBusy'
    BY <2>2 DEF ConnInv, OneBusy
  <2>5. BusyKnown' /\ ConnectingTimed'
    BY <1>3, <2>0, <2>3 DEF BusyKnown, ProtocolExists, ConnectingTimed, Busy, Protocols
  <2>6. GivenUpFirst'
    BY <1>0, <2>0, ConstantTypes DEF GivenUpFirst, Kind
  <2>7. NothingOpen'
    BY <1>0, <1>3, <2>0 DEF NothingOpen
  <2> QED
    BY <1>0, <1>1, <2>4, <2>5, <2>6, <2>7 DEF ConnInv
<1>6. CASE Tried
  <2>1. \A c \in Conns : conn[c] \notin Busy
    BY <1>6, TryAlone DEF Tried
  <2>2. timer'.protocol = NoConn /\ Kind # "air" /\ enabled
    BY <1>0, <1>6, TriedProperties DEF Tried, TryDue
  <2>3. PICK c \in Conns : \A d \in Conns \ {c} : conn'[d] = conn[d]
    BY <1>0, <1>6, TriedProperties
  <2>4. \A d \in Conns : conn'[d] \in Busy =>
          /\ d = c /\ conn'[d] = "connecting"
          /\ timer'.connector = d /\ timer'.state = "HTTP_CONNECTING"
    BY <1>0, <1>6, <2>1, <2>3, TriedProperties DEF Busy, Protocols
  <2> QED
    BY <1>0, <1>1, <1>3, <2>2, <2>4
    DEF ConnInv, OneBusy, BusyKnown, ProtocolExists, GivenUpFirst, ConnectingTimed, NothingOpen, Kind, Busy,
        Protocols
<1> QED
  BY <1>4, <1>5, <1>6, TickOutcomes DEF ConnInv

\* One connection goes from one busy stage to another or to none, and the timer
\* is told: enough for what happens to sockets and protocols in the events.
LEMMA StageChange ==
  ASSUME ConnInv, TypeOK', phase = "events", NEW c \in Conns, NEW s \in Stages,
         conn[c] \in Busy, conn' = [conn EXCEPT ![c] = s],
         UNCHANGED <<service, enabled, due, phase>>,
         timer' \in {NoTimer} \cup Records,
         s # "connecting", s # "killed",
         s \in Protocols => timer'.protocol = c,
         timer'.protocol # NoConn => timer'.protocol = c /\ s \in Protocols \cup {"closing"},
         timer' = NoTimer /\ Kind = "air" => s \notin Busy
  PROVE  ConnInv'
<1>1. \A d \in Conns : conn'[d] \in Busy => d = c /\ conn'[d] = s
  BY DEF ConnInv, TypeOK, OneBusy
<1>2. conn'[c] = s /\ phase' = "events"
  BY DEF ConnInv, TypeOK
<1>3. OneBusy' /\ BusyKnown'
  <2>1. OneBusy'
    BY <1>1 DEF OneBusy
  <2>2. \A d \in Conns : conn'[d] \notin {"connecting", "killed"}
    BY <1>1 DEF Busy
  <2>3. \A d \in Conns : conn'[d] \in Protocols => timer'.protocol = d
    BY <1>1 DEF Busy
  <2>4. timer'.protocol # NoConn => conn'[timer'.protocol] \in Protocols \cup {"closing"}
    BY <1>2
  <2> QED
    BY <2>1, <2>2, <2>3, <2>4 DEF BusyKnown, ProtocolExists
<1>4. GivenUpFirst' /\ ConnectingTimed'
  BY <1>1, <1>2 DEF GivenUpFirst, ConnectingTimed, Busy
<1>5. NothingOpen'
  <2>1. enabled'
    BY DEF ConnInv, NothingOpen
  <2>2. Kind' = "air" /\ ~Exists' => \A d \in Conns : conn'[d] \notin Busy
    BY <1>1 DEF Exists, Kind
  <2> QED
    BY <2>1, <2>2 DEF NothingOpen
<1> QED
  BY <1>3, <1>4, <1>5 DEF ConnInv, RoundShort, Kind

\* A connector is not dispatched after its timer is gone.
LEMMA ConnectingHasTimer ==
  ASSUME ConnInv, NEW c \in Conns, conn[c] \in {"connecting", "killed"}
  PROVE  timer \in Records
<1>1. timer \in {NoTimer} \cup Records /\ c # NoConn /\ NoTimer.connector = NoConn
  BY TimerTypes, ConstantTypes DEF ConnInv, NoTimer
<1> QED
  BY <1>1 DEF ConnInv, BusyKnown, Exists

LEMMA DispatchConn ==
  ASSUME ConnInv, Dispatch
  PROVE  ConnInv'
<1>1. PICK c \in Conns : \/ ChainFails(c) \/ Connected(c) \/ HandshakeSuccess(c) \/ Rejected(c)
                         \/ OutputSent(c) \/ Closes(c) \/ Pong(c) \/ RegisterAuthed(c)
  BY DEF Dispatch
<1>2. /\ timer \in {NoTimer} \cup Records /\ timer \in MaybeTimer /\ TypeOK' /\ c # NoConn
      /\ NoTimer.protocol = NoConn /\ NoTimer.connector = NoConn
  BY <1>1, TimerTypes, DispatchTyped, ConstantTypes DEF ConnInv, NoTimer
<1>3. CASE Pong(c)
  BY <1>2, <1>3
  DEF Pong, ConnInv, OneBusy, BusyKnown, ProtocolExists, GivenUpFirst, ConnectingTimed, NothingOpen, RoundShort,
      Exists, Kind, env
<1>4. /\ phase = "events" /\ UNCHANGED <<service, enabled, due, phase>>
  BY <1>1 DEF ChainFails, Connected, HandshakeSuccess, Rejected, OutputSent, Closes, Pong,
              RegisterAuthed, Events, env
\* the connection is the one the timer knows
<1>5. conn[c] \in Busy => (timer.protocol # NoConn => timer.protocol = c)
  <2> SUFFICES ASSUME conn[c] \in Busy, timer.protocol # NoConn PROVE timer.protocol = c
    OBVIOUS
  <2>1. timer.protocol \in Conns
    BY <1>2 DEF Records, Names
  <2> QED
    BY <2>1 DEF ConnInv, BusyKnown, ProtocolExists, OneBusy, Busy
<1>6. conn[c] \in {"connecting", "killed"} => timer.protocol = NoConn /\ timer # NoTimer
  <2> SUFFICES ASSUME conn[c] \in {"connecting", "killed"}
               PROVE  timer.protocol = NoConn /\ timer # NoTimer
    OBVIOUS
  <2>1. timer # NoTimer
    BY <1>2 DEF ConnInv, BusyKnown, Exists
  <2> QED
    BY <1>5, <2>1 DEF ConnInv, BusyKnown, ProtocolExists, Busy, Protocols
<1>7. conn[c] \in Protocols => timer.protocol = c /\ timer \in Records
  BY <1>2 DEF ConnInv, BusyKnown
<1>8. CASE ChainFails(c)
  <2>1. conn[c] \in {"connecting", "killed"} /\ conn' = [conn EXCEPT ![c] = "dead"] /\ UNCHANGED timer
    BY <1>8 DEF ChainFails
  <2> QED
    BY <1>2, <1>4, <1>6, <2>1, StageChange DEF Busy, Stages, Protocols
<1>9. CASE Connected(c)
  <2>0. conn[c] \in Busy
    BY <1>9 DEF Connected, Busy
  <2>1. /\ OnCreated(timer, c) \in Records /\ OnCreated(timer, c).protocol = c
    <3>1. timer \in Records
      BY <1>2, <1>6, <1>9 DEF Connected
    <3> QED
      BY <3>1, HandlerProperties
  <2>2. CASE timer' = OnCreated(timer, c) /\ conn' = [conn EXCEPT ![c] = "handshake"]
    BY <1>2, <1>4, <2>0, <2>1, <2>2, StageChange, NoTimerMaybe DEF Stages, Protocols
  <2>3. CASE timer' = OnDestroyed(OnCreated(timer, c)) /\ conn' = [conn EXCEPT ![c] = "dead"]
    <3>1. timer' \in {NoTimer} \cup Records /\ timer'.protocol = NoConn
      BY <1>2, <2>1, <2>3, DestroyedProperties, NoTimerMaybe
    <3> QED
      BY <1>2, <1>4, <2>0, <2>3, <3>1, StageChange DEF Stages, Protocols, Busy
  <2> QED
    BY <1>9, <2>2, <2>3 DEF Connected
<1>10. CASE HandshakeSuccess(c)
  <2>1. conn[c] \in Protocols /\ conn' = [conn EXCEPT ![c] = "alive"]
        /\ timer' = OnHandshake(timer)
    BY <1>10 DEF HandshakeSuccess, Protocols
  <2>2. timer' \in Records /\ timer'.protocol = c
    BY <1>2, <1>7, <2>1, HandlerProperties
  <2> QED
    BY <1>2, <1>4, <2>1, <2>2, StageChange, NoTimerMaybe DEF Busy, Stages, Protocols
<1>11. CASE Rejected(c)
  <2>1. conn[c] \in Protocols /\ timer' \in OnRejected(timer)
    BY <1>11 DEF Rejected, Protocols
  <2>2. PICK s \in {"rejected", "closing"} : conn' = [conn EXCEPT ![c] = s]
    BY <1>11 DEF Rejected
  <2>3. timer' \in Records /\ timer'.protocol = c
    BY <1>2, <1>7, <2>1, RejectedProperties
  <2> QED
    BY <1>2, <1>4, <2>1, <2>2, <2>3, StageChange, NoTimerMaybe DEF Busy, Stages, Protocols
<1>12. CASE OutputSent(c) \/ Closes(c)
  <2>1. conn[c] \in Protocols /\ conn' = [conn EXCEPT ![c] = "closing"] /\ UNCHANGED timer
    BY <1>12 DEF OutputSent, Closes, Protocols
  <2> QED
    BY <1>2, <1>4, <1>7, <2>1, StageChange, NoTimerMaybe DEF Busy, Stages, Protocols
<1>13. CASE RegisterAuthed(c)
  <2>1. conn[c] \in Protocols /\ conn' = [conn EXCEPT ![c] = "closing"] /\ timer' = NoTimer
        /\ Kind # "air"
    <3>1. /\ conn[c] \in Protocols /\ timer' = NoTimer /\ Kind # "air"
          /\ conn' = Overlaid(conn, [d \in {timer.protocol} \ {NoConn} |-> "closing"])
      BY <1>13 DEF RegisterAuthed, Protocols
    <3>2. timer.protocol = c
      BY <1>7, <3>1
    <3>3. conn \in [Conns -> Stages]
      BY DEF ConnInv, TypeOK
    <3>4. conn' = [conn EXCEPT ![c] = "closing"]
      BY <1>2, <3>1, <3>2, <3>3 DEF Overlaid
    <3> QED
      BY <3>1, <3>4
  <2> QED
    BY <1>2, <1>4, <2>1, StageChange DEF Busy, Stages, Protocols
<1> QED
  BY <1>1, <1>3, <1>8, <1>9, <1>10, <1>11, <1>12, <1>13

LEMMA RestConn ==
  ASSUME ConnInv, TicksDone \/ Commands \/ NextRound \/ UNCHANGED vars, ~overlong'
  PROVE  ConnInv'
<1>0. TypeOK' /\ timer \in {NoTimer} \cup Records /\ NoTimer.protocol = NoConn
  BY RestTyped, TimerTypes DEF ConnInv, NoTimer
<1>1. CASE TicksDone \/ UNCHANGED vars
  <2>1. /\ UNCHANGED <<timer, conn, service, enabled>>
        /\ phase' = "events" \/ UNCHANGED <<phase, due>>
    BY <1>1 DEF TicksDone, vars, env
  <2>2. RoundShort'
    BY <1>1, ConstantTypes DEF TicksDone, vars, ConnInv, RoundShort, env, Kind
  <2> QED
    BY <1>0, <2>1, <2>2
    DEF ConnInv, OneBusy, BusyKnown, ProtocolExists, GivenUpFirst, ConnectingTimed, NothingOpen, Exists, Kind
<1>2. CASE Initiate
  <2>1. /\ Kind = "air" /\ timer = NoTimer /\ phase = "events"
        /\ UNCHANGED <<due, phase, service, enabled>>
    BY <1>2, InitiateProperties DEF ConnInv, env
  <2>2. \A d \in Conns : conn[d] \notin Busy
    BY <2>1 DEF ConnInv, NothingOpen, Exists
  <2>3. PICK c \in Conns :
          /\ conn[c] = "free"
          /\ \/ /\ timer' \in Records /\ timer'.connector = c /\ timer'.protocol = NoConn
                /\ conn' = [conn EXCEPT ![c] = "connecting"]
             \/ UNCHANGED timer /\ conn' = [conn EXCEPT ![c] = "dead"]
    BY <1>2, InitiateProperties DEF ConnInv
  <2>4. \A d \in Conns : conn'[d] \in Busy => d = c /\ conn'[d] = "connecting" /\ timer' \in Records
                                              /\ timer'.connector = c
    BY <2>2, <2>3 DEF ConnInv, TypeOK, Busy, Protocols
  <2>5. timer'.protocol = NoConn /\ enabled
    BY <1>0, <2>1, <2>3 DEF ConnInv, NothingOpen
  <2>6. (Exists' <=> timer' # NoTimer) /\ NoTimer \notin Records
    BY NoTimerMaybe DEF Exists
  <2> QED
    BY <1>0, <2>1, <2>4, <2>5, <2>6
    DEF ConnInv, OneBusy, BusyKnown, ProtocolExists, GivenUpFirst, ConnectingTimed, NothingOpen, RoundShort, Kind,
        Busy, Protocols
<1>3. CASE AddressKnown \/ KeysSet \/ EnableCloudConnection
           \/ \E back \in ClockJumps : ClockSet(back)
  <2>1. UNCHANGED <<timer, conn, due, phase, service>>
    BY <1>3 DEF AddressKnown, KeysSet, EnableCloudConnection, ClockSet, env
  <2>2. UNCHANGED enabled \/ enabled'
    BY <1>3 DEF AddressKnown, KeysSet, EnableCloudConnection, ClockSet, env
  <2> QED
    BY <1>0, <2>1, <2>2
    DEF ConnInv, OneBusy, BusyKnown, ProtocolExists, GivenUpFirst, ConnectingTimed, NothingOpen, RoundShort, Exists,
        Kind
<1>4. ASSUME NEW seconds \in 0 .. MaxPause, RoundEnds(seconds) PROVE ConnInv'
  <2>1. /\ phase' = "timer" /\ due' = seconds /\ UNCHANGED <<service, enabled>>
        /\ \A c \in Conns : conn'[c] = IF conn[c] \in {"killed", "dead", "closing"} THEN "free"
                                       ELSE conn[c]
    BY <1>4 DEF RoundEnds, env
  <2>2. \A c \in Conns : conn'[c] \in Busy => /\ conn[c] = conn'[c]
                                              /\ conn[c] \in Protocols \cup {"connecting"}
    BY <2>1 DEF Busy, Protocols
  <2>6. RoundShort'
    BY <1>4, <2>1, ConstantTypes DEF RoundEnds, RoundShort, Kind
  <2>3. OneBusy' /\ GivenUpFirst'
    <3>1. OneBusy'
      BY <2>2 DEF ConnInv, OneBusy
    <3> QED
      BY <2>2, <3>1 DEF GivenUpFirst, Busy, Protocols
  <2>4. CASE At({"closing"}) # {}
    <3>1. PICK c \in Conns : conn[c] = "closing"
      BY <2>4 DEF At
    <3>2. \A d \in Conns : conn'[d] \notin Busy
      BY <2>2, <3>1 DEF ConnInv, OneBusy, Busy, Protocols
    <3>3. timer' = OnDestroyed(timer)
      BY <1>4, <2>4 DEF RoundEnds
    <3>4. timer'.protocol = NoConn
      BY <1>0, <3>3, DestroyedProperties
    <3> QED
      BY <1>0, <2>1, <2>3, <2>6, <3>2, <3>4, ConstantTypes
      DEF ConnInv, BusyKnown, ProtocolExists, ConnectingTimed, NothingOpen, Busy, Protocols, Kind
  <2>5. CASE At({"closing"}) = {}
    <3>1. UNCHANGED timer /\ \A c \in Conns : conn[c] # "closing"
      BY <1>4, <2>5 DEF RoundEnds, At
    <3>2. timer.protocol # NoConn => timer.protocol \in Conns /\ conn[timer.protocol] \in Protocols
      BY <1>0, <3>1 DEF Records, Names, ConnInv, BusyKnown, ProtocolExists
    <3>3. BusyKnown'
      BY <2>1, <2>2, <3>1, <3>2 DEF ConnInv, BusyKnown, ProtocolExists, Protocols, Busy
    <3>4. ConnectingTimed' /\ NothingOpen'
      BY <2>1, <2>2, <3>1 DEF ConnInv, ConnectingTimed, NothingOpen, Kind, Exists, Busy
    <3> QED
      BY <1>0, <2>1, <2>3, <2>6, <3>3, <3>4 DEF ConnInv
  <2> QED
    BY <2>4, <2>5
<1> QED
  BY <1>1, <1>2, <1>3, <1>4 DEF Commands, NextRound

LEMMA ConnStep == ASSUME ConnInv, [Next]_vars, ~overlong' PROVE ConnInv'
BY TickConn, DispatchConn, RestConn DEF Next

\* What a round longer than the wait has left behind is gone once there is no
\* connection any more.
LEMMA AllGone ==
  ASSUME AlwaysInv, [Next]_vars, overlong, ~overlong'
  PROVE  /\ ConnInv'
         /\ \A c \in Conns : conn'[c] \notin Busy
<1>1. NextRound
  BY Zenon
  DEF Next, Tick, TicksDone, Dispatch, ChainFails, Connected, HandshakeSuccess, Rejected,
      OutputSent, Closes, Pong, RegisterAuthed, Commands, Initiate, AddressKnown, KeysSet,
      EnableCloudConnection, ClockSet, vars
<1>2. PICK seconds \in 0 .. MaxPause : RoundEnds(seconds)
  BY <1>1 DEF NextRound
<1>3. AlwaysInv' /\ Kind # "air" /\ UNCHANGED service /\ seconds \in Nat
  BY <1>2, AlwaysStep, ConstantTypes DEF AlwaysInv, Always, RoundEnds, env
<1>4. ~(seconds > InitTicks) /\ At({"connecting"} \cup Protocols) = {}
  BY <1>2, <1>3, Zenon DEF RoundEnds
<1>5. \A c \in Conns : conn'[c] \notin Busy
  <2>1. \A c \in Conns : conn'[c] = IF conn[c] \in {"killed", "dead", "closing"} THEN "free"
                                     ELSE conn[c]
    BY <1>2 DEF RoundEnds
  <2> QED
    BY <1>4, <2>1 DEF At, Busy, Protocols
<1>6. RoundShort'
  BY <1>2, <1>3, <1>4, ConstantTypes DEF RoundShort, RoundEnds
<1>7. OneBusy' /\ BusyKnown' /\ GivenUpFirst' /\ ConnectingTimed' /\ NothingOpen'
  BY <1>3, <1>5
  DEF AlwaysInv, Always, OneBusy, BusyKnown, GivenUpFirst, ConnectingTimed, NothingOpen, Busy,
      Protocols
<1> QED
  BY <1>3, <1>5, <1>6, <1>7 DEF ConnInv, AlwaysInv

\* The pointer of a timer to its protocol is always good.  The camera has at most
\* one connection to a server, and its timer knows it: whatever is given up,
\* rejected, refused at once or connected after all.  The exception is what a
\* round longer than the wait between two tries leaves behind, until it is gone
\* (OnEvent, OnProtocolEvent, TCPConnector::OnEvent).
THEOREM OneConnection == Spec => []OneKnownConnection
<1>1. ConnInv => TimerKnowsItsConnection
  <2> SUFFICES ASSUME ConnInv PROVE TimerKnowsItsConnection
    OBVIOUS
  <2>1. timer.protocol # NoConn => timer.protocol \in Conns
    BY TimerTypes DEF ConnInv, Records, Names, NoTimer
  <2>2. \A c \in At(Protocols) : timer.protocol = c
    BY DEF ConnInv, BusyKnown, At
  <2>3. ASSUME NEW c \in At({"connecting"}) PROVE timer.connector = c /\ timer.protocol = NoConn
    <3>1. c \in Conns /\ conn[c] = "connecting" /\ timer.connector = c
      BY <2>3 DEF ConnInv, BusyKnown, At
    <3>2. ASSUME timer.protocol # NoConn PROVE FALSE
      <4>1. conn[timer.protocol] \in Busy /\ conn[timer.protocol] # "connecting"
        BY <3>2 DEF ConnInv, BusyKnown, ProtocolExists, Busy, Protocols
      <4> QED
        BY <2>1, <3>1, <3>2, <4>1 DEF ConnInv, OneBusy, Busy
    <3> QED
      BY <3>1, <3>2
  <2> QED
    BY <2>2, <2>3 DEF TimerKnowsItsConnection
<1>2. ConnInv => AtMostOneConnection
  <2> SUFFICES ASSUME ConnInv PROVE AtMostOneConnection
    OBVIOUS
  <2> DEFINE S == At({"connecting"} \cup Protocols)
  <2>1. \A c, d \in S : c = d
    BY DEF ConnInv, OneBusy, Busy, At
  <2>2. CASE S = {}
    BY <2>2, FS_EmptySet DEF AtMostOneConnection
  <2>3. CASE S # {}
    <3>1. PICK c : c \in S
      BY <2>3
    <3>2. S = {c}
      BY <2>1, <3>1
    <3>3. Cardinality(S) = 1
      BY <3>2, FS_Singleton
    <3> QED
      BY <3>3 DEF AtMostOneConnection
  <2> QED
    BY <2>2, <2>3
<1>3. Init => AlwaysInv /\ (overlong \/ ConnInv)
  BY InitAlways, InitConn
<1>4. AlwaysInv /\ (overlong \/ ConnInv) /\ [Next]_vars => (AlwaysInv /\ (overlong \/ ConnInv))'
  <2> SUFFICES ASSUME AlwaysInv, overlong \/ ConnInv, [Next]_vars, ~overlong'
               PROVE  ConnInv'
    BY AlwaysStep
  <2> QED
    BY ConnStep, AllGone
<1>5. AlwaysInv /\ (overlong \/ ConnInv) => OneKnownConnection
  BY <1>1, <1>2 DEF OneKnownConnection, AlwaysInv, Always
<1> QED
  BY <1>3, <1>4, <1>5, PTL DEF Spec

(***************************************************************************)
(* Silent servers.  A connection is young when its handshake ends, and a   *)
(* round that began with a second passed does not end without a look at it.*)
(***************************************************************************)
HandshakeTimed ==
  \A c \in Conns : conn[c] = "handshake" =>
    /\ timer.state = "HANDSHAKE" /\ timer.tick \in 1 .. StepTicks
    /\ pongAge + timer.tick <= StepTicks + due

AliveWatched ==
  \A c \in Conns : conn[c] = "alive" =>
    /\ timer.state \in {"AUTH_SUCCESS", "WAIT_CUID"}
    /\ pongAge > Expire => phase = "timer" /\ due > 0

WatchInv == ConnInv /\ HandshakeTimed /\ AliveWatched

LEMMA TickWatch ==
  ASSUME WatchInv, Tick
  PROVE  HandshakeTimed' /\ AliveWatched'
<1>0. /\ timer \in Records /\ phase' = "timer" /\ due \in Nat /\ due > 0 /\ due' = due - 1
      /\ UNCHANGED pongAge /\ pongAge \in Nat /\ timer.tick \in Nat
  BY TickOutcomes DEF WatchInv, ConnInv, TypeOK, Tick, Records
<1>1. ASSUME NEW c \in Conns, conn[c] \in Protocols
      PROVE  enabled /\ timer.protocol = c /\ c # NoConn
  BY <1>1, ConstantTypes DEF WatchInv, ConnInv, NothingOpen, BusyKnown, Busy
<1>2. CASE Uneventful
  <2>1. /\ timer'.state = timer.state /\ timer'.tick = Down(timer.tick) /\ conn' = conn
        /\ enabled => ~TimedOut(timer)
    BY <1>0, <1>2, TickedProperties, TickOutcomes, WatchProperties
    DEF Uneventful, Dropped, MissedTry, Tried, WatchInv, ConnInv
  <2>2. HandshakeTimed'
    <3> SUFFICES ASSUME NEW c \in Conns, conn[c] = "handshake"
                 PROVE  /\ timer.state = "HANDSHAKE" /\ Down(timer.tick) \in 1 .. StepTicks
                        /\ pongAge + Down(timer.tick) <= StepTicks + (due - 1)
      BY <1>0, <2>1 DEF HandshakeTimed
    <3>1. timer.state = "HANDSHAKE" /\ timer.tick \in 1 .. StepTicks
          /\ pongAge + timer.tick <= StepTicks + due
      BY DEF WatchInv, HandshakeTimed
    <3>2. timer.tick > 1
      <4>1. enabled
        BY <1>1 DEF Protocols
      <4> QED
        BY <1>0, <2>1, <3>1, <4>1, WatchProperties
    <3>3. Down(timer.tick) = timer.tick - 1
      BY <1>0, <3>1, <3>2, ConstantTypes DEF Down, Forever
    <3> QED
      BY <1>0, <3>1, <3>2, <3>3, ConstantTypes
  <2>3. AliveWatched'
    <3> SUFFICES ASSUME NEW c \in Conns, conn[c] = "alive"
                 PROVE  timer.state \in {"AUTH_SUCCESS", "WAIT_CUID"} /\ ~(pongAge > Expire)
      BY <1>0, <2>1 DEF AliveWatched
    <3>1. timer.state \in {"AUTH_SUCCESS", "WAIT_CUID"}
      BY DEF WatchInv, AliveWatched
    <3>2. enabled /\ timer.protocol # NoConn
      BY <1>1 DEF Protocols
    <3> QED
      BY <1>0, <2>1, <3>1, <3>2, WatchProperties DEF InSession, Silent
  <2> QED
    BY <2>2, <2>3
<1>3. CASE Dropped
  <2>1. \A c \in Conns : conn'[c] \notin Protocols
    <3>1. TypeOK /\ Watched(timer) \in Records /\ conn' = Overlaid(conn, ClosedBy(Watched(timer)))
      BY <1>0, <1>3, TickedProperties
      DEF Watched, HandleTimeout, Records, States, Dropped, WatchInv, ConnInv
    <3>2. Watched(timer).protocol = timer.protocol
      BY <1>0, <1>3, WatchProperties DEF Dropped
    <3>3. conn \in [Conns -> Stages]
      BY <3>1 DEF TypeOK
    <3> SUFFICES ASSUME NEW c \in Conns, conn'[c] \in Protocols PROVE FALSE
      OBVIOUS
    <3>4. conn[c] \in Protocols
      BY <3>1, <3>3, ClosedProperties DEF Protocols
    <3>5. timer.protocol = c /\ c # NoConn
      BY <1>1, <3>4
    <3> QED
      BY <3>1, <3>2, <3>3, <3>5, ClosedProperties DEF Protocols
  <2> QED
    BY <2>1 DEF HandshakeTimed, AliveWatched, Protocols
<1>4. CASE MissedTry
  <2>1. timer.state = "INIT" /\ conn' = conn
    BY <1>0, <1>4, TickedProperties DEF MissedTry, TryDue
  <2>2. \A c \in Conns : conn[c] \notin {"handshake", "alive"}
    BY <2>1 DEF WatchInv, HandshakeTimed, AliveWatched
  <2> QED
    BY <2>1, <2>2 DEF HandshakeTimed, AliveWatched
<1>5. CASE Tried
  <2>1. \A c \in Conns : conn[c] \notin Busy
    BY <1>5, TryAlone DEF Tried, WatchInv
  <2>2. conn \in [Conns -> Stages]
    BY DEF WatchInv, ConnInv, TypeOK
  <2>4. ASSUME NEW d \in Conns PROVE conn'[d] \in {conn[d], "connecting", "dead"}
    BY <1>0, <1>5, <2>2, TriedProperties
  <2>5. ASSUME NEW d \in Conns PROVE conn'[d] \notin {"handshake", "alive"}
    BY <2>1, <2>4 DEF Busy, Protocols
  <2> QED
    BY <2>5 DEF HandshakeTimed, AliveWatched
<1> QED
  BY <1>2, <1>3, <1>4, <1>5, TickOutcomes DEF WatchInv, ConnInv

LEMMA DispatchWatch ==
  ASSUME StepTicks <= Expire + 1, WatchInv, Dispatch
  PROVE  HandshakeTimed' /\ AliveWatched'
<1>1. PICK c \in Conns : \/ ChainFails(c) \/ Connected(c) \/ HandshakeSuccess(c) \/ Rejected(c)
                         \/ OutputSent(c) \/ Closes(c) \/ Pong(c) \/ RegisterAuthed(c)
  BY DEF Dispatch
<1>2. /\ timer \in {NoTimer} \cup Records /\ timer \in MaybeTimer /\ phase = "events"
      /\ due = 0 /\ UNCHANGED due /\ pongAge \in Nat /\ conn \in [Conns -> Stages]
  BY <1>1, TimerTypes
  DEF WatchInv, ConnInv, RoundShort, TypeOK, Events, ChainFails, Connected, HandshakeSuccess,
      Rejected, OutputSent, Closes, Pong, RegisterAuthed
<1>3. CASE Pong(c)
  <2>1. UNCHANGED <<timer, conn>> /\ pongAge' = 0
    BY <1>3 DEF Pong
  <2>2. ASSUME NEW d \in Conns, conn[d] = "handshake"
        PROVE  /\ timer.state = "HANDSHAKE" /\ timer.tick \in 1 .. StepTicks
               /\ 0 + timer.tick <= StepTicks + due
    <3>1. /\ timer.state = "HANDSHAKE" /\ timer.tick \in 1 .. StepTicks
          /\ pongAge + timer.tick <= StepTicks + due
      BY <2>2 DEF WatchInv, HandshakeTimed
    <3>2. StepTicks \in Nat
      BY ConstantTypes
    <3> QED
      BY <1>2, <3>1, <3>2
  <2>3. HandshakeTimed'
    BY <1>2, <2>1, <2>2 DEF HandshakeTimed
  <2>4. AliveWatched'
    BY <2>1, ConstantTypes DEF WatchInv, AliveWatched
  <2> QED
    BY <2>3, <2>4
<1>4. CASE conn[c] \in Busy /\ conn'[c] \notin {"handshake", "alive"}
           /\ \E s \in Stages : conn' = [conn EXCEPT ![c] = s]
  <2>1. \A d \in Conns : conn'[d] \notin {"handshake", "alive"}
    BY <1>2, <1>4 DEF WatchInv, ConnInv, OneBusy, Busy, Protocols
  <2> QED
    BY <2>1 DEF HandshakeTimed, AliveWatched
<1>5. CASE conn[c] \in {"connecting", "killed"} /\ timer' = OnCreated(timer, c) /\ pongAge' = 0
           /\ conn' = [conn EXCEPT ![c] = "handshake"]
  <2>1. timer'.state = "HANDSHAKE" /\ timer'.tick = StepTicks
    <3>1. timer \in Records
      BY <1>2, <1>5, ConnectingHasTimer DEF WatchInv
    <3> QED
      BY <1>5, <3>1, HandlerProperties
  <2>2. \A d \in Conns : conn'[d] # "alive"
    BY <1>2, <1>5 DEF WatchInv, ConnInv, OneBusy, Busy, Protocols
  <2>3. HandshakeTimed'
    BY <1>2, <1>5, <2>1, ConstantTypes DEF HandshakeTimed
  <2> QED
    BY <2>2, <2>3 DEF AliveWatched
<1>6. CASE HandshakeSuccess(c)
  <2>1. /\ conn[c] = "handshake" /\ conn' = [conn EXCEPT ![c] = "alive"]
        /\ timer' = OnHandshake(timer) /\ UNCHANGED pongAge
    BY <1>6 DEF HandshakeSuccess
  <2>2. timer'.state \in {"AUTH_SUCCESS", "WAIT_CUID"}
    <3>1. timer \in Records
      BY <1>2, <2>1 DEF WatchInv, HandshakeTimed, NoTimer
    <3> QED
      BY <2>1, <3>1, HandlerProperties
  <2>3. \A d \in Conns : conn'[d] # "handshake"
    BY <1>2, <2>1 DEF WatchInv, ConnInv, OneBusy, Busy, Protocols
  <2>4. ~(pongAge' > Expire)
    <3>1. timer.tick \in 1 .. StepTicks /\ pongAge + timer.tick <= StepTicks
      BY <1>2, <2>1, ConstantTypes DEF WatchInv, HandshakeTimed
    <3> QED
      BY <1>2, <2>1, <3>1, ConstantTypes
  <2> QED
    BY <2>2, <2>3, <2>4 DEF HandshakeTimed, AliveWatched
<1>7. CASE RegisterAuthed(c)
  <2>1. /\ conn[c] = "alive"
        /\ conn' = Overlaid(conn, [d \in {timer.protocol} \ {NoConn} |-> "closing"])
    BY <1>7 DEF RegisterAuthed
  <2>2. timer.protocol = c /\ c # NoConn
    BY <2>1, ConstantTypes DEF WatchInv, ConnInv, BusyKnown, Protocols
  <2>3. conn' = [conn EXCEPT ![c] = "closing"]
    BY <1>2, <2>1, <2>2 DEF Overlaid
  <2> QED
    BY <1>2, <1>4, <2>1, <2>3 DEF Busy, Stages, Protocols
<1> QED
  <2>1. CASE ChainFails(c)
    BY <1>2, <1>4, <2>1 DEF ChainFails, Busy, Stages
  <2>2. CASE Connected(c)
    BY <1>2, <1>4, <1>5, <2>2 DEF Connected, Busy, Stages
  <2>3. CASE Rejected(c)
    BY <1>2, <1>4, <2>3 DEF Rejected, Busy, Stages, Protocols
  <2>4. CASE OutputSent(c) \/ Closes(c)
    BY <1>2, <1>4, <2>4 DEF OutputSent, Closes, Busy, Stages, Protocols
  <2> QED
    BY <1>1, <1>3, <1>6, <1>7, <2>1, <2>2, <2>3, <2>4

LEMMA RestWatch ==
  ASSUME WatchInv, TicksDone \/ Commands \/ NextRound \/ UNCHANGED vars
  PROVE  HandshakeTimed' /\ AliveWatched'
<1>0. /\ timer \in {NoTimer} \cup Records /\ pongAge \in Nat /\ due \in Nat
      /\ conn \in [Conns -> Stages] /\ NoTimer.protocol = NoConn
  BY TimerTypes DEF WatchInv, ConnInv, TypeOK, NoTimer
<1>1. CASE TicksDone
  <2>1. UNCHANGED <<timer, conn, pongAge>> /\ due' = 0
    BY <1>1 DEF TicksDone
  <2>2. ASSUME NEW c \in Conns, conn[c] \in Protocols PROVE due = 0
    BY <1>0, <1>1, <2>2, ConstantTypes DEF TicksDone, Exists, WatchInv, ConnInv, BusyKnown
  <2>3. HandshakeTimed'
    BY <2>1, <2>2 DEF WatchInv, HandshakeTimed, Protocols
  <2>4. AliveWatched'
    BY <2>1, <2>2 DEF WatchInv, AliveWatched, Protocols
  <2> QED
    BY <2>3, <2>4
<1>2. CASE Initiate
  <2>1. \A c \in Conns : conn'[c] \notin {"handshake", "alive"}
    <3>1. Kind = "air" /\ timer = NoTimer
      BY <1>2, InitiateProperties DEF WatchInv, ConnInv
    <3>2. \A d \in Conns : conn[d] \notin Busy
      BY <3>1 DEF WatchInv, ConnInv, NothingOpen, Exists
    <3>3. PICK c \in Conns : \/ conn' = [conn EXCEPT ![c] = "connecting"]
                             \/ conn' = [conn EXCEPT ![c] = "dead"]
      BY <1>2, InitiateProperties DEF WatchInv, ConnInv
    <3>4. ASSUME NEW d \in Conns PROVE conn[d] \notin {"handshake", "alive"}
      BY <3>2 DEF Busy, Protocols
    <3>5. ASSUME NEW d \in Conns PROVE conn'[d] \in {conn[d], "connecting", "dead"}
      BY <1>0, <3>3
    <3> QED
      BY <3>4, <3>5
  <2> QED
    BY <2>1 DEF HandshakeTimed, AliveWatched
<1>3. CASE AddressKnown \/ KeysSet \/ EnableCloudConnection \/ UNCHANGED vars
  <2>1. UNCHANGED <<timer, conn, due, phase, pongAge>>
    BY <1>3 DEF AddressKnown, KeysSet, EnableCloudConnection, vars
  <2> QED
    BY <2>1 DEF WatchInv, HandshakeTimed, AliveWatched
<1>4. ASSUME NEW back \in ClockJumps, ClockSet(back) PROVE HandshakeTimed' /\ AliveWatched'
  <2>1. UNCHANGED <<timer, conn, due, phase>> /\ (pongAge' = 0 \/ UNCHANGED pongAge)
    BY <1>4 DEF ClockSet
  <2>2. HandshakeTimed'
    <3> SUFFICES ASSUME NEW c \in Conns, conn[c] = "handshake"
                 PROVE  /\ timer.state = "HANDSHAKE" /\ timer.tick \in 1 .. StepTicks
                        /\ pongAge' + timer.tick <= StepTicks + due
      BY <2>1 DEF HandshakeTimed
    <3>1. timer.state = "HANDSHAKE" /\ timer.tick \in 1 .. StepTicks
          /\ pongAge + timer.tick <= StepTicks + due
      BY DEF WatchInv, HandshakeTimed
    <3>2. StepTicks \in Nat
      BY ConstantTypes
    <3>3. timer.tick \in Nat /\ timer.tick <= StepTicks
      BY <3>1, <3>2
    <3>4. 0 + timer.tick <= StepTicks + due
      BY <1>0, <3>2, <3>3
    <3> QED
      BY <2>1, <3>1, <3>4
  <2>3. AliveWatched'
    BY <2>1, ConstantTypes DEF WatchInv, AliveWatched
  <2> QED
    BY <2>2, <2>3
<1>5. ASSUME NEW seconds \in 0 .. MaxPause, RoundEnds(seconds)
      PROVE  HandshakeTimed' /\ AliveWatched'
  <2>1. /\ phase = "events" /\ phase' = "timer" /\ due = 0 /\ due' = seconds /\ seconds \in Nat
        /\ pongAge' = CapAt(pongAge + seconds, Expire + 1)
        /\ \A c \in Conns : conn'[c] = IF conn[c] \in {"killed", "dead", "closing"} THEN "free"
                                       ELSE conn[c]
    BY <1>5, ConstantTypes DEF RoundEnds, Events, WatchInv, ConnInv, RoundShort
  <2>2. pongAge' \in Nat /\ pongAge' <= pongAge + seconds
    BY <1>0, <2>1, ConstantTypes DEF CapAt
  <2>3. ASSUME NEW c \in Conns, conn'[c] \in Protocols PROVE conn[c] = conn'[c] /\ UNCHANGED timer
    <3>1. conn[c] = conn'[c]
      BY <2>1, <2>3 DEF Protocols
    <3>2. At({"closing"}) = {}
      BY <2>3, <3>1 DEF WatchInv, ConnInv, OneBusy, Busy, Protocols, At
    <3> QED
      BY <1>5, <3>1, <3>2 DEF RoundEnds
  <2>4. HandshakeTimed'
    <3> SUFFICES ASSUME NEW c \in Conns, conn'[c] = "handshake"
                 PROVE  /\ timer'.state = "HANDSHAKE" /\ timer'.tick \in 1 .. StepTicks
                        /\ pongAge' + timer'.tick <= StepTicks + due'
      BY DEF HandshakeTimed
    <3>1. conn[c] = "handshake" /\ UNCHANGED timer
      BY <2>3 DEF Protocols
    <3>2. timer.state = "HANDSHAKE" /\ timer.tick \in 1 .. StepTicks
          /\ pongAge + timer.tick <= StepTicks + 0
      BY <2>1, <3>1 DEF WatchInv, HandshakeTimed
    <3> QED
      BY <1>0, <2>1, <2>2, <3>1, <3>2, ConstantTypes
  <2>5. AliveWatched'
    <3> SUFFICES ASSUME NEW c \in Conns, conn'[c] = "alive"
                 PROVE  /\ timer'.state \in {"AUTH_SUCCESS", "WAIT_CUID"}
                        /\ pongAge' > Expire => due' > 0
      BY <2>1 DEF AliveWatched
    <3>1. conn[c] = "alive" /\ UNCHANGED timer
      BY <2>3 DEF Protocols
    <3>2. timer.state \in {"AUTH_SUCCESS", "WAIT_CUID"} /\ ~(pongAge > Expire)
      BY <2>1, <3>1 DEF WatchInv, AliveWatched
    <3> QED
      BY <1>0, <2>1, <2>2, <3>1, <3>2, ConstantTypes
  <2> QED
    BY <2>4, <2>5
<1> QED
  BY <1>1, <1>2, <1>3, <1>4, <1>5 DEF Commands, NextRound

\* Once the seconds of a round have been counted, no connection is open to a
\* server that has been silent for longer than the time-out, except for what a
\* round longer than the wait between two tries has left behind.  This needs
\* that a handshake is given up before the time-out has passed (HandleTimeout,
\* UpdatePongTime).
THEOREM SilentTheorem ==
  ASSUME StepTicks <= Expire + 1
  PROVE  Spec => []SilentServerDropped
<1>1. Init => AlwaysInv /\ (overlong \/ WatchInv)
  <2>1. Init => \A c \in Conns : conn[c] = "free"
    BY DEF Init
  <2> QED
    BY <2>1, InitAlways, InitConn DEF WatchInv, HandshakeTimed, AliveWatched
<1>2. AlwaysInv /\ (overlong \/ WatchInv) /\ [Next]_vars
        => (AlwaysInv /\ (overlong \/ WatchInv))'
  <2> SUFFICES ASSUME AlwaysInv, overlong \/ WatchInv, [Next]_vars, ~overlong'
               PROVE  WatchInv'
    BY AlwaysStep
  <2>1. CASE overlong
    BY <2>1, AllGone DEF WatchInv, HandshakeTimed, AliveWatched, Busy, Protocols
  <2>2. CASE WatchInv
    <3>1. ConnInv'
      BY <2>2, ConnStep DEF WatchInv
    <3>2. HandshakeTimed' /\ AliveWatched'
      BY <2>2, TickWatch, DispatchWatch, RestWatch DEF Next
    <3> QED
      BY <3>1, <3>2 DEF WatchInv
  <2> QED
    BY <2>1, <2>2
<1>3. AlwaysInv /\ (overlong \/ WatchInv) => SilentServerDropped
  <2> SUFFICES ASSUME WatchInv, phase = "events", NEW c \in Conns, conn[c] = "alive"
               PROVE  pongAge <= Expire
    BY DEF SilentServerDropped, At
  <2> QED
    BY ConstantTypes DEF WatchInv, ConnInv, TypeOK, AliveWatched
<1> QED
  BY <1>1, <1>2, <1>3, PTL DEF Spec
=============================================================================
