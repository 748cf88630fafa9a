----------------------- MODULE WorkerCommands_proofs ------------------------
(***************************************************************************)
(* Proofs about the channel to the worker processes, for any number of     *)
(* sockets, connections and commands: names lead to carriers that exist,   *)
(* only an overlap of two connections hides a worker, what is in transit   *)
(* is on record at the manager, and the cache follows the settings.        *)
(***************************************************************************)
EXTENDS WorkerCommands, SequenceTheorems, TLAPS

(***************************************************************************)
(* The inductive invariant.  Deleting one carrier takes the name from the  *)
(* other connections of its socket, so it has to be known that these are   *)
(* marked as crowded.                                                      *)
(***************************************************************************)
OverlapsMarked ==
  \A c, d \in Conns :
    c # d /\ d \in Accepted(SocketOf[c]) /\ c \in Accepted(SocketOf[c]) => c \in crowded

ChannelInv == ChannelTypeOK /\ NamesLeadToCarriers /\ OnlyOverlapHides /\ OverlapsMarked

LEMMA InitInv == Init => ChannelInv
<1> SUFFICES ASSUME ChannelInit PROVE ChannelInv
  BY DEF Init
<1> USE ChannelAssumption DEF ChannelInit
<1>1. todo \in [Conns -> Seq(MsgIds)] /\ answers \in [Conns -> Seq(MsgIds)]
  <2>1. <<>> \in Seq(MsgIds)
    OBVIOUS
  <2> QED
    BY <2>1
<1>2. lastId \in 0 .. MaxMsgs
  OBVIOUS
<1>3. ChannelTypeOK
  BY <1>1, <1>2 DEF ChannelTypeOK, Stages
<1>4. NamesLeadToCarriers /\ OnlyOverlapHides /\ OverlapsMarked
  BY DEF NamesLeadToCarriers, OnlyOverlapHides, OverlapsMarked, Accepted
<1> QED
  BY <1>3, <1>4 DEF ChannelInv

\* Steps that leave connections and names alone keep what is said of them.
LEMMA SameConnections ==
  ASSUME ChannelInv, UNCHANGED <<stage, registry, crowded>>
  PROVE  NamesLeadToCarriers' /\ OnlyOverlapHides' /\ OverlapsMarked'
BY DEF ChannelInv, NamesLeadToCarriers, OnlyOverlapHides, OverlapsMarked, Accepted

\* Handing a command over keeps the types.
LEMMA SendProperties ==
  ASSUME ChannelInv, NEW s \in Sockets, NEW cb \in Callbacks, SendCommand(s, cb)
  PROVE  ChannelInv'
<1>1. ChannelTypeOK'
  <2>1. CASE registry[s] = NoConn
    BY <2>1 DEF ChannelInv, ChannelTypeOK, SendCommand, Send
  <2>2. CASE registry[s] # NoConn
    <3>1. NewMsgId \in MsgIds
      BY ChannelAssumption DEF ChannelInv, ChannelTypeOK, SendCommand, NewMsgId, MsgIds
    <3>2. registry[s] \in Conns /\ todo[registry[s]] \in Seq(MsgIds)
      BY <2>2 DEF ChannelInv, ChannelTypeOK
    <3>3. Append(todo[registry[s]], NewMsgId) \in Seq(MsgIds)
      BY <3>1, <3>2
    <3>4. lastId' \in 0 .. MaxMsgs /\ asker' \in [MsgIds -> Callbacks \cup {NoCaller}]
      BY <2>2, <3>1 DEF ChannelInv, ChannelTypeOK, SendCommand, Send, MsgIds
    <3>5. todo' \in [Conns -> Seq(MsgIds)]
      BY <2>2, <3>2, <3>3 DEF ChannelInv, ChannelTypeOK, SendCommand, Send
    <3> QED
      BY <2>2, <3>4, <3>5 DEF ChannelInv, ChannelTypeOK, SendCommand, Send
  <2> QED
    BY <2>1, <2>2
<1> QED
  BY <1>1, SameConnections DEF ChannelInv, SendCommand

LEMMA WorkersInv == ASSUME ChannelInv, Workers PROVE ChannelInv'
<1> USE DEF ChannelInv, ChannelTypeOK
<1>1. ASSUME NEW c \in Conns, Connect(c) PROVE ChannelInv'
  <2>1. ChannelTypeOK'
    BY <1>1, ChannelAssumption DEF Connect, Stages
  <2>2. \A d \in Conns : d \in Accepted(SocketOf[d]) <=> (d \in Accepted(SocketOf[d]))'
    BY <1>1 DEF Connect, Accepted
  <2>3. \A s \in Sockets : Accepted(s)' = Accepted(s)
    BY <1>1 DEF Connect, Accepted
  <2> QED
    BY <1>1, <2>1, <2>3, ChannelAssumption
    DEF Connect, NamesLeadToCarriers, OnlyOverlapHides, OverlapsMarked
<1>2. ASSUME NEW s \in Sockets, WorkerDies(s) PROVE ChannelInv'
  <2>1. ChannelTypeOK'
    BY <1>2 DEF WorkerDies
  <2> QED
    BY <1>2, <2>1, SameConnections DEF WorkerDies
<1>3. ASSUME NEW c \in Conns, Execute(c) \/ ExecuteAndDie(c) PROVE ChannelInv'
  <2>1. todo[c] \in Seq(MsgIds) /\ todo[c] # <<>> /\ answers[c] \in Seq(MsgIds)
    BY <1>3 DEF Execute, ExecuteAndDie
  <2>2. Tail(todo[c]) \in Seq(MsgIds) /\ Head(todo[c]) \in MsgIds
    BY <2>1
  <2>3. Append(answers[c], Head(todo[c])) \in Seq(MsgIds)
    BY <2>1, <2>2
  <2>4. todo' \in [Conns -> Seq(MsgIds)]
    BY <1>3, <2>2 DEF Execute, ExecuteAndDie
  <2>5. answers' \in [Conns -> Seq(MsgIds)]
    BY <1>3, <2>3 DEF Execute, ExecuteAndDie
  <2>6. worker' \in [Sockets -> Conns \cup {NoConn}] /\ lossy' \in BOOLEAN
    BY <1>3 DEF Execute, ExecuteAndDie
  <2>7. ChannelTypeOK'
    BY <1>3, <2>4, <2>5, <2>6 DEF Execute, ExecuteAndDie
  <2> QED
    BY <1>3, <2>7, SameConnections DEF Execute, ExecuteAndDie
<1> QED
  BY <1>1, <1>2, <1>3 DEF Workers

LEMMA LoopInv == ASSUME ChannelInv, Loop PROVE ChannelInv'
<1> USE DEF ChannelInv
<1>1. ASSUME NEW c \in Conns, Accept(c) PROVE ChannelInv'
  <2> DEFINE s == SocketOf[c]
  <2>0. s \in Sockets /\ c \in Accepted(s)' /\ c \notin Accepted(s)
    BY <1>1, ChannelAssumption DEF Accept, ChannelTypeOK, Accepted
  <2>1. ChannelTypeOK'
    BY <1>1, <2>0, ChannelAssumption DEF Accept, Registered, ChannelTypeOK, Stages, Accepted
  <2>2. \A t \in Sockets : Accepted(t)' = IF t = s THEN Accepted(t) \cup {c} ELSE Accepted(t)
    BY <1>1 DEF Accept, ChannelTypeOK, Accepted
  <2>3. NamesLeadToCarriers'
    BY <1>1, <2>0, <2>2 DEF Accept, Registered, NamesLeadToCarriers, ChannelTypeOK
  <2>4. OverlapsMarked'
    <3> SUFFICES ASSUME NEW d \in Conns, NEW e \in Conns, d # e,
                        (e \in Accepted(SocketOf[d]))', (d \in Accepted(SocketOf[d]))'
                 PROVE  d \in crowded'
      BY DEF OverlapsMarked
    <3> SocketOf[d] \in Sockets
      BY ChannelAssumption
    <3>1. CASE SocketOf[d] # s
      BY <3>1, <1>1, <2>2 DEF Accept, OverlapsMarked
    <3>2. CASE SocketOf[d] = s
      <4>1. Accepted(s) # {}
        BY <3>2, <2>0, <2>2
      <4> QED
        BY <3>2, <4>1, <1>1, <2>0, <2>2 DEF Accept
    <3> QED
      BY <3>1, <3>2
  <2>5. OnlyOverlapHides'
    <3> SUFFICES ASSUME NEW d \in Conns, stage'[d] \in {"open", "dead"}
                 PROVE  registry'[SocketOf[d]] = d \/ d \in crowded'
      BY DEF OnlyOverlapHides
    <3> SocketOf[d] \in Sockets
      BY ChannelAssumption
    <3>1. CASE d # c
      <4>1. stage[d] \in {"open", "dead"}
        BY <3>1, <1>1 DEF Accept, ChannelTypeOK
      <4>2. d \in crowded => d \in crowded'
        BY <1>1 DEF Accept
      <4>3. registry[SocketOf[d]] = d => registry'[SocketOf[d]] = d
        BY <1>1, ChannelAssumption DEF Accept, Registered, ChannelTypeOK
      <4> QED
        BY <4>1, <4>2, <4>3 DEF OnlyOverlapHides
    <3>2. CASE d = c
      <4>1. CASE Accepted(s) = {}
        <5>1. registry[s] = NoConn
          BY <4>1, <2>0 DEF NamesLeadToCarriers
        <5> QED
          BY <5>1, <3>2, <1>1, <2>0 DEF Accept, Registered, ChannelTypeOK
      <4>2. CASE Accepted(s) # {}
        BY <4>2, <3>2, <1>1 DEF Accept
      <4> QED
        BY <4>1, <4>2
    <3> QED
      BY <3>1, <3>2
  <2> QED
    BY <2>1, <2>3, <2>4, <2>5
<1>2. ASSUME NEW c \in Conns, CarrierFails(c) PROVE ChannelInv'
  <2>0. <<>> \in Seq(MsgIds)
    OBVIOUS
  <2>1. ChannelTypeOK'
    <3>1. answers' \in [Conns -> Seq(MsgIds)]
      BY <1>2, <2>0 DEF CarrierFails, ChannelTypeOK
    <3>2. stage' \in [Conns -> Stages] /\ lossy' \in BOOLEAN
      BY <1>2 DEF CarrierFails, ChannelTypeOK, Stages
    <3> QED
      BY <1>2, <3>1, <3>2 DEF CarrierFails, ChannelTypeOK
  <2>2. /\ \A d \in Conns : stage'[d] \in {"open", "dead"} <=> stage[d] \in {"open", "dead"}
        /\ \A s \in Sockets : Accepted(s)' = Accepted(s)
    BY <1>2 DEF CarrierFails, ChannelTypeOK, Accepted
  <2> QED
    BY <1>2, <2>1, <2>2, ChannelAssumption
    DEF CarrierFails, NamesLeadToCarriers, OnlyOverlapHides, OverlapsMarked
<1>3. ASSUME NEW c \in Conns, SendDataToUXCallback(c) \/ AnswerUndecodable(c)
      PROVE ChannelInv'
  <2>1. answers[c] \in Seq(MsgIds) /\ answers[c] # <<>>
    BY <1>3 DEF SendDataToUXCallback, AnswerUndecodable, TakeAnswer, ChannelTypeOK
  <2>2. Tail(answers[c]) \in Seq(MsgIds) /\ Head(answers[c]) \in MsgIds
    BY <2>1
  <2>4. answers' \in [Conns -> Seq(MsgIds)]
    BY <1>3, <2>2 DEF SendDataToUXCallback, AnswerUndecodable, TakeAnswer, ChannelTypeOK
  <2>5. asker' \in [MsgIds -> Callbacks \cup {NoCaller}] /\ lossy' \in BOOLEAN
    BY <1>3, <2>2 DEF SendDataToUXCallback, AnswerUndecodable, Erased, ChannelTypeOK
  <2>6. UNCHANGED <<stage, worker, registry, todo, lastId, callbacks, elders, crowded>>
    BY <1>3 DEF SendDataToUXCallback, AnswerUndecodable, TakeAnswer
  <2>3. ChannelTypeOK'
    BY <2>4, <2>5, <2>6 DEF ChannelTypeOK
  <2> QED
    BY <1>3, <2>3, SameConnections DEF SendDataToUXCallback, AnswerUndecodable, TakeAnswer
<1>4. ASSUME DeleteDeadHandlers PROVE ChannelInv'
  <2>1. ChannelTypeOK'
    BY <1>4, ChannelAssumption
    DEF DeleteDeadHandlers, AfterDestructors, ChannelTypeOK, Stages
  <2>2. \A s \in Sockets : Accepted(s)' = Accepted(s) \ Dead
    BY <1>4 DEF DeleteDeadHandlers, Accepted, Dead
  <2>3. NamesLeadToCarriers'
    <3> SUFFICES ASSUME NEW s \in Sockets, registry'[s] # NoConn
                 PROVE  registry'[s] \in Accepted(s)'
      BY DEF NamesLeadToCarriers
    <3>1. registry'[s] = registry[s] /\ \A c \in Dead : SocketOf[c] # s
      BY <1>4 DEF DeleteDeadHandlers, AfterDestructors
    <3>2. registry[s] \in Accepted(s)
      BY <3>1 DEF NamesLeadToCarriers
    <3> QED
      BY <2>2, <3>1, <3>2 DEF Accepted
  <2>4. OnlyOverlapHides'
    <3> SUFFICES ASSUME NEW c \in Conns, stage'[c] \in {"open", "dead"}
                 PROVE  registry'[SocketOf[c]] = c \/ c \in crowded'
      BY DEF OnlyOverlapHides
    <3>1. SocketOf[c] \in Sockets /\ c \notin Dead /\ stage[c] \in {"open", "dead"}
      BY <1>4, ChannelAssumption DEF DeleteDeadHandlers
    <3>2. CASE \E d \in Dead : SocketOf[d] = SocketOf[c]
      <4> PICK d \in Dead : SocketOf[d] = SocketOf[c]
        BY <3>2
      <4>1. d \in Conns /\ d # c /\ d \in Accepted(SocketOf[c]) /\ c \in Accepted(SocketOf[c])
        BY <3>1 DEF Dead, Accepted
      <4>2. c \in crowded
        BY <4>1 DEF OverlapsMarked
      <4> QED
        BY <4>2, <3>1, <1>4 DEF DeleteDeadHandlers
    <3>3. CASE \A d \in Dead : SocketOf[d] # SocketOf[c]
      <4>1. registry'[SocketOf[c]] = registry[SocketOf[c]]
        BY <3>1, <3>3, <1>4 DEF DeleteDeadHandlers, AfterDestructors
      <4> QED
        BY <4>1, <3>1, <1>4 DEF DeleteDeadHandlers, OnlyOverlapHides
    <3> QED
      BY <3>2, <3>3
  <2>5. OverlapsMarked'
    <3> SUFFICES ASSUME NEW c \in Conns, NEW d \in Conns, c # d,
                        (d \in Accepted(SocketOf[c]))', (c \in Accepted(SocketOf[c]))'
                 PROVE  c \in crowded'
      BY DEF OverlapsMarked
    <3> SocketOf[c] \in Sockets
      BY ChannelAssumption
    <3> QED
      BY <2>2, <1>4 DEF DeleteDeadHandlers, OverlapsMarked
  <2> QED
    BY <2>1, <2>3, <2>4, <2>5
<1> QED
  BY <1>1, <1>2, <1>3, <1>4 DEF Loop

LEMMA ChannelStep == ASSUME ChannelInv, [ChannelNext]_channelVars PROVE ChannelInv'
<1>1. CASE Workers
  BY <1>1, WorkersInv
<1>2. CASE Loop
  BY <1>2, LoopInv
<1>3. ASSUME NEW cb \in Callbacks, UnRegisterSystemCommandCallback(cb) PROVE ChannelInv'
  <2>1. ChannelTypeOK'
    BY <1>3 DEF ChannelInv, ChannelTypeOK, UnRegisterSystemCommandCallback
  <2> QED
    BY <1>3, <2>1, SameConnections DEF ChannelInv, UnRegisterSystemCommandCallback
<1>4. CASE UNCHANGED channelVars
  <2>1. ChannelTypeOK'
    BY <1>4 DEF ChannelInv, ChannelTypeOK, channelVars
  <2> QED
    BY <1>4, <2>1, SameConnections DEF ChannelInv, channelVars
<1> QED
  BY <1>1, <1>2, <1>3, <1>4, SendProperties DEF ChannelNext, Callers

\* The NVRAM and the timer use the channel only through its operations.
LEMMA StepsOfTheChannel == Next => [ChannelNext]_channelVars
<1> USE CommandsAssumption DEF ChannelNext, Workers, Loop, Callers
<1> SUFFICES ASSUME Next PROVE [ChannelNext]_channelVars
  OBVIOUS
<1>1. ASSUME NEW k \in Keys, NEW v \in Values, SetSync(k, v) \/ SetAsync(k, v)
      PROVE [ChannelNext]_channelVars
  BY <1>1 DEF SetSync, SetAsync, System, NVRam, Timer
<1>2. ASSUME NEW k \in Keys, Get(k) PROVE [ChannelNext]_channelVars
  BY <1>2 DEF Get
<1>3. CASE RefreshNVRam \/ QueryCloudServer \/ TimerDeleted
  BY <1>3 DEF RefreshNVRam, QueryCloudServer, TimerDeleted, System, NVRam, Timer
<1>4. ASSUME NEW c \in Conns,
             \/ WorkerRuns(c) \/ Answered(c) \/ Passing(AnswerUndecodable(c))
             \/ Passing(Connect(c)) \/ Passing(Accept(c)) \/ Passing(CarrierFails(c))
      PROVE [ChannelNext]_channelVars
  BY <1>4 DEF WorkerRuns, Answered, Passing
<1>5. CASE (\E s \in Sockets : Passing(WorkerDies(s))) \/ Passing(DeleteDeadHandlers)
  BY <1>5 DEF Passing
<1> QED
  BY <1>1, <1>2, <1>3, <1>4, <1>5 DEF Next

LEMMA SpecInv == Spec => []ChannelInv
<1>1. ChannelInv /\ [Next]_vars => ChannelInv'
  <2> SUFFICES ASSUME ChannelInv, [Next]_vars PROVE ChannelInv'
    OBVIOUS
  <2>1. [ChannelNext]_channelVars
    BY StepsOfTheChannel DEF vars
  <2> QED
    BY <2>1, ChannelStep
<1> QED
  BY <1>1, InitInv, PTL DEF Spec

\* A registered name always leads to a carrier that exists, so no command is
\* written to a destroyed one, and a worker that never shared its socket is the
\* one that is registered (Accept, which ignores a refused registration, and
\* ~UnixDomainSocketCarrier, which unregisters the name).
THEOREM NamesTheorem == Spec => []NamesExact
<1>1. ChannelInv => NamesExact
  BY DEF ChannelInv, NamesExact
<1> QED
  BY <1>1, SpecInv, PTL

(***************************************************************************)
(* The commands and answers under way.  An answer finds its asker because  *)
(* every number is under way in one place, and the numbers of each         *)
(* connection, and those of connections that follow each other on a        *)
(* socket, are in order.                                                   *)
(***************************************************************************)
Waiting(c) == ToSetOf(todo[c])
Brought(c) == ToSetOf(answers[c])
Ids(c) == Waiting(c) \cup Brought(c)
Increasing(seq) == \A i, j \in DOMAIN seq : i < j => seq[i] < seq[j]

InOrder ==
  \A c \in Conns :
    /\ Increasing(todo[c]) /\ Increasing(answers[c])
    /\ \A m \in Brought(c), n \in Waiting(c) : m < n

OwnNumbers == \A c, d \in Conns : c # d => Ids(c) \cap Ids(d) = {}

Numbered == \A c \in Conns : \A m \in Ids(c) : m <= lastId /\ asker[m] # NoCaller

OnlyAccepted ==
  \A c \in Conns :
    /\ stage[c] \notin {"open", "dead"} => Ids(c) = {}
    /\ stage[c] # "open" => Brought(c) = {}

EldersAccepted ==
  /\ \A c \in Conns : elders[c] \subseteq Accepted(SocketOf[c]) \ {c}
  /\ \A s \in Sockets : \A c, d \in Accepted(s) :
       c # d => c \in elders[d] \/ d \in elders[c]

EldersFirst == \A c \in Conns : \A d \in elders[c] : \A m \in Ids(d), n \in Ids(c) : m < n

\* Commands go to the connection that is registered, so one that came after
\* it has none.
RegisteredLast == \A c \in Conns : registry[SocketOf[c]] \in elders[c] => Ids(c) = {}

\* A living worker is on the last connection of its socket that has answers.
LivingLast ==
  \A c, d \in Conns :
    Holds(c) /\ stage[c] = "open" /\ d # c /\ SocketOf[d] = SocketOf[c] /\ Brought(d) # {}
      => d \in elders[c]

Orderly == InOrder /\ OwnNumbers /\ Numbered /\ EldersFirst
Placed == OnlyAccepted /\ EldersAccepted /\ RegisteredLast /\ LivingLast
TransitInv == ChannelInv /\ Orderly /\ Placed

LEMMA IdsAreNumbers ==
  ASSUME ChannelTypeOK, NEW c \in Conns
  PROVE  Waiting(c) \subseteq MsgIds /\ Brought(c) \subseteq MsgIds /\ Ids(c) \subseteq MsgIds
<1>1. todo[c] \in Seq(MsgIds) /\ answers[c] \in Seq(MsgIds)
  BY DEF ChannelTypeOK
<1> QED
  BY <1>1 DEF Waiting, Brought, Ids, ToSetOf

LEMMA TakenOne ==
  ASSUME NEW seq \in Seq(MsgIds), seq # <<>>, Increasing(seq)
  PROVE  /\ Tail(seq) \in Seq(MsgIds) /\ Head(seq) \in MsgIds
         /\ ToSetOf(seq) = {Head(seq)} \cup ToSetOf(Tail(seq))
         /\ Increasing(Tail(seq))
         /\ \A m \in ToSetOf(Tail(seq)) : Head(seq) < m
<1>1. Len(seq) \in Nat /\ Len(seq) # 0 /\ DOMAIN seq = 1 .. Len(seq)
  OBVIOUS
<1>2. /\ Tail(seq) \in Seq(MsgIds) /\ Len(Tail(seq)) = Len(seq) - 1
      /\ \A i \in 1 .. Len(seq) - 1 : Tail(seq)[i] = seq[i + 1]
  OBVIOUS
<1>3. DOMAIN Tail(seq) = 1 .. Len(seq) - 1
  BY <1>2
<1>4. Head(seq) = seq[1] /\ Head(seq) \in MsgIds
  BY <1>1
<1>5. ToSetOf(seq) = {Head(seq)} \cup ToSetOf(Tail(seq))
  <2>1. ASSUME NEW m \in ToSetOf(seq) PROVE m \in {Head(seq)} \cup ToSetOf(Tail(seq))
    <3> PICK i \in 1 .. Len(seq) : seq[i] = m
      BY <1>1 DEF ToSetOf
    <3>1. CASE i = 1
      BY <3>1, <1>4
    <3>2. CASE i # 1
      <4>1. i - 1 \in 1 .. Len(seq) - 1 /\ (i - 1) + 1 = i
        BY <3>2, <1>1
      <4>2. Tail(seq)[i - 1] = m
        BY <4>1, <1>2
      <4> QED
        BY <4>1, <4>2, <1>3 DEF ToSetOf
    <3> QED
      BY <3>1, <3>2
  <2>2. ASSUME NEW m \in ToSetOf(Tail(seq)) PROVE m \in ToSetOf(seq)
    <3> PICK i \in 1 .. Len(seq) - 1 : Tail(seq)[i] = m
      BY <1>3 DEF ToSetOf
    <3>1. i + 1 \in 1 .. Len(seq) /\ seq[i + 1] = m
      BY <1>1, <1>2
    <3> QED
      BY <3>1, <1>1 DEF ToSetOf
  <2>3. Head(seq) \in ToSetOf(seq)
    BY <1>1, <1>4 DEF ToSetOf
  <2> QED
    BY <2>1, <2>2, <2>3
<1>6. Increasing(Tail(seq))
  <2> SUFFICES ASSUME NEW i \in 1 .. Len(seq) - 1, NEW j \in 1 .. Len(seq) - 1, i < j
               PROVE  Tail(seq)[i] < Tail(seq)[j]
    BY <1>3 DEF Increasing
  <2>1. i + 1 \in DOMAIN seq /\ j + 1 \in DOMAIN seq /\ i + 1 < j + 1
    BY <1>1
  <2>2. seq[i + 1] < seq[j + 1]
    BY <2>1 DEF Increasing
  <2> QED
    BY <2>2, <1>2
<1>7. ASSUME NEW m \in ToSetOf(Tail(seq)) PROVE Head(seq) < m
  <2> PICK i \in 1 .. Len(seq) - 1 : Tail(seq)[i] = m
    BY <1>3 DEF ToSetOf
  <2>1. 1 \in DOMAIN seq /\ i + 1 \in DOMAIN seq /\ 1 < i + 1
    BY <1>1
  <2>2. seq[1] < seq[i + 1]
    BY <2>1 DEF Increasing
  <2> QED
    BY <2>2, <1>2, <1>4
<1> QED
  BY <1>2, <1>4, <1>5, <1>6, <1>7

LEMMA AddedOne ==
  ASSUME NEW seq \in Seq(MsgIds), NEW m \in MsgIds,
         Increasing(seq), \A n \in ToSetOf(seq) : n < m
  PROVE  /\ Append(seq, m) \in Seq(MsgIds)
         /\ ToSetOf(Append(seq, m)) = ToSetOf(seq) \cup {m}
         /\ Increasing(Append(seq, m))
<1> DEFINE app == Append(seq, m)
<1>1. Len(seq) \in Nat /\ DOMAIN seq = 1 .. Len(seq)
  OBVIOUS
<1>2. /\ app \in Seq(MsgIds) /\ Len(app) = Len(seq) + 1
      /\ \A i \in 1 .. Len(seq) : app[i] = seq[i]
      /\ app[Len(seq) + 1] = m
  OBVIOUS
<1>3. DOMAIN app = 1 .. Len(seq) + 1
  BY <1>2
<1> HIDE DEF app
<1>4. ToSetOf(app) = ToSetOf(seq) \cup {m}
  <2>1. ASSUME NEW n \in ToSetOf(app) PROVE n \in ToSetOf(seq) \cup {m}
    <3> PICK i \in 1 .. Len(seq) + 1 : app[i] = n
      BY <1>3 DEF ToSetOf
    <3>1. CASE i = Len(seq) + 1
      BY <3>1, <1>2
    <3>2. CASE i # Len(seq) + 1
      <4>1. i \in 1 .. Len(seq)
        BY <3>2, <1>1
      <4> QED
        BY <4>1, <1>1, <1>2 DEF ToSetOf
    <3> QED
      BY <3>1, <3>2
  <2>2. ASSUME NEW n \in ToSetOf(seq) PROVE n \in ToSetOf(app)
    <3> PICK i \in 1 .. Len(seq) : seq[i] = n
      BY <1>1 DEF ToSetOf
    <3>1. i \in 1 .. Len(seq) + 1
      BY <1>1
    <3> QED
      BY <3>1, <1>2, <1>3 DEF ToSetOf
  <2>3. m \in ToSetOf(app)
    <3>1. Len(seq) + 1 \in DOMAIN app
      BY <1>1, <1>3
    <3> QED
      BY <3>1, <1>2 DEF ToSetOf
  <2> QED
    BY <2>1, <2>2, <2>3
<1>5. Increasing(app)
  <2> SUFFICES ASSUME NEW i \in 1 .. Len(seq) + 1, NEW j \in 1 .. Len(seq) + 1, i < j
               PROVE  app[i] < app[j]
    BY <1>3 DEF Increasing
  <2>1. i \in 1 .. Len(seq)
    BY <1>1
  <2>2. CASE j = Len(seq) + 1
    <3>1. seq[i] \in ToSetOf(seq)
      BY <2>1, <1>1 DEF ToSetOf
    <3> QED
      BY <2>1, <2>2, <3>1, <1>2
  <2>3. CASE j # Len(seq) + 1
    <3>1. j \in 1 .. Len(seq)
      BY <2>3, <1>1
    <3>2. seq[i] < seq[j]
      BY <2>1, <3>1, <1>1 DEF Increasing
    <3> QED
      BY <2>1, <3>1, <3>2, <1>2
  <2> QED
    BY <2>2, <2>3
<1> QED
  BY <1>2, <1>4, <1>5 DEF app

LEMMA NothingInOrder == Increasing(<<>>) /\ ToSetOf(<<>>) = {}
BY DEF Increasing, ToSetOf

\* Where nothing new is under way, what is said of the numbers stays true.
LEMMA FewerIds ==
  ASSUME TransitInv, lastId' = lastId,
         \A c \in Conns : /\ Increasing(todo'[c]) /\ Increasing(answers'[c])
                          /\ Waiting(c)' \subseteq Waiting(c)
                          /\ Brought(c)' \subseteq Brought(c)
                          /\ elders'[c] \cap Conns \subseteq elders[c]
                          /\ elders'[c] \subseteq Conns,
         \A c \in Conns : \A m \in Ids(c)' : asker'[m] = asker[m]
  PROVE  Orderly'
<1>1. \A c \in Conns : Ids(c)' \subseteq Ids(c)
  BY DEF Ids
<1>2. InOrder'
  BY DEF TransitInv, Orderly, InOrder
<1>3. OwnNumbers'
  BY <1>1 DEF TransitInv, Orderly, OwnNumbers
<1>4. Numbered'
  BY <1>1 DEF TransitInv, Orderly, Numbered
<1>5. EldersFirst'
  BY <1>1 DEF TransitInv, Orderly, EldersFirst
<1> QED
  BY <1>2, <1>3, <1>4, <1>5 DEF Orderly

\* ... and of where they are, if the connections stay as they are.
LEMMA SameHandlers ==
  ASSUME TransitInv, UNCHANGED <<stage, registry, elders>>,
         \A c \in Conns : /\ Ids(c)' \subseteq Ids(c)
                          /\ Brought(c)' \subseteq Brought(c)
                          /\ Holds(c)' => Holds(c)
  PROVE  Placed'
<1>1. \A s \in Sockets : Accepted(s)' = Accepted(s)
  BY DEF Accepted
<1> USE ChannelAssumption DEF TransitInv, Placed
<1>2. OnlyAccepted'
  BY DEF OnlyAccepted
<1>3. EldersAccepted'
  BY <1>1 DEF EldersAccepted
<1>4. RegisteredLast'
  BY DEF RegisteredLast
<1>5. LivingLast'
  BY DEF LivingLast
<1> QED
  BY <1>2, <1>3, <1>4, <1>5

LEMMA InitTransit == Init => TransitInv
<1> SUFFICES ASSUME Init PROVE TransitInv
  OBVIOUS
<1> USE ChannelAssumption
<1>1. ChannelInv
  BY InitInv
<1>2. \A c \in Conns : todo[c] = <<>> /\ answers[c] = <<>> /\ elders[c] = {} /\ stage[c] = "free"
  BY DEF Init, ChannelInit
<1>3. \A c \in Conns : Waiting(c) = {} /\ Brought(c) = {} /\ Ids(c) = {}
  BY <1>2, NothingInOrder DEF Waiting, Brought, Ids
<1>4. Orderly
  BY <1>2, <1>3, NothingInOrder DEF Orderly, InOrder, OwnNumbers, Numbered, EldersFirst
<1>5. Placed
  BY <1>2, <1>3 DEF Placed, OnlyAccepted, EldersAccepted, RegisteredLast, LivingLast, Accepted
<1> QED
  BY <1>1, <1>4, <1>5 DEF TransitInv

\* Nothing under way changes.
LEMMA SameIds ==
  ASSUME TransitInv, UNCHANGED <<todo, answers, lastId, asker>>,
         \A c \in Conns : elders'[c] \subseteq elders[c]
  PROVE  Orderly' /\ \A c \in Conns : Ids(c)' = Ids(c) /\ Brought(c)' = Brought(c)
<1>1. \A c \in Conns : Waiting(c)' = Waiting(c) /\ Brought(c)' = Brought(c) /\ Ids(c)' = Ids(c)
  BY DEF Waiting, Brought, Ids
<1>2. \A c \in Conns : Increasing(todo'[c]) /\ Increasing(answers'[c])
  BY DEF TransitInv, Orderly, InOrder
<1>3. \A c \in Conns : elders[c] \subseteq Conns
  BY DEF TransitInv, ChannelInv, ChannelTypeOK
<1>4. Orderly'
  BY <1>1, <1>2, <1>3, FewerIds
<1> QED
  BY <1>1, <1>4

LEMMA ConnectTransit ==
  ASSUME TransitInv, NEW c \in Conns, Connect(c)
  PROVE  Orderly' /\ Placed'
<1> USE ChannelAssumption DEF TransitInv, Placed
<1>0. ChannelTypeOK
  BY DEF ChannelInv
<1>1. Orderly' /\ \A d \in Conns : Ids(d)' = Ids(d) /\ Brought(d)' = Brought(d)
  BY SameIds DEF Connect
<1>2. \A d \in Conns : stage'[d] = IF d = c THEN "backlog" ELSE stage[d]
  BY <1>0 DEF Connect, ChannelTypeOK
<1>3. stage[c] = "free" /\ UNCHANGED <<elders, registry>>
  BY DEF Connect
<1>4. \A s \in Sockets : Accepted(s)' = Accepted(s)
  BY <1>2, <1>3 DEF Accepted
<1>5. OnlyAccepted'
  BY <1>1, <1>2, <1>3 DEF OnlyAccepted
<1>6. EldersAccepted'
  BY <1>3, <1>4 DEF EldersAccepted
<1>7. RegisteredLast'
  BY <1>1, <1>3 DEF RegisteredLast
<1>8. LivingLast'
  <2>1. \A d \in Conns : Holds(d)' /\ stage'[d] = "open" => Holds(d) /\ stage[d] = "open"
    BY <1>0, <1>2 DEF Connect, Holds, ChannelTypeOK
  <2> QED
    BY <2>1, <1>1, <1>3 DEF LivingLast
<1> QED
  BY <1>1, <1>5, <1>6, <1>7, <1>8

LEMMA ExecuteTransit ==
  ASSUME TransitInv, NEW c \in Conns, Execute(c) \/ ExecuteAndDie(c)
  PROVE  /\ Orderly' /\ Placed'
         /\ Head(todo[c]) \in Waiting(c)
         /\ \A d \in Conns : Ids(d)' \subseteq Ids(d)
         /\ \A d \in Conns : Brought(d)' \subseteq Brought(d) \cup {Head(todo[c])}
         /\ \A d \in Conns : d # c => Brought(d)' = Brought(d)
         /\ Execute(c) => Brought(c)' = Brought(c) \cup {Head(todo[c])}
         /\ ExecuteAndDie(c) => Brought(c)' = Brought(c) /\ Head(todo[c]) \notin Ids(c)'
<1> USE ChannelAssumption
<1> DEFINE m == Head(todo[c])
<1>0. ChannelTypeOK
  BY DEF TransitInv, ChannelInv
<1>1. todo[c] \in Seq(MsgIds) /\ todo[c] # <<>> /\ answers[c] \in Seq(MsgIds)
  BY <1>0 DEF Execute, ExecuteAndDie, ChannelTypeOK
<1>2. /\ Increasing(todo[c]) /\ Increasing(answers[c])
      /\ \A a \in Brought(c), n \in Waiting(c) : a < n
  BY DEF TransitInv, Orderly, InOrder
<1>3. /\ m \in MsgIds /\ ToSetOf(todo[c]) = {m} \cup ToSetOf(Tail(todo[c]))
      /\ Increasing(Tail(todo[c])) /\ \A n \in ToSetOf(Tail(todo[c])) : m < n
  BY <1>1, <1>2, TakenOne
<1>4. todo' = [todo EXCEPT ![c] = Tail(todo[c])]
  BY DEF Execute, ExecuteAndDie
<1>5. /\ todo'[c] = Tail(todo[c])
      /\ \A d \in Conns : d # c => todo'[d] = todo[d]
  BY <1>0, <1>4 DEF ChannelTypeOK
<1>6. /\ Waiting(c) = {m} \cup Waiting(c)' /\ Increasing(todo'[c])
      /\ \A n \in Waiting(c)' : m < n
      /\ \A d \in Conns : d # c => Waiting(d)' = Waiting(d)
  BY <1>3, <1>5 DEF Waiting
<1>7. m \notin Waiting(c)'
  <2>1. m \in Nat
    BY <1>3 DEF MsgIds
  <2> QED
    BY <2>1, <1>6
<1>8. UNCHANGED <<stage, registry, lastId, asker, elders>>
  BY DEF Execute, ExecuteAndDie
<1>9. \A d \in Conns : Increasing(todo'[d])
  BY <1>5, <1>6 DEF TransitInv, Orderly, InOrder
<1>10. \A d \in Conns : Waiting(d) \subseteq MsgIds /\ Brought(d) \subseteq MsgIds
  BY <1>0, IdsAreNumbers
<1>11. \A a \in Brought(c) : a < m
  BY <1>2, <1>6
<1>12. stage[c] = "open" /\ Holds(c)
  BY DEF Execute, ExecuteAndDie
<1>15. ~(Execute(c) /\ ExecuteAndDie(c))
  <2> SUFFICES ASSUME Execute(c), ExecuteAndDie(c) PROVE FALSE
    OBVIOUS
  <2>1. answers'[c] = Append(answers[c], m) /\ answers' = answers
    BY <1>0 DEF Execute, ExecuteAndDie, ChannelTypeOK
  <2>2. Len(answers'[c]) = Len(answers[c]) + 1 /\ Len(answers[c]) \in Nat
    BY <2>1, <1>1, <1>3
  <2> QED
    BY <2>1, <2>2
<1>13. CASE Execute(c)
  <2>1. answers' = [answers EXCEPT ![c] = Append(answers[c], m)]
    BY <1>13 DEF Execute
  <2>2. /\ answers'[c] = Append(answers[c], m)
        /\ \A d \in Conns : d # c => answers'[d] = answers[d]
    BY <2>1, <1>0 DEF ChannelTypeOK
  <2>3. /\ ToSetOf(Append(answers[c], m)) = ToSetOf(answers[c]) \cup {m}
        /\ Increasing(Append(answers[c], m))
    BY <1>1, <1>2, <1>3, <1>11, AddedOne DEF Brought
  <2>4. /\ Brought(c)' = Brought(c) \cup {m} /\ Increasing(answers'[c])
        /\ \A d \in Conns : d # c => Brought(d)' = Brought(d)
    BY <2>2, <2>3 DEF Brought
  <2>5. \A d \in Conns : Ids(d)' = Ids(d)
    BY <2>4, <1>6 DEF Ids
  <2>6. InOrder'
    <3> SUFFICES ASSUME NEW d \in Conns
                 PROVE  /\ Increasing(todo'[d]) /\ Increasing(answers'[d])
                        /\ \A a \in Brought(d)', n \in Waiting(d)' : a < n
      BY DEF InOrder
    <3>1. CASE d # c
      BY <3>1, <1>5, <1>6, <2>2, <2>4 DEF TransitInv, Orderly, InOrder
    <3>2. CASE d = c
      <4>1. \A a \in Brought(c), n \in Waiting(c)' : a < n
        BY <1>2, <1>6
      <4> QED
        BY <3>2, <4>1, <1>6, <2>4
    <3> QED
      BY <3>1, <3>2
  <2>7. OwnNumbers' /\ Numbered' /\ EldersFirst'
    <3>1. OwnNumbers'
      BY <2>5 DEF TransitInv, Orderly, OwnNumbers
    <3>2. Numbered'
      BY <2>5, <1>8 DEF TransitInv, Orderly, Numbered
    <3>3. EldersFirst'
      <4>1. \A d \in Conns : elders'[d] = elders[d] /\ elders[d] \subseteq Conns
        BY <1>0, <1>8 DEF ChannelTypeOK
      <4> QED
        BY <2>5, <4>1 DEF TransitInv, Orderly, EldersFirst
    <3> QED
      BY <3>1, <3>2, <3>3
  <2>8. UNCHANGED worker
    BY <1>13 DEF Execute
  <2>9. \A s \in Sockets : Accepted(s)' = Accepted(s)
    BY <1>8 DEF Accepted
  <2>10. OnlyAccepted'
    BY <2>4, <2>5, <1>8, <1>12 DEF TransitInv, Placed, OnlyAccepted
  <2>11. EldersAccepted' /\ RegisteredLast'
    BY <2>5, <2>9, <1>8 DEF TransitInv, Placed, EldersAccepted, RegisteredLast
  <2>12. LivingLast'
    <3> SUFFICES ASSUME NEW d \in Conns, NEW e \in Conns, Holds(d)', stage'[d] = "open", e # d,
                        SocketOf[e] = SocketOf[d], Brought(e)' # {}
                 PROVE  e \in elders'[d]
      BY DEF LivingLast
    <3>1. Holds(d) /\ stage[d] = "open"
      BY <2>8, <1>8 DEF Holds
    <3>2. e # c
      BY <3>1, <1>12 DEF Holds
    <3> QED
      BY <3>1, <3>2, <2>4, <1>8 DEF TransitInv, Placed, LivingLast
  <2>13. Placed'
    BY <2>10, <2>11, <2>12 DEF Placed
  <2> QED
    BY <2>4, <2>5, <2>6, <2>7, <2>13, <1>6, <1>15, <1>13 DEF Orderly
<1>14. CASE ExecuteAndDie(c)
  <2>1. UNCHANGED answers
    BY <1>14 DEF ExecuteAndDie
  <2>2. \A d \in Conns : Brought(d)' = Brought(d) /\ Increasing(answers'[d])
    BY <2>1 DEF Brought, TransitInv, Orderly, InOrder
  <2>3. \A d \in Conns : Waiting(d)' \subseteq Waiting(d) /\ Ids(d)' \subseteq Ids(d)
    BY <2>2, <1>6 DEF Ids
  <2>4. \A d \in Conns : elders'[d] \subseteq elders[d] /\ elders'[d] \subseteq Conns
    BY <1>0, <1>8 DEF ChannelTypeOK
  <2>5. Orderly'
    BY <2>2, <2>3, <2>4, <1>8, <1>9, FewerIds
  <2>6. \A d \in Conns : Holds(d)' => Holds(d)
    BY <1>0, <1>14 DEF ExecuteAndDie, Holds, ChannelTypeOK
  <2>7. Placed'
    BY <2>2, <2>3, <2>6, <1>8, SameHandlers
  <2>8. m \notin Brought(c)
    BY <1>3, <1>11 DEF MsgIds
  <2>9. m \notin Ids(c)'
    BY <2>2, <2>8, <1>7 DEF Ids
  <2> QED
    BY <2>2, <2>3, <2>5, <2>7, <2>9, <1>6, <1>15, <1>14
<1> QED
  BY <1>13, <1>14

LEMMA AcceptTransit ==
  ASSUME TransitInv, NEW c \in Conns, Accept(c)
  PROVE  Orderly' /\ Placed'
<1> USE ChannelAssumption
<1> DEFINE s == SocketOf[c]
<1>0. ChannelTypeOK
  BY DEF TransitInv, ChannelInv
<1>1. s \in Sockets /\ stage[c] = "backlog" /\ UNCHANGED <<todo, answers, lastId, asker, worker>>
  BY DEF Accept
<1>2. \A d \in Conns : stage'[d] = IF d = c THEN "open" ELSE stage[d]
  BY <1>0 DEF Accept, ChannelTypeOK
<1>3. \A d \in Conns : elders'[d] = IF d = c THEN Accepted(s) ELSE elders[d]
  BY <1>0 DEF Accept, ChannelTypeOK
<1>4. \A t \in Sockets : Accepted(t)' = IF t = s THEN Accepted(t) \cup {c} ELSE Accepted(t)
  BY <1>1, <1>2 DEF Accepted
<1>5. c \notin Accepted(s) /\ Accepted(s) \subseteq Conns
  BY <1>1 DEF Accepted
<1>6. \A d \in Conns : Waiting(d)' = Waiting(d) /\ Brought(d)' = Brought(d) /\ Ids(d)' = Ids(d)
  BY <1>1 DEF Waiting, Brought, Ids
<1>7. Ids(c) = {} /\ Brought(c) = {}
  BY <1>1 DEF TransitInv, Placed, OnlyAccepted, Ids
<1>8. \A d \in Conns : c \notin elders[d]
  BY <1>1 DEF TransitInv, Placed, EldersAccepted, Accepted
<1>9. \A d \in Conns : d # c /\ registry'[SocketOf[d]] \in elders[d]
                         => registry[SocketOf[d]] \in elders[d]
  BY <1>0, <1>8 DEF Accept, Registered, ChannelTypeOK
<1>10. Orderly'
  <2>1. InOrder' /\ OwnNumbers'
    BY <1>1, <1>6 DEF TransitInv, Orderly, InOrder, OwnNumbers
  <2>2. Numbered'
    BY <1>1, <1>6 DEF TransitInv, Orderly, Numbered
  <2>3. EldersFirst'
    <3> SUFFICES ASSUME NEW d \in Conns, NEW e \in elders'[d], NEW m \in Ids(e)', NEW n \in Ids(d)'
                 PROVE  m < n
      BY DEF EldersFirst
    <3>1. d # c
      BY <1>6, <1>7
    <3>2. e \in elders[d] /\ e \in Conns
      BY <3>1, <1>0, <1>3 DEF ChannelTypeOK
    <3> QED
      BY <3>2, <1>6 DEF TransitInv, Orderly, EldersFirst
  <2> QED
    BY <2>1, <2>2, <2>3 DEF Orderly
<1>11. OnlyAccepted'
  BY <1>2, <1>6, <1>7 DEF TransitInv, Placed, OnlyAccepted
<1>12. EldersAccepted'
  <2>1. ASSUME NEW d \in Conns PROVE elders'[d] \subseteq Accepted(SocketOf[d])' \ {d}
    <3>1. SocketOf[d] \in Sockets
      OBVIOUS
    <3>2. CASE d = c
      BY <3>2, <1>1, <1>3, <1>4, <1>5
    <3>3. CASE d # c
      BY <3>1, <3>3, <1>3, <1>4 DEF TransitInv, Placed, EldersAccepted
    <3> QED
      BY <3>2, <3>3
  <2>2. ASSUME NEW t \in Sockets, NEW d \in Accepted(t)', NEW e \in Accepted(t)', d # e
        PROVE  d \in elders'[e] \/ e \in elders'[d]
    <3>0. d \in Conns /\ e \in Conns
      BY DEF Accepted
    <3>1. CASE d = c \/ e = c
      <4>1. t = s
        BY <3>1 DEF Accepted
      <4> QED
        BY <3>0, <3>1, <4>1, <2>2, <1>1, <1>3, <1>4
    <3>2. CASE d # c /\ e # c
      <4>1. d \in Accepted(t) /\ e \in Accepted(t)
        BY <3>2, <1>4
      <4> QED
        BY <3>0, <3>2, <4>1, <2>2, <1>3 DEF TransitInv, Placed, EldersAccepted
    <3> QED
      BY <3>1, <3>2
  <2> QED
    BY <2>1, <2>2 DEF EldersAccepted
<1>13. RegisteredLast'
  <2> SUFFICES ASSUME NEW d \in Conns, registry'[SocketOf[d]] \in elders'[d]
               PROVE  Ids(d)' = {}
    BY DEF RegisteredLast
  <2>1. CASE d = c
    BY <2>1, <1>6, <1>7
  <2>2. CASE d # c
    BY <2>2, <1>3, <1>6, <1>9 DEF TransitInv, Placed, RegisteredLast
  <2> QED
    BY <2>1, <2>2
<1>14. LivingLast'
  <2> SUFFICES ASSUME NEW d \in Conns, NEW e \in Conns, Holds(d)', stage'[d] = "open", e # d,
                      SocketOf[e] = SocketOf[d], Brought(e)' # {}
               PROVE  e \in elders'[d]
    BY DEF LivingLast
  <2>1. Holds(d)
    BY <1>1 DEF Holds
  <2>2. CASE d = c
    <3>1. stage[e] = "open"
      BY <1>6 DEF TransitInv, Placed, OnlyAccepted
    <3>2. e \in Accepted(s)
      BY <3>1, <2>2 DEF Accepted
    <3> QED
      BY <3>2, <2>2, <1>3
  <2>3. CASE d # c
    BY <2>1, <2>3, <1>2, <1>3, <1>6 DEF TransitInv, Placed, LivingLast
  <2> QED
    BY <2>2, <2>3
<1> QED
  BY <1>10, <1>11, <1>12, <1>13, <1>14 DEF Placed

LEMMA CarrierFailsTransit ==
  ASSUME TransitInv, NEW c \in Conns, CarrierFails(c)
  PROVE  Orderly' /\ Placed' /\ \A d \in Conns : /\ Ids(d)' \subseteq Ids(d)
                                                 /\ Brought(d)' \subseteq Brought(d)
<1> USE ChannelAssumption
<1>0. ChannelTypeOK
  BY DEF TransitInv, ChannelInv
<1>1. stage[c] = "open" /\ UNCHANGED <<worker, registry, todo, lastId, asker, elders>>
  BY DEF CarrierFails
<1>2. \A d \in Conns : stage'[d] = IF d = c THEN "dead" ELSE stage[d]
  BY <1>0 DEF CarrierFails, ChannelTypeOK
<1>3. \A d \in Conns : answers'[d] = IF d = c THEN <<>> ELSE answers[d]
  BY <1>0 DEF CarrierFails, ChannelTypeOK
<1>4. \A d \in Conns : /\ Increasing(todo'[d]) /\ Increasing(answers'[d])
                       /\ Waiting(d)' = Waiting(d) /\ Brought(d)' \subseteq Brought(d)
  BY <1>1, <1>3, NothingInOrder DEF TransitInv, Orderly, InOrder, Waiting, Brought
<1>5. \A d \in Conns : Ids(d)' \subseteq Ids(d)
  BY <1>4 DEF Ids
<1>6. \A d \in Conns : elders'[d] = elders[d] /\ elders[d] \subseteq Conns
  BY <1>0, <1>1 DEF ChannelTypeOK
<1>7. Orderly'
  BY <1>1, <1>4, <1>6, FewerIds
<1>8. Brought(c)' = {}
  BY <1>3, NothingInOrder DEF Brought
<1>9. \A s \in Sockets : Accepted(s)' = Accepted(s)
  BY <1>1, <1>2 DEF Accepted
<1>10. OnlyAccepted'
  BY <1>1, <1>2, <1>4, <1>5, <1>8 DEF TransitInv, Placed, OnlyAccepted
<1>11. EldersAccepted'
  <2>1. ASSUME NEW d \in Conns PROVE elders'[d] \subseteq Accepted(SocketOf[d])' \ {d}
    BY <1>6, <1>9 DEF TransitInv, Placed, EldersAccepted
  <2>2. ASSUME NEW s \in Sockets, NEW d \in Accepted(s)', NEW e \in Accepted(s)', d # e
        PROVE  d \in elders'[e] \/ e \in elders'[d]
    <3>1. d \in Accepted(s) /\ e \in Accepted(s)
      BY <1>9
    <3>2. d \in Conns /\ e \in Conns
      BY <3>1 DEF Accepted
    <3> QED
      BY <2>2, <3>1, <3>2, <1>6 DEF TransitInv, Placed, EldersAccepted
  <2> QED
    BY <2>1, <2>2 DEF EldersAccepted
<1>12. RegisteredLast'
  BY <1>1, <1>5 DEF TransitInv, Placed, RegisteredLast
<1>13. LivingLast'
  BY <1>1, <1>2, <1>4 DEF TransitInv, Placed, LivingLast, Holds
<1> QED
  BY <1>4, <1>5, <1>7, <1>10, <1>11, <1>12, <1>13 DEF Placed

LEMMA DeleteTransit ==
  ASSUME TransitInv, DeleteDeadHandlers
  PROVE  Orderly' /\ Placed' /\ \A d \in Conns : /\ Ids(d)' \subseteq Ids(d)
                                                 /\ Brought(d)' \subseteq Brought(d)
<1> USE ChannelAssumption
<1>0. ChannelTypeOK
  BY DEF TransitInv, ChannelInv
<1>1. UNCHANGED <<worker, answers, lastId, asker>>
  BY DEF DeleteDeadHandlers
<1>2. \A d \in Conns : /\ stage'[d] = IF d \in Dead THEN "free" ELSE stage[d]
                       /\ todo'[d] = IF d \in Dead THEN <<>> ELSE todo[d]
                       /\ elders'[d] = elders[d] \ Dead
  BY DEF DeleteDeadHandlers
<1>3. Dead \subseteq Conns /\ \A d \in Dead : stage[d] = "dead"
  BY DEF Dead
<1>4. \A d \in Conns : /\ Increasing(todo'[d]) /\ Increasing(answers'[d])
                       /\ Waiting(d)' \subseteq Waiting(d) /\ Brought(d)' = Brought(d)
  BY <1>1, <1>2, NothingInOrder DEF TransitInv, Orderly, InOrder, Waiting, Brought
<1>5. \A d \in Conns : Ids(d)' \subseteq Ids(d)
  BY <1>4 DEF Ids
<1>6. \A d \in Conns : elders'[d] \subseteq elders[d] /\ elders[d] \subseteq Conns
  BY <1>0, <1>2 DEF ChannelTypeOK
<1>7. Orderly'
  BY <1>1, <1>4, <1>6, FewerIds
<1>8. \A d \in Dead : Ids(d)' = {}
  <2> SUFFICES ASSUME NEW d \in Dead PROVE Ids(d)' = {}
    OBVIOUS
  <2>1. Brought(d) = {}
    BY <1>3 DEF TransitInv, Placed, OnlyAccepted
  <2>2. Waiting(d)' = {}
    BY <1>2, <1>3, NothingInOrder DEF Waiting
  <2> QED
    BY <2>1, <2>2, <1>3, <1>4 DEF Ids
<1>9. \A s \in Sockets : Accepted(s)' = Accepted(s) \ Dead
  BY <1>2 DEF Accepted, Dead
<1>10. OnlyAccepted'
  <2> SUFFICES ASSUME NEW d \in Conns
               PROVE  /\ stage'[d] \notin {"open", "dead"} => Ids(d)' = {}
                      /\ stage'[d] # "open" => Brought(d)' = {}
    BY DEF OnlyAccepted
  <2>1. CASE d \in Dead
    BY <2>1, <1>8 DEF Ids
  <2>2. CASE d \notin Dead
    BY <2>2, <1>2, <1>4, <1>5 DEF TransitInv, Placed, OnlyAccepted
  <2> QED
    BY <2>1, <2>2
<1>11. EldersAccepted'
  <2>1. ASSUME NEW d \in Conns PROVE elders'[d] \subseteq Accepted(SocketOf[d])' \ {d}
    <3>1. elders[d] \subseteq Accepted(SocketOf[d]) \ {d}
      BY DEF TransitInv, Placed, EldersAccepted
    <3>2. Accepted(SocketOf[d])' = Accepted(SocketOf[d]) \ Dead
      BY <1>9
    <3> QED
      BY <3>1, <3>2, <1>2
  <2>2. ASSUME NEW s \in Sockets, NEW d \in Accepted(s)', NEW e \in Accepted(s)', d # e
        PROVE  d \in elders'[e] \/ e \in elders'[d]
    <3>1. d \in Accepted(s) \ Dead /\ e \in Accepted(s) \ Dead
      BY <1>9
    <3>2. d \in Conns /\ e \in Conns
      BY <3>1 DEF Accepted
    <3>3. d \in elders[e] \/ e \in elders[d]
      BY <2>2, <3>1 DEF TransitInv, Placed, EldersAccepted
    <3> QED
      BY <3>1, <3>2, <3>3, <1>2
  <2> QED
    BY <2>1, <2>2 DEF EldersAccepted
<1>12. RegisteredLast'
  <2> SUFFICES ASSUME NEW d \in Conns, registry'[SocketOf[d]] \in elders'[d]
               PROVE  Ids(d)' = {}
    BY DEF RegisteredLast
  <2>1. registry'[SocketOf[d]] # NoConn
    BY <1>6
  <2>2. registry'[SocketOf[d]] = registry[SocketOf[d]]
    BY <2>1 DEF DeleteDeadHandlers, AfterDestructors
  <2> QED
    BY <2>2, <1>5, <1>6 DEF TransitInv, Placed, RegisteredLast
<1>13. LivingLast'
  <2> SUFFICES ASSUME NEW d \in Conns, NEW e \in Conns, Holds(d)', stage'[d] = "open", e # d,
                      SocketOf[e] = SocketOf[d], Brought(e)' # {}
               PROVE  e \in elders'[d]
    BY DEF LivingLast
  <2>1. e \notin Dead
    BY <1>8 DEF Ids
  <2>2. Holds(d) /\ stage[d] = "open" /\ Brought(e) # {}
    BY <1>1, <1>2, <1>4 DEF Holds
  <2>3. e \in elders[d]
    BY <2>2 DEF TransitInv, Placed, LivingLast
  <2> QED
    BY <2>1, <2>3, <1>2
<1> QED
  BY <1>4, <1>5, <1>7, <1>10, <1>11, <1>12, <1>13 DEF Placed

LEMMA SendTransit ==
  ASSUME TransitInv, NEW s \in Sockets, NEW cb \in Callbacks, SendCommand(s, cb)
  PROVE  /\ Orderly' /\ Placed'
         /\ \A d \in Conns : Brought(d)' = Brought(d)
         /\ registry[s] = NoConn =>
              UNCHANGED <<lastId, asker>> /\ \A d \in Conns : Ids(d)' = Ids(d)
         /\ registry[s] # NoConn =>
              /\ NewMsgId \in MsgIds /\ lastId' = NewMsgId
              /\ asker' = [asker EXCEPT ![NewMsgId] = cb]
              /\ \A d \in Conns : Ids(d)' = IF d = registry[s] THEN Ids(d) \cup {NewMsgId}
                                            ELSE Ids(d)
<1> USE ChannelAssumption
<1>0. ChannelTypeOK
  BY DEF TransitInv, ChannelInv
<1>1. UNCHANGED <<stage, worker, registry, answers, elders>>
  BY DEF SendCommand
<1>2. \A d \in Conns : Brought(d)' = Brought(d) /\ Increasing(answers'[d])
  BY <1>1 DEF Brought, TransitInv, Orderly, InOrder
<1>3. CASE registry[s] = NoConn
  <2>1. UNCHANGED <<todo, lastId, asker>>
    BY <1>3 DEF SendCommand, Send
  <2>2. Orderly' /\ \A d \in Conns : Ids(d)' = Ids(d)
    BY <2>1, <1>1, SameIds
  <2>3. Placed'
    BY <2>2, <1>1, <1>2, SameHandlers DEF Holds
  <2> QED
    BY <2>1, <2>2, <2>3, <1>2, <1>3
<1>4. CASE registry[s] # NoConn
  <2> DEFINE r == registry[s]
             new == NewMsgId
  <2>1. r \in Conns /\ r \in Accepted(s) /\ SocketOf[r] = s
    BY <1>0, <1>4 DEF TransitInv, ChannelInv, NamesLeadToCarriers, Accepted, ChannelTypeOK
  <2>2. new \in MsgIds /\ new = lastId + 1 /\ lastId' = new /\ lastId \in Nat
    BY <1>0, <1>4 DEF SendCommand, Send, NewMsgId, MsgIds, ChannelTypeOK
  <2>3. /\ asker' = [asker EXCEPT ![new] = cb]
        /\ todo' = [todo EXCEPT ![r] = Append(todo[r], new)]
    BY <1>4 DEF SendCommand, Send
  <2>4. \A d \in Conns : Ids(d) \subseteq MsgIds /\ Waiting(d) \subseteq MsgIds
    BY <1>0, IdsAreNumbers
  <2>5. \A d \in Conns : \A m \in Ids(d) : m \in Nat /\ m < new
    <3> SUFFICES ASSUME NEW d \in Conns, NEW m \in Ids(d) PROVE m \in Nat /\ m < new
      OBVIOUS
    <3>1. m \in MsgIds /\ m <= lastId
      BY <2>4 DEF TransitInv, Orderly, Numbered
    <3> QED
      BY <3>1, <2>2 DEF MsgIds
  <2>6. \A d \in Conns : todo'[d] = IF d = r THEN Append(todo[r], new) ELSE todo[d]
    BY <2>1, <2>3, <1>0 DEF ChannelTypeOK
  <2>7. /\ ToSetOf(Append(todo[r], new)) = ToSetOf(todo[r]) \cup {new}
        /\ Increasing(Append(todo[r], new))
    <3>1. todo[r] \in Seq(MsgIds) /\ Increasing(todo[r])
      BY <2>1, <1>0 DEF ChannelTypeOK, TransitInv, Orderly, InOrder
    <3>2. \A m \in ToSetOf(todo[r]) : m < new
      BY <2>1, <2>5 DEF Ids, Waiting
    <3> QED
      BY <2>2, <3>1, <3>2, AddedOne
  <2>8. \A d \in Conns : /\ Waiting(d)' = IF d = r THEN Waiting(d) \cup {new} ELSE Waiting(d)
                         /\ Increasing(todo'[d])
    BY <2>1, <2>6, <2>7 DEF Waiting, TransitInv, Orderly, InOrder
  <2>9. \A d \in Conns : Ids(d)' = IF d = r THEN Ids(d) \cup {new} ELSE Ids(d)
    BY <2>8, <1>2 DEF Ids
  <2>10. \A d \in Conns : new \notin Ids(d)
    BY <2>5
  <2> HIDE DEF r, new
  <2>11. InOrder'
    <3> SUFFICES ASSUME NEW d \in Conns, NEW m \in Brought(d)', NEW n \in Waiting(d)'
                 PROVE  m < n
      BY <2>8, <1>2 DEF InOrder
    <3>1. m \in Brought(d) /\ m \in Ids(d)
      BY <1>2 DEF Ids
    <3>2. CASE n \in Waiting(d)
      BY <3>1, <3>2 DEF TransitInv, Orderly, InOrder
    <3>3. CASE n \notin Waiting(d)
      <4>1. n = new
        BY <3>3, <2>8
      <4> QED
        BY <4>1, <3>1, <2>5
    <3> QED
      BY <3>2, <3>3
  <2>12. OwnNumbers'
    BY <2>9, <2>10 DEF TransitInv, Orderly, OwnNumbers
  <2>13. Numbered'
    <3> SUFFICES ASSUME NEW d \in Conns, NEW m \in Ids(d)'
                 PROVE  m <= lastId' /\ asker'[m] # NoCaller
      BY DEF Numbered
    <3>1. CASE m = new
      BY <3>1, <2>2, <2>3, <1>0 DEF ChannelTypeOK
    <3>2. CASE m # new
      <4>1. m \in Ids(d)
        BY <3>2, <2>9
      <4>2. m \in Nat /\ m < new /\ asker[m] # NoCaller
        BY <4>1, <2>5 DEF TransitInv, Orderly, Numbered
      <4>3. asker'[m] = asker[m]
        BY <3>2, <4>1, <2>3, <2>4, <1>0 DEF ChannelTypeOK
      <4> QED
        BY <4>2, <4>3, <2>2
    <3> QED
      BY <3>1, <3>2
  <2>14. \A d \in Conns : r \in elders[d] => Ids(d) = {} /\ d # r /\ SocketOf[d] = s
    <3> SUFFICES ASSUME NEW d \in Conns, r \in elders[d]
                 PROVE  Ids(d) = {} /\ d # r /\ SocketOf[d] = s
      OBVIOUS
    <3>1. r \in Accepted(SocketOf[d]) \ {d}
      BY DEF TransitInv, Placed, EldersAccepted
    <3>2. SocketOf[d] = s
      BY <2>1, <3>1 DEF Accepted
    <3>3. registry[SocketOf[d]] \in elders[d]
      BY <3>2 DEF r
    <3> QED
      BY <3>1, <3>2, <3>3 DEF TransitInv, Placed, RegisteredLast
  <2>15. EldersFirst'
    <3> SUFFICES ASSUME NEW d \in Conns, NEW e \in elders'[d], NEW m \in Ids(e)', NEW n \in Ids(d)'
                 PROVE  m < n
      BY DEF EldersFirst
    <3>1. e \in elders[d] /\ e \in Conns
      BY <1>0, <1>1 DEF ChannelTypeOK
    <3>2. CASE e = r
      <4>1. Ids(d)' = {}
        BY <3>1, <3>2, <2>9, <2>14
      <4> QED
        BY <4>1
    <3>3. CASE e # r
      <4>1. m \in Ids(e)
        BY <3>1, <3>3, <2>9
      <4>2. CASE n = new
        BY <4>1, <4>2, <3>1, <2>5
      <4>3. CASE n # new
        <5>1. n \in Ids(d)
          BY <4>3, <2>9
        <5> QED
          BY <5>1, <4>1, <3>1 DEF TransitInv, Orderly, EldersFirst
      <4> QED
        BY <4>2, <4>3
    <3> QED
      BY <3>2, <3>3
  <2>16. \A t \in Sockets : Accepted(t)' = Accepted(t)
    BY <1>1 DEF Accepted
  <2>17. OnlyAccepted'
    <3>1. stage[r] \in {"open", "dead"}
      BY <2>1 DEF Accepted, r
    <3> QED
      BY <3>1, <2>9, <1>1, <1>2 DEF TransitInv, Placed, OnlyAccepted
  <2>18. EldersAccepted'
    BY <2>16, <1>1 DEF TransitInv, Placed, EldersAccepted
  <2>19. RegisteredLast'
    <3> SUFFICES ASSUME NEW d \in Conns, registry'[SocketOf[d]] \in elders'[d]
                 PROVE  Ids(d)' = {}
      BY DEF RegisteredLast
    <3>1. registry[SocketOf[d]] \in elders[d] /\ Ids(d) = {}
      BY <1>1 DEF TransitInv, Placed, RegisteredLast
    <3>2. d # r
      <4>1. CASE d = r
        <5>1. r \in elders[r]
          BY <4>1, <3>1, <2>1 DEF r
        <5> QED
          BY <5>1, <2>14, <4>1
      <4> QED
        BY <4>1
    <3> QED
      BY <3>1, <3>2, <2>9
  <2>20. LivingLast'
    BY <1>1, <1>2 DEF TransitInv, Placed, LivingLast, Holds
  <2> QED
    BY <2>2, <2>3, <2>9, <2>11, <2>12, <2>13, <2>15, <2>17, <2>18, <2>19, <2>20, <1>2, <1>4
    DEF Orderly, Placed, r, new
<1> QED
  BY <1>3, <1>4

\* An answer that is taken is the first of its socket.
LEMMA TakeTransit ==
  ASSUME TransitInv, NEW c \in Conns, TakeAnswer(c),
         \/ asker' = asker
         \/ asker' = Erased(Head(answers[c]))
  PROVE  /\ Orderly' /\ Placed'
         /\ Head(answers[c]) \in Brought(c)
         /\ \A d \in Conns : /\ Ids(d)' \subseteq Ids(d) \ {Head(answers[c])}
                             /\ Brought(d)' \subseteq Brought(d)
                             /\ Waiting(d)' = Waiting(d)
         /\ \A d \in Conns : SocketOf[d] = SocketOf[c] =>
              \A m \in Brought(d)' : Head(answers[c]) < m
<1> USE ChannelAssumption
<1> DEFINE first == Head(answers[c])
<1>0. ChannelTypeOK
  BY DEF TransitInv, ChannelInv
<1>1. UNCHANGED <<stage, worker, registry, todo, lastId, elders>>
  BY DEF TakeAnswer
<1>2. \A d \in Conns : answers'[d] = IF d = c THEN Tail(answers[c]) ELSE answers[d]
  BY <1>0 DEF TakeAnswer, ChannelTypeOK
<1>3. /\ answers[c] \in Seq(MsgIds) /\ answers[c] # <<>> /\ Increasing(answers[c])
      /\ stage[c] = "open"
  BY <1>0 DEF TakeAnswer, ChannelTypeOK, TransitInv, Orderly, InOrder
<1>4. /\ first \in MsgIds /\ ToSetOf(answers[c]) = {first} \cup ToSetOf(Tail(answers[c]))
      /\ Increasing(Tail(answers[c])) /\ \A m \in ToSetOf(Tail(answers[c])) : first < m
  BY <1>3, TakenOne
<1>5. /\ Brought(c) = {first} \cup Brought(c)' /\ \A m \in Brought(c)' : first < m
      /\ \A d \in Conns : d # c => Brought(d)' = Brought(d)
  BY <1>2, <1>4 DEF Brought
<1>6. \A d \in Conns : Waiting(d)' = Waiting(d)
  BY <1>1 DEF Waiting
<1>7. \A d \in Conns : Increasing(todo'[d]) /\ Increasing(answers'[d])
  BY <1>1, <1>2, <1>4 DEF TransitInv, Orderly, InOrder
<1> HIDE DEF first
<1>8. \A d \in Conns : first \notin Ids(d)'
  <2> SUFFICES ASSUME NEW d \in Conns PROVE first \notin Ids(d)'
    OBVIOUS
  <2>1. CASE d = c
    <3>1. first \notin Brought(c)'
      BY <1>4, <1>5 DEF MsgIds
    <3>2. first \notin Waiting(c)
      BY <1>4, <1>5 DEF MsgIds, TransitInv, Orderly, InOrder
    <3> QED
      BY <2>1, <3>1, <3>2, <1>6 DEF Ids
  <2>2. CASE d # c
    <3>1. first \in Ids(c)
      BY <1>5 DEF Ids
    <3> QED
      BY <2>2, <3>1, <1>5, <1>6 DEF Ids, TransitInv, Orderly, OwnNumbers
  <2> QED
    BY <2>1, <2>2
<1>9. \A d \in Conns : Ids(d)' \subseteq Ids(d) /\ Brought(d)' \subseteq Brought(d)
  BY <1>5, <1>6 DEF Ids
<1>10. \A d \in Conns : \A m \in Ids(d)' : asker'[m] = asker[m]
  <2> SUFFICES ASSUME NEW d \in Conns, NEW m \in Ids(d)' PROVE asker'[m] = asker[m]
    OBVIOUS
  <2>1. m \in MsgIds /\ m # first
    BY <1>0, <1>8, <1>9, IdsAreNumbers
  <2>2. CASE asker' = Erased(first)
    BY <2>1, <2>2, <1>0 DEF Erased, ChannelTypeOK
  <2> QED
    BY <2>2 DEF first
<1>11. \A d \in Conns : elders'[d] = elders[d] /\ elders[d] \subseteq Conns
  BY <1>0, <1>1 DEF ChannelTypeOK
<1>12. Orderly'
  BY <1>1, <1>6, <1>7, <1>9, <1>10, <1>11, FewerIds
<1>13. Placed'
  BY <1>1, <1>9, SameHandlers DEF Holds
<1>14. ASSUME NEW d \in Conns, SocketOf[d] = SocketOf[c], NEW m \in Brought(d)'
       PROVE  first < m
  <2>1. CASE d = c
    BY <2>1, <1>5
  <2>2. CASE d # c
    <3>1. m \in Brought(d)
      BY <1>9
    <3>2. answers[d] # <<>>
      BY <3>1, NothingInOrder DEF Brought
    <3>3. d \notin elders[c]
      BY <3>2 DEF TakeAnswer
    <3>4. c \in Accepted(SocketOf[c]) /\ d \in Accepted(SocketOf[c])
      BY <1>3, <1>14, <3>1 DEF Accepted, TransitInv, Placed, OnlyAccepted
    <3>5. c \in elders[d]
      BY <2>2, <3>3, <3>4 DEF TransitInv, Placed, EldersAccepted
    <3>6. first \in Ids(c) /\ m \in Ids(d)
      BY <3>1, <1>5 DEF Ids
    <3> QED
      BY <3>5, <3>6 DEF TransitInv, Orderly, EldersFirst
  <2> QED
    BY <2>1, <2>2
<1> QED
  BY <1>5, <1>6, <1>8, <1>9, <1>12, <1>13, <1>14 DEF first

LEMMA TransitStep == ASSUME TransitInv, [ChannelNext]_channelVars PROVE TransitInv'
<1>1. ChannelInv'
  BY ChannelStep DEF TransitInv
<1> SUFFICES Orderly' /\ Placed'
  BY <1>1 DEF TransitInv
<1>3. ASSUME NEW s \in Sockets, WorkerDies(s) PROVE Orderly' /\ Placed'
  <2>1. Orderly' /\ \A c \in Conns : Ids(c)' = Ids(c) /\ Brought(c)' = Brought(c)
    BY <1>3, SameIds DEF WorkerDies
  <2>2. \A c \in Conns : Holds(c)' => Holds(c)
    BY <1>3, ChannelAssumption DEF WorkerDies, Holds, TransitInv, ChannelInv, ChannelTypeOK
  <2> QED
    BY <1>3, <2>1, <2>2, SameHandlers DEF WorkerDies
<1>4. CASE Workers
  BY <1>3, <1>4, ConnectTransit, ExecuteTransit DEF Workers
<1>5. ASSUME NEW c \in Conns, SendDataToUXCallback(c) \/ AnswerUndecodable(c)
      PROVE  Orderly' /\ Placed'
  BY <1>5, TakeTransit DEF SendDataToUXCallback, AnswerUndecodable
<1>6. CASE Loop
  BY <1>5, <1>6, AcceptTransit, CarrierFailsTransit, DeleteTransit DEF Loop
<1>7. ASSUME UNCHANGED <<stage, worker, registry, todo, answers, lastId, asker, elders>>
      PROVE  Orderly' /\ Placed'
  <2>1. Orderly' /\ \A c \in Conns : Ids(c)' = Ids(c) /\ Brought(c)' = Brought(c)
    BY <1>7, SameIds
  <2> QED
    BY <1>7, <2>1, SameHandlers DEF Holds
<1>8. CASE Callers
  BY <1>7, <1>8, SendTransit DEF Callers, UnRegisterSystemCommandCallback
<1>9. CASE UNCHANGED channelVars
  BY <1>7, <1>9 DEF channelVars
<1> QED
  BY <1>4, <1>6, <1>8, <1>9 DEF ChannelNext

LEMMA TransitSpec == Spec => []TransitInv
<1>1. TransitInv /\ [Next]_vars => TransitInv'
  <2> SUFFICES ASSUME TransitInv, [Next]_vars PROVE TransitInv'
    OBVIOUS
  <2>1. [ChannelNext]_channelVars
    BY StepsOfTheChannel DEF vars
  <2> QED
    BY <2>1, TransitStep
<1> QED
  BY <1>1, InitTransit, PTL DEF Spec

LEMMA PlacesOfIds ==
  ASSUME TransitInv, NEW c \in Conns, NEW i \in MsgIds, i \in DOMAIN (todo[c] \o answers[c])
  PROVE  LET n == Len(todo[c])
         IN /\ n \in Nat
            /\ i <= n => /\ i \in DOMAIN todo[c]
                         /\ (todo[c] \o answers[c])[i] = todo[c][i]
                         /\ todo[c][i] \in Waiting(c)
            /\ i > n => /\ i - n \in DOMAIN answers[c]
                        /\ (todo[c] \o answers[c])[i] = answers[c][i - n]
                        /\ answers[c][i - n] \in Brought(c)
<1> DEFINE n == Len(todo[c])
           both == todo[c] \o answers[c]
<1>1. todo[c] \in Seq(MsgIds) /\ answers[c] \in Seq(MsgIds)
  BY DEF TransitInv, ChannelInv, ChannelTypeOK
<1>2. /\ n \in Nat /\ Len(answers[c]) \in Nat /\ i \in Nat
      /\ DOMAIN todo[c] = 1 .. n /\ DOMAIN answers[c] = 1 .. Len(answers[c])
  BY <1>1 DEF MsgIds
<1>3. /\ DOMAIN both = 1 .. n + Len(answers[c])
      /\ \A j \in 1 .. n + Len(answers[c]) :
           both[j] = IF j <= n THEN todo[c][j] ELSE answers[c][j - n]
  <2>1. /\ both \in Seq(MsgIds) /\ Len(both) = n + Len(answers[c])
        /\ \A j \in 1 .. n + Len(answers[c]) :
             both[j] = IF j <= n THEN todo[c][j] ELSE answers[c][j - n]
    BY <1>1, ConcatProperties, Zenon
  <2>2. DOMAIN both = 1 .. Len(both)
    BY <2>1
  <2> QED
    BY <2>1, <2>2
<1>4. i \in 1 .. n + Len(answers[c])
  BY <1>3
<1> HIDE DEF n, both
<1> SUFFICES /\ n \in Nat
             /\ i <= n => /\ i \in DOMAIN todo[c] /\ both[i] = todo[c][i]
                          /\ todo[c][i] \in Waiting(c)
             /\ i > n => /\ i - n \in DOMAIN answers[c] /\ both[i] = answers[c][i - n]
                         /\ answers[c][i - n] \in Brought(c)
  BY DEF n, both
<1>5. CASE i <= n
  <2>1. i \in DOMAIN todo[c] /\ ~(i > n)
    BY <1>2, <1>4, <1>5
  <2> QED
    BY <2>1, <1>2, <1>3, <1>4, <1>5 DEF Waiting, ToSetOf
<1>6. CASE i > n
  <2>1. i - n \in DOMAIN answers[c] /\ ~(i <= n)
    BY <1>2, <1>4, <1>6
  <2> QED
    BY <2>1, <1>2, <1>3, <1>4, <1>6 DEF Brought, ToSetOf
<1> QED
  BY <1>2, <1>5, <1>6

\* A command on its way, or its answer, is in one place only, was numbered by
\* the manager and has its asker on record, whatever workers die, come back
\* and share a socket, and whatever is lost (SendUXThreadCommand,
\* SendDataToUXCallback).
THEOREM TransitTheorem == Spec => []TransitOnRecord
<1>1. TransitInv => TransitOnRecord
  <2> SUFFICES ASSUME TransitInv PROVE TransitOnRecord
    OBVIOUS
  <2>1. \A id \in InTransit : id <= lastId /\ asker[id] # NoCaller
    <3> SUFFICES ASSUME NEW c \in Conns, NEW id \in Ids(c)
                 PROVE  id <= lastId /\ asker[id] # NoCaller
      BY DEF InTransit, Ids, Waiting, Brought
    <3> QED
      BY DEF TransitInv, Orderly, Numbered
  <2>2. ASSUME NEW c \in Conns, NEW d \in Conns, NEW i \in MsgIds, NEW j \in MsgIds,
               i \in DOMAIN (todo[c] \o answers[c]), j \in DOMAIN (todo[d] \o answers[d]),
               (todo[c] \o answers[c])[i] = (todo[d] \o answers[d])[j]
        PROVE  c = d /\ i = j
    <3> DEFINE n == Len(todo[c])
    <3>1. (todo[c] \o answers[c])[i] \in Ids(c) /\ i \in Nat /\ j \in Nat
      <4>1. i \in Nat /\ j \in Nat /\ Len(todo[c]) \in Nat
        BY <2>2, PlacesOfIds DEF MsgIds
      <4>2. i <= Len(todo[c]) \/ i > Len(todo[c])
        BY <4>1
      <4> QED
        BY <4>1, <4>2, <2>2, PlacesOfIds DEF Ids
    <3>2. (todo[d] \o answers[d])[j] \in Ids(d)
      <4>1. j \in Nat /\ Len(todo[d]) \in Nat
        BY <2>2, PlacesOfIds DEF MsgIds
      <4>2. j <= Len(todo[d]) \/ j > Len(todo[d])
        BY <4>1
      <4> QED
        BY <4>2, <2>2, PlacesOfIds DEF Ids
    <3>3. c = d
      BY <2>2, <3>1, <3>2 DEF TransitInv, Orderly, OwnNumbers
    <3>4. /\ Increasing(todo[c]) /\ Increasing(answers[c])
          /\ \A a \in Brought(c), m \in Waiting(c) : a < m
      BY DEF TransitInv, Orderly, InOrder
    <3>5. n \in Nat /\ Waiting(c) \subseteq Nat /\ Brought(c) \subseteq Nat
      <4>1. ChannelTypeOK
        BY DEF TransitInv, ChannelInv
      <4> QED
        BY <4>1, <2>2, PlacesOfIds, IdsAreNumbers DEF MsgIds
    <3>6. CASE i <= n /\ j <= n
      <4>1. /\ i \in DOMAIN todo[c] /\ j \in DOMAIN todo[c] /\ todo[c][i] = todo[c][j]
            /\ todo[c][i] \in Nat
        BY <3>3, <3>5, <3>6, <2>2, PlacesOfIds
      <4>2. ~(i < j) /\ ~(j < i)
        BY <4>1, <3>4 DEF Increasing
      <4> QED
        BY <4>2, <3>1, <3>3
    <3>7. CASE i > n /\ j > n
      <4>1. /\ i - n \in DOMAIN answers[c] /\ j - n \in DOMAIN answers[c]
            /\ answers[c][i - n] = answers[c][j - n] /\ answers[c][i - n] \in Nat
        BY <3>3, <3>5, <3>7, <2>2, PlacesOfIds
      <4>2. ~(i - n < j - n) /\ ~(j - n < i - n)
        BY <4>1, <3>4 DEF Increasing
      <4> QED
        BY <4>2, <3>1, <3>3, <3>5
    <3>8. CASE i <= n /\ j > n
      <4>1. todo[c][i] \in Waiting(c) /\ answers[c][j - n] \in Brought(c)
            /\ todo[c][i] = answers[c][j - n]
        BY <3>3, <3>8, <2>2, PlacesOfIds
      <4> QED
        BY <4>1, <3>4, <3>5
    <3>9. CASE i > n /\ j <= n
      <4>1. todo[c][j] \in Waiting(c) /\ answers[c][i - n] \in Brought(c)
            /\ todo[c][j] = answers[c][i - n]
        BY <3>3, <3>9, <2>2, PlacesOfIds
      <4> QED
        BY <4>1, <3>4, <3>5
    <3> QED
      BY <3>1, <3>5, <3>6, <3>7, <3>8, <3>9
  <2> QED
    BY <2>1, <2>2 DEF TransitOnRecord
<1> QED
  BY <1>1, TransitSpec, PTL

(***************************************************************************)
(* The settings and their cache.  An answer may be older than a later      *)
(* write of the same setting, but then that write is still on record or    *)
(* the answer is known to be overtaken; and answers are taken in the order *)
(* of their commands.                                                      *)
(***************************************************************************)
CommandTypeOK ==
  /\ nvram \in [Keys -> Values] /\ cache \in [Keys -> Values \cup {NoValue}]
  /\ cmdTable \in [0 .. MaxMsgs -> Keys \cup {NoValue}]
  /\ command \in [MsgIds -> Writes \cup {Query}]
  /\ result \in [MsgIds -> Values \cup {NoValue}] /\ overtaken \subseteq MsgIds
  /\ msgId \in 0 .. MaxMsgs /\ address \in BOOLEAN

Purposes ==
  \A c \in Conns : \A m \in Ids(c) :
    \/ /\ command[m] \in Writes /\ asker[m] = NVRam
       /\ cmdTable[m] = command[m].key /\ SocketOf[c] = System
    \/ command[m] = Query /\ asker[m] = Timer

NothingAhead == \A m \in MsgIds : m > lastId => cmdTable[m] = NoValue /\ command[m] = Query

Fresh ==
  \A c \in Conns : \A m \in Brought(c) :
    command[m] \in Writes =>
      \/ result[m] = nvram[command[m].key] \/ m \in overtaken
      \/ \E n \in MsgIds : n > m /\ cmdTable[n] = command[m].key

\* What a step may do to a setting that is cached with its value.
Parting ==
  \A k \in Keys : Follows(k) /\ ~Follows(k)'
    => \E id \in overtaken : cmdTable[id] = k /\ cmdTable'[id] = NoValue

CommandsInv == TransitInv /\ CommandTypeOK /\ Purposes /\ NothingAhead

LEMMA SentIdIs ==
  ASSUME ChannelTypeOK, lastId < MaxMsgs
  PROVE  /\ SentId(System) \in 0 .. MaxMsgs /\ NewMsgId \in MsgIds
         /\ registry[System] = NoConn => SentId(System) = 0
         /\ registry[System] # NoConn => SentId(System) = NewMsgId /\ SentId(System) # 0
BY ChannelAssumption DEF ChannelTypeOK, SentId, NewMsgId, MsgIds

LEMMA ForgetTypes ==
  ASSUME CommandTypeOK, Forget
  PROVE  /\ command' \in [MsgIds -> Writes \cup {Query}]
         /\ result' \in [MsgIds -> Values \cup {NoValue}]
        /\ overtaken' \subseteq MsgIds
BY DEF CommandTypeOK, Forget, KeptOf

\* An answer goes to the NVRAM, to the timer, or to nobody.
LEMMA AnswerEffect ==
  ASSUME NEW c \in Conns, Answered(c)
  PROVE  \/ Called(c) = NVRam /\ OnSettingWritten(Head(answers[c]))
         \/ Called(c) = Timer /\ OnAddress
         \/ Called(c) \notin {NVRam, Timer} /\ UNCHANGED <<cache, cmdTable, timerVars>>
<1>1. CASE Called(c) = NVRam
  BY <1>1 DEF Answered
<1>2. CASE Called(c) = Timer
  BY <1>2 DEF Answered, NVRam, Timer
<1>3. CASE Called(c) # NVRam /\ Called(c) # Timer
  BY <1>3 DEF Answered
<1> QED
  BY <1>1, <1>2, <1>3

LEMMA CommandTypes ==
  ASSUME TransitInv, CommandTypeOK, [Next]_vars
  PROVE  CommandTypeOK'
<1> USE CommandsAssumption
<1>0. ChannelTypeOK
  BY DEF TransitInv, ChannelInv
<1>1. ASSUME NEW k \in Keys, NEW v \in Values, SetSync(k, v) PROVE CommandTypeOK'
  BY <1>1 DEF SetSync, CommandTypeOK, timerVars, payload
<1>2. ASSUME NEW k \in Keys, NEW v \in Values, SetAsync(k, v) PROVE CommandTypeOK'
  <2>1. lastId < MaxMsgs
    BY <1>2 DEF SetAsync, SendCommand
  <2>2. SentId(System) \in 0 .. MaxMsgs
    BY <2>1, <1>0, SentIdIs
  <2>3. [key |-> k, value |-> v] \in Writes
    BY <2>1 DEF Writes
  <2>4. cmdTable' \in [0 .. MaxMsgs -> Keys \cup {NoValue}]
    BY <1>2, <2>2 DEF SetAsync, CommandTypeOK
  <2>5. command' \in [MsgIds -> Writes \cup {Query}]
    BY <1>2, <2>3 DEF SetAsync, CommandTypeOK
  <2> QED
    BY <1>2, <2>4, <2>5 DEF SetAsync, CommandTypeOK, timerVars
<1>3. ASSUME NEW k \in Keys, Get(k) PROVE CommandTypeOK'
  BY <1>3 DEF Get, CommandTypeOK, timerVars, payload
<1>4. CASE RefreshNVRam
  <2>1. cache' \in [Keys -> Values \cup {NoValue}]
    BY <1>4 DEF RefreshNVRam, CommandTypeOK
  <2> QED
    BY <1>4, <2>1 DEF RefreshNVRam, CommandTypeOK, timerVars, payload
<1>5. CASE QueryCloudServer
  <2>1. SentId(System) \in 0 .. MaxMsgs
    BY <1>0, <1>5, SentIdIs DEF QueryCloudServer, SendCommand
  <2> QED
    BY <1>5, <2>1 DEF QueryCloudServer, QuerySent, CommandTypeOK, payload
<1>6. CASE TimerDeleted
  BY <1>6, ChannelAssumption DEF TimerDeleted, CommandTypeOK, payload
<1>7. ASSUME NEW c \in Conns, WorkerRuns(c) PROVE CommandTypeOK'
  <2> DEFINE id == Head(todo[c])
             write == command[id]
  <2>1. id \in MsgIds
    <3>1. Head(todo[c]) \in Waiting(c)
      BY <1>7, ExecuteTransit DEF WorkerRuns
    <3> QED
      BY <3>1, <1>0, IdsAreNumbers
  <2>2. write \in Writes => write.key \in Keys /\ write.value \in Values
    BY DEF Writes
  <2> HIDE DEF id
  <2>3. nvram' \in [Keys -> Values]
    BY <1>7, <2>2 DEF WorkerRuns, Write, CommandTypeOK, id
  <2>4. result' \in [MsgIds -> Values \cup {NoValue}]
    <3>1. write \in Writes => nvram'[write.key] \in Values
      BY <2>2, <2>3
    <3>2. result' = IF write \in Writes /\ id \in InTransit'
                    THEN [result EXCEPT ![id] = nvram'[write.key]] ELSE result
      BY <1>7 DEF WorkerRuns, Write, id
    <3> QED
      BY <3>1, <3>2, <2>1 DEF CommandTypeOK
  <2>5. command' \in [MsgIds -> Writes \cup {Query}]
    BY <1>7 DEF WorkerRuns, Write, KeptOf, CommandTypeOK
  <2>6. UNCHANGED <<cache, cmdTable, msgId, address>> /\ overtaken' = overtaken \cap InTransit'
    BY <1>7 DEF WorkerRuns, Write, timerVars
  <2> QED
    BY <2>3, <2>4, <2>5, <2>6 DEF CommandTypeOK
<1>8. ASSUME NEW c \in Conns, Answered(c) PROVE CommandTypeOK'
  <2> DEFINE id == Head(answers[c])
  <2>1. id \in MsgIds
    <3>1. Head(answers[c]) \in Brought(c)
      BY <1>8, TakeTransit DEF Answered, SendDataToUXCallback
    <3> QED
      BY <3>1, <1>0, IdsAreNumbers
  <2>2. id \in 0 .. MaxMsgs
    BY <2>1, ChannelAssumption DEF MsgIds
  <2>3. /\ command' \in [MsgIds -> Writes \cup {Query}]
        /\ result' \in [MsgIds -> Values \cup {NoValue}] /\ nvram' = nvram
        /\ overtaken' \subseteq MsgIds
    BY <1>8, ForgetTypes DEF Answered
  <2> HIDE DEF id
  <2>4. CASE OnSettingWritten(id)
    <3>1. result[id] \in Values \cup {NoValue}
      BY <2>1 DEF CommandTypeOK
    <3>2. cache' \in [Keys -> Values \cup {NoValue}]
      BY <2>4, <3>1 DEF OnSettingWritten, Confirmed, CommandTypeOK
    <3>3. cmdTable' \in [0 .. MaxMsgs -> Keys \cup {NoValue}]
      BY <2>4, <2>2 DEF OnSettingWritten, CommandTypeOK
    <3> QED
      BY <2>3, <2>4, <3>2, <3>3 DEF OnSettingWritten, CommandTypeOK
  <2>5. CASE OnAddress
    BY <2>3, <2>5, ChannelAssumption DEF OnAddress, CommandTypeOK
  <2>6. CASE UNCHANGED <<cache, cmdTable, timerVars>>
    BY <2>3, <2>6 DEF CommandTypeOK, timerVars
  <2>7. OnSettingWritten(id) \/ OnAddress \/ UNCHANGED <<cache, cmdTable, timerVars>>
    BY <1>8, AnswerEffect DEF id
  <2> QED
    BY <2>4, <2>5, <2>6, <2>7
<1>9. ASSUME Forget, UNCHANGED <<nvram, cache, cmdTable, timerVars>> PROVE CommandTypeOK'
  BY <1>9, ForgetTypes DEF CommandTypeOK, timerVars
<1>10. CASE UNCHANGED vars
  BY <1>10 DEF vars, userVars, payload, timerVars, CommandTypeOK
<1> QED
  BY <1>1, <1>2, <1>3, <1>4, <1>5, <1>6, <1>7, <1>8, <1>9, <1>10 DEF Next, Passing

LEMMA InitCommandTypes == Init => CommandTypeOK
<1> SUFFICES ASSUME Init PROVE CommandTypeOK
  OBVIOUS
<1>1. nvram \in [Keys -> Values] /\ cache \in [Keys -> Values \cup {NoValue}]
  <2>1. PICK v \in Values : nvram = [k \in Keys |-> v]
    BY DEF Init
  <2> QED
    BY <2>1 DEF Init
<1>2. msgId \in 0 .. MaxMsgs /\ address \in BOOLEAN
  <2>1. msgId = 0 /\ address = FALSE
    BY DEF Init
  <2>2. msgId \in 0 .. MaxMsgs
    BY <2>1, ChannelAssumption
  <2> QED
    BY <2>1, <2>2
<1> QED
  BY <1>1, <1>2 DEF Init, CommandTypeOK

\* The numbers, the tables and the cache stay in their domains.
THEOREM CommandsTyped == Spec => []TypeOK
<1>1. CommandTypeOK /\ TransitInv /\ [Next]_vars => CommandTypeOK'
  BY CommandTypes
<1>2. TransitInv /\ CommandTypeOK => TypeOK
  BY DEF TypeOK, CommandTypeOK, TransitInv, ChannelInv
<1> QED
  BY <1>1, <1>2, InitCommandTypes, TransitSpec, PTL DEF Spec

(***************************************************************************)
(* What a command is for                                                   *)
(***************************************************************************)
LEMMA InTransitNext ==
  ASSUME ChannelTypeOK', NEW c \in Conns
  PROVE  Ids(c)' \subseteq MsgIds /\ Ids(c)' \subseteq InTransit'
<1>1. todo'[c] \in Seq(MsgIds) /\ answers'[c] \in Seq(MsgIds)
  BY DEF ChannelTypeOK
<1>2. Ids(c)' \subseteq MsgIds
  BY <1>1 DEF Ids, Waiting, Brought, ToSetOf
<1>3. Ids(c)' \subseteq InTransit'
  BY DEF InTransit, Ids, Waiting, Brought
<1> QED
  BY <1>2, <1>3

\* What is forgotten belongs to numbers that are no longer under way.
LEMMA ForgetKeeps ==
  ASSUME ChannelTypeOK', Forget
  PROVE  /\ \A c \in Conns : \A m \in Ids(c)' : command'[m] = command[m] /\ result'[m] = result[m]
         /\ \A c \in Conns : Ids(c)' \cap overtaken \subseteq overtaken'
         /\ \A m \in MsgIds : command[m] = Query => command'[m] = Query
<1>1. \A c \in Conns : \A m \in Ids(c)' : m \in MsgIds /\ m \in InTransit'
  BY InTransitNext
<1> QED
  BY <1>1 DEF Forget, KeptOf

\* Steps of the channel that lose something or nothing.
LEMMA PassingKeeps ==
  ASSUME CommandsInv, ChannelTypeOK', Forget, UNCHANGED <<nvram, cache, cmdTable, lastId>>,
         \A c \in Conns : Ids(c)' \subseteq Ids(c) /\ Brought(c)' \subseteq Brought(c),
         \A c \in Conns : \A m \in Ids(c)' : asker'[m] = asker[m]
  PROVE  /\ Purposes' /\ NothingAhead'
         /\ Fresh => Fresh'
<1>1. /\ \A c \in Conns : \A m \in Ids(c)' : command'[m] = command[m] /\ result'[m] = result[m]
      /\ \A c \in Conns : Ids(c)' \cap overtaken \subseteq overtaken'
  BY ForgetKeeps
<1>2. Purposes'
  BY <1>1 DEF CommandsInv, Purposes
<1>3. NothingAhead'
  BY ForgetKeeps DEF CommandsInv, NothingAhead
<1>4. Fresh => Fresh'
  <2> SUFFICES ASSUME Fresh, NEW c \in Conns, NEW m \in Brought(c)', command'[m] \in Writes
               PROVE  \/ result'[m] = nvram'[command'[m].key] \/ m \in overtaken'
                      \/ \E n \in MsgIds : n > m /\ cmdTable'[n] = command'[m].key
    BY DEF Fresh
  <2>1. m \in Brought(c) /\ m \in Ids(c)'
    BY DEF Ids
  <2>2. command'[m] = command[m] /\ result'[m] = result[m]
    BY <2>1, <1>1
  <2>3. m \in overtaken => m \in overtaken'
    BY <2>1, <1>1
  <2> QED
    BY <2>1, <2>2, <2>3 DEF Fresh
<1> QED
  BY <1>2, <1>3, <1>4

\* The channel as it was.
LEMMA ChannelSame ==
  ASSUME UNCHANGED channelVars
  PROVE  /\ UNCHANGED <<lastId, asker, SocketOf>>
         /\ \A c \in Conns : Ids(c)' = Ids(c) /\ Brought(c)' = Brought(c)
BY DEF channelVars, Ids, Waiting, Brought

\* The keys of the writes are settings.
LEMMA KeysOfWrites ==
  ASSUME NEW w \in Writes
  PROVE  w.key \in Keys /\ w.key # NoValue /\ w.value \in Values
         /\ w # Query
BY CommandsAssumption DEF Writes, Query

PassingOne ==
  \/ \E c \in Conns : \/ Passing(AnswerUndecodable(c)) \/ Passing(Connect(c))
                       \/ Passing(Accept(c)) \/ Passing(CarrierFails(c))
  \/ \E s \in Sockets : Passing(WorkerDies(s))
  \/ Passing(DeleteDeadHandlers)

LEMMA PassingSteps ==
  ASSUME TransitInv, PassingOne
  PROVE  /\ Forget /\ UNCHANGED <<nvram, cache, cmdTable, lastId, asker>>
         /\ \A c \in Conns : Ids(c)' \subseteq Ids(c) /\ Brought(c)' \subseteq Brought(c)
<1>1. Forget /\ UNCHANGED <<nvram, cache, cmdTable>>
  BY DEF PassingOne, Passing
<1>2. UNCHANGED <<lastId, asker>>
  BY DEF PassingOne, Passing, AnswerUndecodable, TakeAnswer, Connect, Accept, CarrierFails,
         WorkerDies, DeleteDeadHandlers
<1>3. ASSUME UNCHANGED <<todo, answers>>
      PROVE  \A c \in Conns : Ids(c)' \subseteq Ids(c) /\ Brought(c)' \subseteq Brought(c)
  BY <1>3 DEF Ids, Waiting, Brought
<1>4. \A c \in Conns : Ids(c)' \subseteq Ids(c) /\ Brought(c)' \subseteq Brought(c)
  <2>1. ASSUME NEW c \in Conns, AnswerUndecodable(c)
        PROVE  \A d \in Conns : Ids(d)' \subseteq Ids(d) /\ Brought(d)' \subseteq Brought(d)
    BY <2>1, TakeTransit DEF AnswerUndecodable
  <2>2. ASSUME NEW c \in Conns, Connect(c) \/ Accept(c) PROVE UNCHANGED <<todo, answers>>
    BY <2>2 DEF Connect, Accept
  <2>3. ASSUME NEW s \in Sockets, WorkerDies(s) PROVE UNCHANGED <<todo, answers>>
    BY <2>3 DEF WorkerDies
  <2> QED
    BY <1>3, <2>1, <2>2, <2>3, CarrierFailsTransit, DeleteTransit DEF PassingOne, Passing
<1> QED
  BY <1>1, <1>2, <1>4

LEMMA PurposesStep ==
  ASSUME CommandsInv, TransitInv', [Next]_vars
  PROVE  Purposes' /\ NothingAhead'
<1> USE CommandsAssumption
<1>0. ChannelTypeOK /\ ChannelTypeOK' /\ lastId \in Nat
  BY DEF CommandsInv, TransitInv, ChannelInv, ChannelTypeOK
<1>1. ASSUME UNCHANGED <<channelVars, cmdTable, command>> PROVE Purposes' /\ NothingAhead'
  BY <1>1, ChannelSame DEF CommandsInv, Purposes, NothingAhead
<1>2. ASSUME NEW k \in Keys, NEW v \in Values, SetAsync(k, v) PROVE Purposes' /\ NothingAhead'
  <2>1. lastId < MaxMsgs /\ SendCommand(System, NVRam)
    BY <1>2 DEF SetAsync, SendCommand
  <2>2. /\ NewMsgId \in MsgIds
        /\ registry[System] = NoConn => SentId(System) = 0
        /\ registry[System] # NoConn => SentId(System) = NewMsgId /\ SentId(System) # 0
    BY <2>1, <1>0, SentIdIs
  <2>3. CASE registry[System] = NoConn
    <3>1. UNCHANGED <<lastId, asker>> /\ \A c \in Conns : Ids(c)' = Ids(c)
      BY <2>1, <2>3, SendTransit DEF CommandsInv
    <3>2. command' = command /\ \A m \in MsgIds : cmdTable'[m] = cmdTable[m]
      BY <1>2, <2>2, <2>3 DEF SetAsync, CommandsInv, CommandTypeOK, MsgIds
    <3>3. \A c \in Conns : Ids(c) \subseteq MsgIds
      BY <1>0, IdsAreNumbers
    <3> QED
      BY <3>1, <3>2, <3>3 DEF CommandsInv, Purposes, NothingAhead
  <2>4. CASE registry[System] # NoConn
    <3> DEFINE new == NewMsgId
               write == [key |-> k, value |-> v]
    <3>1. /\ new \in MsgIds /\ lastId' = new /\ asker' = [asker EXCEPT ![new] = NVRam]
          /\ \A c \in Conns : Ids(c)' = IF c = registry[System] THEN Ids(c) \cup {new} ELSE Ids(c)
      BY <2>1, <2>4, SendTransit DEF CommandsInv
    <3>2. \A m \in MsgIds : /\ cmdTable'[m] = IF m = new THEN k ELSE cmdTable[m]
                            /\ command'[m] = IF m = new THEN write ELSE command[m]
                            /\ asker'[m] = IF m = new THEN NVRam ELSE asker[m]
      <4>1. /\ cmdTable' = [cmdTable EXCEPT ![new] = k]
            /\ command' = [command EXCEPT ![new] = write]
        BY <1>2, <2>2, <2>4 DEF SetAsync
      <4> QED
        BY <4>1, <3>1, <1>0 DEF CommandsInv, CommandTypeOK, MsgIds, ChannelTypeOK
    <3>3. write \in Writes /\ write.key = k
      BY <2>1 DEF Writes
    <3>4. registry[System] \in Conns /\ SocketOf[registry[System]] = System
      BY <1>0, <2>4 DEF CommandsInv, TransitInv, ChannelInv, NamesLeadToCarriers, Accepted,
                        ChannelTypeOK
    <3>5. new = lastId + 1
      BY DEF NewMsgId
    <3> HIDE DEF new, write
    <3>6. Purposes'
      <4> SUFFICES ASSUME NEW c \in Conns, NEW m \in Ids(c)'
                   PROVE  \/ /\ command'[m] \in Writes /\ asker'[m] = NVRam
                             /\ cmdTable'[m] = command'[m].key /\ SocketOf[c] = System
                          \/ command'[m] = Query /\ asker'[m] = Timer
        BY DEF Purposes
      <4>1. m \in MsgIds
        BY <1>0, InTransitNext
      <4>2. CASE m = new
        <5>1. c = registry[System]
          <6>1. ASSUME m \in Ids(c) PROVE FALSE
            <7>1. m <= lastId
              BY <6>1 DEF CommandsInv, TransitInv, Orderly, Numbered
            <7> QED
              BY <7>1, <4>2, <3>5, <1>0
          <6> QED
            BY <6>1, <3>1
        <5> QED
          BY <5>1, <4>1, <4>2, <3>2, <3>3, <3>4
      <4>3. CASE m # new
        <5>1. m \in Ids(c)
          BY <4>3, <3>1
        <5> QED
          BY <5>1, <4>1, <4>3, <3>2 DEF CommandsInv, Purposes
      <4> QED
        BY <4>2, <4>3
    <3>7. NothingAhead'
      <4> SUFFICES ASSUME NEW m \in MsgIds, m > lastId'
                   PROVE  cmdTable'[m] = NoValue /\ command'[m] = Query
        BY DEF NothingAhead
      <4>1. m > lastId /\ m # new
        BY <3>1, <3>5, <1>0 DEF MsgIds
      <4> QED
        BY <4>1, <3>2 DEF CommandsInv, NothingAhead
    <3> QED
      BY <3>6, <3>7
  <2> QED
    BY <2>3, <2>4
<1>3. CASE QueryCloudServer
  <2>1. lastId < MaxMsgs /\ SendCommand(System, Timer) /\ UNCHANGED <<cmdTable, command>>
    BY <1>3 DEF QueryCloudServer, SendCommand, payload
  <2>2. CASE registry[System] = NoConn
    <3>1. UNCHANGED <<lastId, asker>> /\ \A c \in Conns : Ids(c)' = Ids(c)
      BY <2>1, <2>2, SendTransit DEF CommandsInv
    <3> QED
      BY <2>1, <3>1 DEF CommandsInv, Purposes, NothingAhead
  <2>3. CASE registry[System] # NoConn
    <3> DEFINE new == NewMsgId
    <3>1. /\ new \in MsgIds /\ lastId' = new /\ asker' = [asker EXCEPT ![new] = Timer]
          /\ \A c \in Conns : Ids(c)' = IF c = registry[System] THEN Ids(c) \cup {new} ELSE Ids(c)
      BY <2>1, <2>3, SendTransit DEF CommandsInv
    <3>2. \A m \in MsgIds : asker'[m] = IF m = new THEN Timer ELSE asker[m]
      BY <3>1, <1>0 DEF ChannelTypeOK
    <3>3. new = lastId + 1
      BY DEF NewMsgId
    <3> HIDE DEF new
    <3>4. command[new] = Query
      BY <3>1, <3>3, <1>0 DEF CommandsInv, NothingAhead
    <3>5. Purposes'
      <4> SUFFICES ASSUME NEW c \in Conns, NEW m \in Ids(c)'
                   PROVE  \/ /\ command'[m] \in Writes /\ asker'[m] = NVRam
                             /\ cmdTable'[m] = command'[m].key /\ SocketOf[c] = System
                          \/ command'[m] = Query /\ asker'[m] = Timer
        BY DEF Purposes
      <4>1. m \in MsgIds
        BY <1>0, InTransitNext
      <4>2. CASE m = new
        BY <4>1, <4>2, <3>2, <3>4, <2>1
      <4>3. CASE m # new
        <5>1. m \in Ids(c)
          BY <4>3, <3>1
        <5> QED
          BY <5>1, <4>1, <4>3, <3>2, <2>1 DEF CommandsInv, Purposes
      <4> QED
        BY <4>2, <4>3
    <3>6. NothingAhead'
      <4> SUFFICES ASSUME NEW m \in MsgIds, m > lastId'
                   PROVE  cmdTable'[m] = NoValue /\ command'[m] = Query
        BY DEF NothingAhead
      <4>1. m > lastId
        BY <3>1, <3>3, <1>0 DEF MsgIds
      <4> QED
        BY <4>1, <2>1 DEF CommandsInv, NothingAhead
    <3> QED
      BY <3>5, <3>6
  <2> QED
    BY <2>2, <2>3
<1>4. CASE TimerDeleted
  <2>1. UNCHANGED <<todo, answers, lastId, asker, cmdTable, command>>
    BY <1>4 DEF TimerDeleted, UnRegisterSystemCommandCallback, payload
  <2>2. \A c \in Conns : Ids(c)' = Ids(c)
    BY <2>1 DEF Ids, Waiting, Brought
  <2> QED
    BY <2>1, <2>2 DEF CommandsInv, Purposes, NothingAhead
<1>5. ASSUME NEW c \in Conns, WorkerRuns(c) PROVE Purposes' /\ NothingAhead'
  <2>1. \A d \in Conns : Ids(d)' \subseteq Ids(d) /\ Ids(d)' \subseteq MsgIds
    BY <1>0, <1>5, ExecuteTransit, InTransitNext DEF WorkerRuns, CommandsInv
  <2>2. UNCHANGED <<lastId, asker, cmdTable>> /\ command' = KeptOf(command, Query)
    BY <1>5 DEF WorkerRuns, Write, Execute, ExecuteAndDie
  <2>3. \A m \in MsgIds : command'[m] = IF m \in InTransit' THEN command[m] ELSE Query
    BY <2>2 DEF KeptOf
  <2>4. \A d \in Conns : \A m \in Ids(d)' : command'[m] = command[m]
    <3>1. \A d \in Conns : \A m \in Ids(d)' : m \in InTransit'
      BY <1>0, InTransitNext
    <3> QED
      BY <2>1, <2>3, <3>1
  <2>5. Purposes'
    BY <2>1, <2>2, <2>4 DEF CommandsInv, Purposes
  <2>6. NothingAhead'
    BY <2>2, <2>3 DEF CommandsInv, NothingAhead
  <2> QED
    BY <2>5, <2>6
<1>6. ASSUME NEW c \in Conns, Answered(c) PROVE Purposes' /\ NothingAhead'
  <2> DEFINE id == Head(answers[c])
  <2>1. /\ id \in Brought(c)
        /\ \A d \in Conns : Ids(d)' \subseteq Ids(d) \ {id}
    BY <1>6, TakeTransit DEF Answered, SendDataToUXCallback, CommandsInv
  <2>2. asker' = [asker EXCEPT ![id] = NoCaller] /\ lastId' = lastId
    BY <1>6 DEF Answered, SendDataToUXCallback, TakeAnswer, Erased
  <2>3. id \in MsgIds /\ \A d \in Conns : Ids(d) \subseteq MsgIds
    BY <2>1, <1>0, IdsAreNumbers
  <2>4. cmdTable' = cmdTable \/ cmdTable' = [cmdTable EXCEPT ![id] = NoValue]
    <3>1. OnSettingWritten(id) => cmdTable' = [cmdTable EXCEPT ![id] = NoValue]
      BY DEF OnSettingWritten
    <3>2. OnAddress \/ UNCHANGED <<cache, cmdTable, timerVars>> => cmdTable' = cmdTable
      BY DEF OnAddress
    <3> QED
      BY <1>6, <3>1, <3>2, AnswerEffect
  <2> HIDE DEF id
  <2>5. \A m \in MsgIds : /\ m # id => cmdTable'[m] = cmdTable[m] /\ asker'[m] = asker[m]
                          /\ cmdTable[m] = NoValue => cmdTable'[m] = NoValue
    <3>1. \A m \in MsgIds : m # id => asker'[m] = asker[m]
      BY <2>2, <1>0 DEF ChannelTypeOK
    <3>2. \A m \in MsgIds : cmdTable'[m] = cmdTable[m] \/ (m = id /\ cmdTable'[m] = NoValue)
      <4>1. cmdTable \in [0 .. MaxMsgs -> Keys \cup {NoValue}] /\ MsgIds \subseteq 0 .. MaxMsgs
        BY ChannelAssumption DEF CommandsInv, CommandTypeOK, MsgIds
      <4> QED
        BY <4>1, <2>3, <2>4
    <3> QED
      BY <3>1, <3>2
  <2>6. \A d \in Conns : \A m \in Ids(d)' : command'[m] = command[m]
    BY <1>0, <1>6, ForgetKeeps DEF Answered
  <2>7. Purposes'
    <3> SUFFICES ASSUME NEW d \in Conns, NEW m \in Ids(d)'
                 PROVE  \/ /\ command'[m] \in Writes /\ asker'[m] = NVRam
                           /\ cmdTable'[m] = command'[m].key /\ SocketOf[d] = System
                        \/ command'[m] = Query /\ asker'[m] = Timer
      BY DEF Purposes
    <3>1. m \in Ids(d) /\ m # id /\ m \in MsgIds
      BY <2>1, <2>3
    <3> QED
      BY <3>1, <2>5, <2>6 DEF CommandsInv, Purposes
  <2>8. NothingAhead'
    BY <1>0, <1>6, <2>2, <2>5, ForgetKeeps DEF Answered, CommandsInv, NothingAhead
  <2> QED
    BY <2>7, <2>8
<1>7. ASSUME Forget, UNCHANGED <<nvram, cache, cmdTable, lastId>>,
             \A c \in Conns : Ids(c)' \subseteq Ids(c) /\ Brought(c)' \subseteq Brought(c),
             \A c \in Conns : \A m \in Ids(c)' : asker'[m] = asker[m]
      PROVE  Purposes' /\ NothingAhead'
  BY <1>0, <1>7, PassingKeeps
<1>8. ASSUME Next PROVE Purposes' /\ NothingAhead'
  <2>1. ASSUME NEW k \in Keys, NEW v \in Values, SetSync(k, v) \/ SetAsync(k, v)
        PROVE  Purposes' /\ NothingAhead'
    BY <2>1, <1>1, <1>2 DEF SetSync, payload
  <2>2. ASSUME (\E k \in Keys : Get(k)) \/ RefreshNVRam PROVE Purposes' /\ NothingAhead'
    BY <2>2, <1>1 DEF Get, RefreshNVRam, payload
  <2>3. ASSUME PassingOne PROVE Purposes' /\ NothingAhead'
    BY <2>3, <1>7, PassingSteps DEF CommandsInv
  <2> QED
    BY <1>8, <2>1, <2>2, <1>3, <1>4, <1>5, <1>6, <2>3 DEF Next, PassingOne
<1> QED
  BY <1>1, <1>8 DEF vars, userVars, payload

(***************************************************************************)
(* The cache                                                               *)
(***************************************************************************)
CacheInv == CommandsInv /\ Fresh

LEMMA CacheStep ==
  ASSUME CacheInv, CommandsInv', [Next]_vars
  PROVE  Fresh' /\ Parting
<1> USE CommandsAssumption
<1>0. /\ ChannelTypeOK /\ ChannelTypeOK' /\ lastId \in Nat
      /\ nvram \in [Keys -> Values] /\ cache \in [Keys -> Values \cup {NoValue}]
      /\ cmdTable \in [0 .. MaxMsgs -> Keys \cup {NoValue}]
      /\ command \in [MsgIds -> Writes \cup {Query}]
      /\ result \in [MsgIds -> Values \cup {NoValue}]
      /\ MsgIds \subseteq 0 .. MaxMsgs /\ MsgIds \subseteq Nat
  BY ChannelAssumption
  DEF CacheInv, CommandsInv, TransitInv, ChannelInv, ChannelTypeOK, CommandTypeOK, MsgIds
<1>1. \A c \in Conns : Ids(c) \subseteq MsgIds /\ Brought(c) \subseteq Ids(c)
  BY <1>0, IdsAreNumbers DEF Ids
<1>2. \A w \in Writes : w.key \in Keys /\ w.key # NoValue /\ w.value \in Values
  BY KeysOfWrites
<1>3. ASSUME UNCHANGED <<todo, answers, nvram, cmdTable, payload>> PROVE Fresh'
  <2>1. \A c \in Conns : Brought(c)' = Brought(c)
    BY <1>3 DEF Brought
  <2> QED
    BY <1>3, <2>1 DEF CacheInv, Fresh, payload
<1>4. ASSUME UNCHANGED <<nvram, cache, cmdTable>> PROVE Parting
  BY <1>4 DEF Parting, Follows
<1>5. ASSUME NEW k \in Keys, NEW v \in Values, SetSync(k, v) PROVE Fresh' /\ Parting
  <2>1. /\ UNCHANGED <<todo, answers, cmdTable, command, result>>
        /\ nvram' = [nvram EXCEPT ![k] = v] /\ cache' = [cache EXCEPT ![k] = v]
        /\ \A m \in overtaken : m \in overtaken'
        /\ \A m \in MsgIds : cmdTable[m] = k /\ result[m] \notin {NoValue, v} => m \in overtaken'
    BY <1>5 DEF SetSync, channelVars
  <2>2. \A c \in Conns : Brought(c)' = Brought(c)
    BY <2>1 DEF Brought
  <2>3. nvram'[k] = v /\ \A l \in Keys : l # k => nvram'[l] = nvram[l] /\ cache'[l] = cache[l]
    BY <2>1, <1>0
  <2>4. Fresh'
    <3> SUFFICES ASSUME NEW c \in Conns, NEW m \in Brought(c), command[m] \in Writes
                 PROVE  \/ result[m] = nvram'[command[m].key] \/ m \in overtaken'
                        \/ \E n \in MsgIds : n > m /\ cmdTable[n] = command[m].key
      BY <2>1, <2>2 DEF Fresh
    <3>1. \/ result[m] = nvram[command[m].key] \/ m \in overtaken
          \/ \E n \in MsgIds : n > m /\ cmdTable[n] = command[m].key
      BY DEF CacheInv, Fresh
    <3>2. command[m].key \in Keys /\ m \in MsgIds
      BY <1>1, <1>2
    <3>3. CASE command[m].key # k \/ result[m] # nvram[command[m].key]
      BY <3>1, <3>2, <3>3, <2>1, <2>3
    <3>4. CASE command[m].key = k /\ result[m] = nvram[k]
      <4>1. cmdTable[m] = k
        BY <3>4, <1>1, KeysOfWrites DEF CacheInv, CommandsInv, Purposes
      <4>2. result[m] # NoValue
        BY <3>4, <1>0
      <4> QED
        BY <4>1, <4>2, <3>2, <3>4, <2>1, <2>3
    <3> QED
      BY <3>3, <3>4
  <2>5. Parting
    <3> SUFFICES ASSUME NEW l \in Keys, Follows(l) PROVE Follows(l)'
      BY DEF Parting
    <3>1. CASE l = k
      BY <3>1, <2>1, <2>3, <1>0 DEF Follows
    <3>2. CASE l # k
      BY <3>2, <2>1, <2>3 DEF Follows
    <3> QED
      BY <3>1, <3>2
  <2> QED
    BY <2>4, <2>5
<1>6. ASSUME NEW k \in Keys, NEW v \in Values, SetAsync(k, v) PROVE Fresh' /\ Parting
  <2>1. lastId < MaxMsgs /\ SendCommand(System, NVRam)
    BY <1>6 DEF SetAsync, SendCommand
  <2>2. SentId(System) = 0 \/ (SentId(System) = lastId + 1 /\ SentId(System) \in MsgIds)
    BY <2>1, <1>0, SentIdIs DEF NewMsgId
  <2>3. UNCHANGED <<nvram, cache, result, overtaken>> /\ \A c \in Conns : Brought(c)' = Brought(c)
    BY <1>6, <2>1, SendTransit DEF SetAsync, CacheInv, CommandsInv
  <2>4. \A m \in MsgIds : m <= lastId => cmdTable'[m] = cmdTable[m] /\ command'[m] = command[m]
    <3>1. cmdTable' = [cmdTable EXCEPT ![SentId(System)] = k]
      BY <1>6 DEF SetAsync
    <3>2. command' = command \/ command' = [command EXCEPT ![SentId(System)] = [key |-> k, value |-> v]]
      BY <1>6 DEF SetAsync
    <3>3. \A m \in MsgIds : m <= lastId => m # SentId(System)
      BY <2>2, <1>0 DEF MsgIds
    <3> QED
      BY <3>1, <3>2, <3>3, <1>0
  <2>5. \A m \in MsgIds : cmdTable[m] # NoValue => cmdTable'[m] = cmdTable[m]
    <3> SUFFICES ASSUME NEW m \in MsgIds, cmdTable[m] # NoValue PROVE m <= lastId
      BY <2>4
    <3>1. ~(m > lastId)
      BY DEF CacheInv, CommandsInv, NothingAhead
    <3> QED
      BY <3>1, <1>0
  <2>6. Fresh'
    <3> SUFFICES ASSUME NEW c \in Conns, NEW m \in Brought(c), command'[m] \in Writes
                 PROVE  \/ result[m] = nvram[command'[m].key] \/ m \in overtaken
                        \/ \E n \in MsgIds : n > m /\ cmdTable'[n] = command'[m].key
      BY <2>3 DEF Fresh
    <3>1. m \in MsgIds /\ m <= lastId
      BY <1>1 DEF CacheInv, CommandsInv, TransitInv, Orderly, Numbered
    <3>2. command'[m] = command[m]
      BY <3>1, <2>4
    <3>3. command[m].key # NoValue
      BY <3>2, <1>2
    <3>4. \/ result[m] = nvram[command[m].key] \/ m \in overtaken
          \/ \E n \in MsgIds : n > m /\ cmdTable[n] = command[m].key
      BY <3>2 DEF CacheInv, Fresh
    <3> QED
      BY <3>2, <3>3, <3>4, <2>5
  <2>7. Parting
    <3> SUFFICES ASSUME NEW l \in Keys, Follows(l), \A m \in MsgIds : cmdTable'[m] # l
                 PROVE  cache[l] \in {NoValue, nvram[l]}
      BY <2>3 DEF Parting, Follows
    <3>1. l # NoValue
      OBVIOUS
    <3>2. \A m \in MsgIds : cmdTable[m] # l
      BY <3>1, <2>5
    <3> QED
      BY <3>2 DEF Follows
  <2> QED
    BY <2>6, <2>7
<1>7. ASSUME (\E k \in Keys : Get(k)) \/ RefreshNVRam PROVE Fresh' /\ Parting
  <2>1. UNCHANGED <<todo, answers, nvram, cmdTable, payload>>
    BY <1>7 DEF Get, RefreshNVRam, channelVars
  <2>2. \A k \in Keys : cache'[k] \in {cache[k], nvram[k]}
    <3>1. CASE RefreshNVRam
      BY <3>1 DEF RefreshNVRam
    <3>2. ASSUME NEW k \in Keys, Get(k) PROVE \A l \in Keys : cache'[l] \in {cache[l], nvram[l]}
      BY <3>2, <1>0 DEF Get
    <3> QED
      BY <1>7, <3>1, <3>2
  <2> QED
    BY <2>1, <2>2, <1>3 DEF Parting, Follows
<1>8. CASE QueryCloudServer
  <2>1. SendCommand(System, Timer) /\ UNCHANGED <<nvram, cache, cmdTable, command, result, overtaken>>
    BY <1>8 DEF QueryCloudServer, payload
  <2>2. \A c \in Conns : Brought(c)' = Brought(c)
    BY <2>1, SendTransit DEF CacheInv, CommandsInv
  <2>3. Fresh'
    BY <2>1, <2>2 DEF CacheInv, Fresh
  <2> QED
    BY <2>1, <2>3, <1>4
<1>9. CASE TimerDeleted
  <2>1. UNCHANGED <<todo, answers, nvram, cache, cmdTable, payload>>
    BY <1>9 DEF TimerDeleted, UnRegisterSystemCommandCallback
  <2> QED
    BY <2>1, <1>3, <1>4
<1>10. CASE UNCHANGED vars
  BY <1>10, <1>3, <1>4 DEF vars, channelVars, userVars
<1>11. CASE PassingOne
  <2>1. /\ Forget /\ UNCHANGED <<nvram, cache, cmdTable, lastId, asker>>
        /\ \A c \in Conns : Ids(c)' \subseteq Ids(c) /\ Brought(c)' \subseteq Brought(c)
    BY <1>11, PassingSteps DEF CacheInv, CommandsInv
  <2> QED
    BY <1>0, <1>4, <2>1, PassingKeeps DEF CacheInv
<1>12. ASSUME NEW c \in Conns, WorkerRuns(c) PROVE Fresh' /\ Parting
  <2> DEFINE id == Head(todo[c])
             write == command[id]
  <2>1. /\ id \in Waiting(c) /\ stage[c] = "open" /\ Holds(c)
        /\ \A d \in Conns : Ids(d)' \subseteq Ids(d)
        /\ \A d \in Conns : Brought(d)' \subseteq Brought(d) \cup {id}
        /\ \A d \in Conns : d # c => Brought(d)' = Brought(d)
    BY <1>12, ExecuteTransit DEF WorkerRuns, CacheInv, CommandsInv, Execute, ExecuteAndDie
  <2>2. id \in Ids(c) /\ id \in MsgIds
    BY <2>1, <1>1 DEF Ids
  <2>3. \/ write \in Writes /\ cmdTable[id] = write.key /\ SocketOf[c] = System
        \/ write = Query
    BY <2>2 DEF CacheInv, CommandsInv, Purposes
  <2>4. UNCHANGED <<cache, cmdTable>>
    BY <1>12 DEF WorkerRuns, Write
  <2>5. \/ write \in Writes /\ nvram' = [nvram EXCEPT ![write.key] = write.value]
        \/ nvram' = nvram
    BY <1>12 DEF WorkerRuns, Write
  <2>6. /\ result' = IF write \in Writes /\ id \in InTransit'
                     THEN [result EXCEPT ![id] = nvram'[write.key]] ELSE result
        /\ command' = KeptOf(command, Query) /\ overtaken' = overtaken \cap InTransit'
    BY <1>12 DEF WorkerRuns, Write
  <2>7. \A d \in Conns : \A m \in Ids(d)' : m \in MsgIds /\ m \in InTransit' /\ command'[m] = command[m]
    BY <1>0, <2>6, InTransitNext DEF KeptOf
  <2>8. \A k \in Keys : (\A m \in MsgIds : cmdTable[m] # k) => nvram'[k] = nvram[k]
    <3> SUFFICES ASSUME NEW k \in Keys, \A m \in MsgIds : cmdTable[m] # k
                 PROVE  nvram'[k] = nvram[k]
      OBVIOUS
    <3>1. write \in Writes => cmdTable[id] = write.key
      BY <2>3, KeysOfWrites
    <3>2. write \in Writes => write.key # k
      BY <3>1, <2>2
    <3> QED
      BY <3>2, <2>5, <1>0
  <2>9. Parting
    BY <2>4, <2>8 DEF Parting, Follows
  \* what is already under way on the socket was numbered before
  <2>10. \A d \in Conns : SocketOf[d] = SocketOf[c] => \A m \in Brought(d) : m < id
    <3> SUFFICES ASSUME NEW d \in Conns, SocketOf[d] = SocketOf[c], NEW m \in Brought(d)
                 PROVE  m < id
      OBVIOUS
    <3>1. CASE d = c
      BY <3>1, <2>1 DEF CacheInv, CommandsInv, TransitInv, Orderly, InOrder
    <3>2. CASE d # c
      <4>1. d \in elders[c]
        BY <3>2, <2>1 DEF CacheInv, CommandsInv, TransitInv, Placed, LivingLast
      <4>2. m \in Ids(d)
        BY <1>1
      <4> QED
        BY <4>1, <4>2, <2>2 DEF CacheInv, CommandsInv, TransitInv, Orderly, EldersFirst
    <3> QED
      BY <3>1, <3>2
  <2> HIDE DEF id
  <2>11. Fresh'
    <3> SUFFICES ASSUME NEW d \in Conns, NEW m \in Brought(d)', command'[m] \in Writes
                 PROVE  \/ result'[m] = nvram'[command'[m].key] \/ m \in overtaken'
                        \/ \E n \in MsgIds : n > m /\ cmdTable'[n] = command'[m].key
      BY DEF Fresh
    <3>1. m \in Ids(d)' /\ m \in Ids(d)
      BY <2>1 DEF Ids
    <3>2. m \in MsgIds /\ m \in InTransit' /\ command'[m] = command[m]
      BY <3>1, <2>7
    <3>3. CASE m = id
      BY <3>2, <3>3, <2>6, <1>0
    <3>4. CASE m # id
      <4>1. m \in Brought(d)
        BY <3>4, <2>1
      <4>2. \/ result[m] = nvram[command[m].key] \/ m \in overtaken
            \/ \E n \in MsgIds : n > m /\ cmdTable[n] = command[m].key
        BY <3>2, <4>1 DEF CacheInv, Fresh
      <4>3. result'[m] = result[m]
        BY <3>2, <3>4, <2>6, <1>0
      <4>4. CASE nvram'[command[m].key] = nvram[command[m].key]
        <5>1. m \in overtaken => m \in overtaken'
          BY <3>2, <2>6
        <5> QED
          BY <5>1, <4>2, <4>3, <4>4, <3>2, <2>4
      <4>5. CASE nvram'[command[m].key] # nvram[command[m].key]
        <5>1. write \in Writes /\ command[m].key = write.key
          BY <4>5, <3>2, <2>5, <1>0, <1>2
        <5>2. cmdTable[id] = command[m].key /\ SocketOf[c] = System
          BY <5>1, <2>3, KeysOfWrites
        <5>3. SocketOf[d] = System
          BY <3>1, <3>2, KeysOfWrites DEF CacheInv, CommandsInv, Purposes
        <5>4. m < id
          BY <4>1, <5>2, <5>3, <2>10
        <5>5. id > m
          BY <5>4, <3>2, <2>2, <1>0
        <5> QED
          BY <5>2, <5>5, <3>2, <2>2, <2>4
      <4> QED
        BY <4>4, <4>5
    <3> QED
      BY <3>3, <3>4
  <2> QED
    BY <2>9, <2>11
<1>13. ASSUME NEW c \in Conns, Answered(c) PROVE Fresh' /\ Parting
  <2> DEFINE id == Head(answers[c])
  <2>1. /\ id \in Brought(c) /\ nvram' = nvram
        /\ \A d \in Conns : /\ Ids(d)' \subseteq Ids(d) \ {id} /\ Brought(d)' \subseteq Brought(d)
        /\ \A d \in Conns : SocketOf[d] = SocketOf[c] => \A m \in Brought(d)' : id < m
    BY <1>13, TakeTransit DEF Answered, SendDataToUXCallback, CacheInv, CommandsInv
  <2>2. id \in Ids(c) /\ id \in MsgIds
    BY <2>1, <1>1
  <2>3. /\ \A d \in Conns : \A m \in Ids(d)' : command'[m] = command[m] /\ result'[m] = result[m]
        /\ \A d \in Conns : Ids(d)' \cap overtaken \subseteq overtaken'
    BY <1>0, <1>13, ForgetKeeps DEF Answered
  <2>4. \/ /\ asker[id] = NVRam
           /\ cache' = IF cmdTable[id] = NoValue THEN cache
                       ELSE [cache EXCEPT ![cmdTable[id]] = result[id]]
           /\ cmdTable' = [cmdTable EXCEPT ![id] = NoValue]
        \/ UNCHANGED <<cache, cmdTable>>
    <3>1. CASE Called(c) = NVRam
      <4>1. asker[id] = NVRam
        BY <3>1, ChannelAssumption DEF Called, NVRam, NoCaller
      <4>2. OnSettingWritten(id)
        BY <3>1, <1>13, AnswerEffect DEF NVRam, Timer
      <4> QED
        BY <4>1, <4>2 DEF OnSettingWritten, Confirmed
    <3>2. CASE Called(c) # NVRam
      BY <3>2, <1>13, AnswerEffect DEF OnAddress
    <3> QED
      BY <3>1, <3>2
  <2> HIDE DEF id
  <2>5. CASE UNCHANGED <<cache, cmdTable>>
    <3>1. Fresh'
      <4> SUFFICES ASSUME NEW d \in Conns, NEW m \in Brought(d)', command'[m] \in Writes
                   PROVE  \/ result'[m] = nvram'[command'[m].key] \/ m \in overtaken'
                          \/ \E n \in MsgIds : n > m /\ cmdTable'[n] = command'[m].key
        BY DEF Fresh
      <4>1. m \in Brought(d) /\ m \in Ids(d)'
        BY <2>1 DEF Ids
      <4>2. command'[m] = command[m] /\ result'[m] = result[m]
        BY <4>1, <2>3
      <4>3. m \in overtaken => m \in overtaken'
        BY <4>1, <2>3
      <4> QED
        BY <4>1, <4>2, <4>3, <2>1, <2>5 DEF CacheInv, Fresh
    <3> QED
      BY <3>1, <1>4, <2>1, <2>5
  <2>6. CASE /\ asker[id] = NVRam
             /\ cache' = IF cmdTable[id] = NoValue THEN cache
                         ELSE [cache EXCEPT ![cmdTable[id]] = result[id]]
             /\ cmdTable' = [cmdTable EXCEPT ![id] = NoValue]
    <3>1. command[id] \in Writes /\ cmdTable[id] = command[id].key /\ SocketOf[c] = System
      BY <2>2, <2>6 DEF CacheInv, CommandsInv, Purposes, NVRam, Timer
    <3>2. cmdTable[id] \in Keys /\ cmdTable[id] # NoValue
      BY <3>1, <1>0, <1>2
    <3>3. cache' = [cache EXCEPT ![cmdTable[id]] = result[id]]
      BY <3>2, <2>6
    <3>4. \A m \in MsgIds : cmdTable'[m] = IF m = id THEN NoValue ELSE cmdTable[m]
      BY <2>2, <2>6, <1>0
    <3>5. Fresh'
      <4> SUFFICES ASSUME NEW d \in Conns, NEW m \in Brought(d)', command'[m] \in Writes
                   PROVE  \/ result'[m] = nvram'[command'[m].key] \/ m \in overtaken'
                          \/ \E n \in MsgIds : n > m /\ cmdTable'[n] = command'[m].key
        BY DEF Fresh
      <4>1. m \in Brought(d) /\ m \in Ids(d)' /\ m \in Ids(d) /\ m \in MsgIds
        BY <2>1, <1>1 DEF Ids
      <4>2. command'[m] = command[m] /\ result'[m] = result[m]
        BY <4>1, <2>3
      <4>6. m \in overtaken => m \in overtaken'
        BY <4>1, <2>3
      <4>3. SocketOf[d] = System
        BY <4>1, <4>2, KeysOfWrites DEF CacheInv, CommandsInv, Purposes
      <4>4. id < m
        BY <4>3, <3>1, <2>1
      <4>5. \/ result[m] = nvram[command[m].key] \/ m \in overtaken
            \/ \E n \in MsgIds : n > m /\ cmdTable[n] = command[m].key
        BY <4>1, <4>2 DEF CacheInv, Fresh
      <4>7. ASSUME NEW n \in MsgIds, n > m, cmdTable[n] = command[m].key
            PROVE  cmdTable'[n] = command[m].key
        <5>1. n # id
          BY <4>1, <4>4, <4>7, <2>2, <1>0
        <5> QED
          BY <5>1, <4>7, <3>4
      <4> QED
        BY <4>2, <4>5, <4>6, <4>7, <2>1
    <3>6. Parting
      <4> SUFFICES ASSUME NEW k \in Keys, Follows(k), \A m \in MsgIds : cmdTable'[m] # k,
                          \A n \in overtaken : ~(cmdTable[n] = k /\ cmdTable'[n] = NoValue)
                   PROVE  cache'[k] \in {NoValue, nvram[k]}
        BY <2>1 DEF Parting, Follows
      <4>1. CASE k = cmdTable[id]
        <5>1. \A n \in MsgIds : n > id => cmdTable[n] # k
          <6> SUFFICES ASSUME NEW n \in MsgIds, n > id PROVE cmdTable[n] # k
            OBVIOUS
          <6>1. n # id
            BY <2>2, <1>0
          <6> QED
            BY <6>1, <3>4
        <5>2. id \notin overtaken
          BY <4>1, <3>4, <2>2
        <5>3. result[id] = nvram[k]
          BY <4>1, <5>1, <5>2, <3>1, <2>1 DEF CacheInv, Fresh
        <5> QED
          BY <4>1, <5>3, <3>3, <1>0
      <4>2. CASE k # cmdTable[id]
        <5>1. \A m \in MsgIds : cmdTable[m] # k
          BY <4>2, <3>4
        <5> QED
          BY <5>1, <4>2, <3>2, <3>3, <1>0 DEF Follows
      <4> QED
        BY <4>1, <4>2
    <3> QED
      BY <3>5, <3>6
  <2> QED
    BY <2>4, <2>5, <2>6
<1>14. ASSUME NEW k \in Keys, NEW v \in Values, SetSync(k, v) \/ SetAsync(k, v)
       PROVE  Fresh' /\ Parting
  BY <1>5, <1>6, <1>14
<1> QED
  BY <1>7, <1>8, <1>9, <1>10, <1>11, <1>12, <1>13, <1>14 DEF Next, PassingOne

LEMMA InitCache == Init => Purposes /\ NothingAhead /\ Fresh
<1> SUFFICES ASSUME Init PROVE Purposes /\ NothingAhead /\ Fresh
  OBVIOUS
<1>1. \A c \in Conns : Ids(c) = {} /\ Brought(c) = {}
  BY NothingInOrder DEF Init, ChannelInit, Ids, Waiting, Brought
<1>2. Purposes /\ Fresh
  BY <1>1 DEF Purposes, Fresh
<1>3. NothingAhead
  <2>1. MsgIds \subseteq 0 .. MaxMsgs
    BY ChannelAssumption DEF MsgIds
  <2> QED
    BY <2>1 DEF Init, NothingAhead
<1> QED
  BY <1>2, <1>3

\* A setting with no write on record keeps the value it really has, or none, in
\* the cache, for any number of connections, commands and settings, each written
\* in whatever way, and whatever is lost, fails or is answered late: only the
\* answer to a write that another one with bSync has overtaken parts the two
\* (NVRamCL1830::Set, Get, RefreshNVRam and OnCmdFinished).
THEOREM CacheTheorem == Spec => CacheFollowsNVRam
<1>1. CommandsInv /\ [Next]_vars /\ TransitInv' => CommandsInv'
  BY CommandTypes, PurposesStep DEF CommandsInv
<1>2. Init => CacheInv
  BY InitTransit, InitCommandTypes, InitCache DEF CacheInv, CommandsInv
<1>3. CacheInv /\ CommandsInv' /\ [Next]_vars => CacheInv'
  BY CacheStep DEF CacheInv
<1>4. CacheInv => CommandsInv
  BY DEF CacheInv
<1>5. CacheInv /\ CommandsInv' /\ [Next]_vars => [Parting]_vars
  BY CacheStep
<1>6. CacheFollowsNVRam <=> [][Parting]_vars
  BY PTL DEF CacheFollowsNVRam, Parting
<1> QED
  BY <1>1, <1>2, <1>3, <1>4, <1>5, <1>6, TransitSpec, PTL DEF Spec
=============================================================================
