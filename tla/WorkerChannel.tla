--------------------------- MODULE WorkerChannel ----------------------------
(***************************************************************************)
(* How the camera reaches its worker processes, which run shell commands   *)
(* for it: UnixDomainSocketManager (thelib/src/netio/select/               *)
(* uxdomainmanager.cpp), the acceptor and the carriers of the UNIX sockets *)
(* and the handler of what comes in (uxdomainsocketappprotocolhandler.cpp).*)
(*                                                                         *)
(* A worker process connects to its socket when it starts.  The connection *)
(* is registered under the socket's name, commands go to the one that is   *)
(* registered, and each answer is given to the object that asked, if it is *)
(* still there.  A worker may die at any time and be started again before  *)
(* the loop has seen its old connection end.                               *)
(***************************************************************************)
EXTENDS Naturals, Sequences, FiniteSets

CONSTANTS Sockets,      \* names of sockets: sock.system, sock.info
          Conns,        \* names for connections, reused when they are gone
          SocketOf,     \* _socketName of a connection
          Callbacks,    \* the objects that are ISystemCommandCallback
          MaxMsgs       \* bound: commands sent in a behaviour

NoConn == "none"
NoCaller == "nobody"

ASSUME ChannelAssumption ==
  /\ NoConn \notin Conns /\ NoCaller \notin Callbacks /\ MaxMsgs \in Nat
  /\ SocketOf \in [Conns -> Sockets]

MsgIds == 1 .. MaxMsgs

VARIABLES stage,      \* of each connection; dead: its carrier is enqueued for delete
          worker,     \* the connection the living worker of a socket holds
          registry,   \* _uxSocketProtocolMap
          todo,       \* ids of the commands on their way to a worker
          answers,    \* ids of the answers a connection brings
          lastId,     \* _uniqueMessageId
          asker,      \* _messageQueue
          callbacks,  \* _uxSocketCallbackMap
          elders,     \* of each connection: those of its socket with smaller handler ids
          crowded,    \* history: connections that have not been alone on their socket
          lossy       \* history: a command or an answer has been lost

channelVars == <<stage, worker, registry, todo, answers, lastId, asker, callbacks,
                 elders, crowded, lossy>>

Stages == {"free", "backlog", "open", "dead"}
Accepted(s) == {c \in Conns : SocketOf[c] = s /\ stage[c] \in {"open", "dead"}}
Holds(c) == worker[SocketOf[c]] = c
ToSetOf(seq) == {seq[i] : i \in DOMAIN seq}
InTransit == UNION {ToSetOf(todo[c]) \cup ToSetOf(answers[c]) : c \in Conns}

ChannelInit ==
  /\ stage = [c \in Conns |-> "free"]
  /\ worker = [s \in Sockets |-> NoConn] /\ registry = [s \in Sockets |-> NoConn]
  /\ todo = [c \in Conns |-> <<>>] /\ answers = [c \in Conns |-> <<>>]
  /\ lastId = 0 /\ asker = [m \in MsgIds |-> NoCaller]
  /\ callbacks = Callbacks
  /\ elders = [c \in Conns |-> {}] /\ crowded = {} /\ lossy = FALSE

(***************************************************************************)
(* The workers                                                             *)
(***************************************************************************)
Connect(c) ==
  /\ stage[c] = "free" /\ worker[SocketOf[c]] = NoConn
  /\ stage' = [stage EXCEPT ![c] = "backlog"]
  /\ worker' = [worker EXCEPT ![SocketOf[c]] = c]
  /\ UNCHANGED <<registry, todo, answers, lastId, asker, callbacks, elders, crowded,
                 lossy>>

WorkerDies(s) ==
  /\ worker[s] # NoConn
  /\ worker' = [worker EXCEPT ![s] = NoConn]
  /\ UNCHANGED <<stage, registry, todo, answers, lastId, asker, callbacks, elders, crowded,
                 lossy>>

\* a worker takes its commands in order and answers each
Execute(c) ==
  /\ Holds(c) /\ stage[c] = "open" /\ todo[c] # <<>>
  /\ todo' = [todo EXCEPT ![c] = Tail(@)]
  /\ answers' = [answers EXCEPT ![c] = Append(@, Head(todo[c]))]
  /\ UNCHANGED <<stage, worker, registry, lastId, asker, callbacks, elders, crowded,
                 lossy>>

\* ... or dies when it has run one and before it answers
ExecuteAndDie(c) ==
  /\ Holds(c) /\ stage[c] = "open" /\ todo[c] # <<>>
  /\ todo' = [todo EXCEPT ![c] = Tail(@)]
  /\ worker' = [worker EXCEPT ![SocketOf[c]] = NoConn]
  /\ lossy' = TRUE
  /\ UNCHANGED <<stage, registry, answers, lastId, asker, callbacks, elders, crowded>>

(***************************************************************************)
(* The acceptor and the carriers                                           *)
(***************************************************************************)
\* RegisterUXThreadProtocol refuses a name that is taken, and Accept goes on
Registered(c) == IF registry[SocketOf[c]] = NoConn
                 THEN [registry EXCEPT ![SocketOf[c]] = c] ELSE registry

Accept(c) ==
  /\ stage[c] = "backlog"
  /\ stage' = [stage EXCEPT ![c] = "open"]
  /\ registry' = Registered(c)
  /\ crowded' = IF Accepted(SocketOf[c]) = {} THEN crowded
                ELSE crowded \cup Accepted(SocketOf[c]) \cup {c}
  /\ elders' = [elders EXCEPT ![c] = Accepted(SocketOf[c])]
  /\ UNCHANGED <<worker, todo, answers, lastId, asker, callbacks, lossy>>

\* the carrier reads the end of the connection, or cannot write: OnEvent
\* returns false, and answers that were still to be read are lost
CarrierFails(c) ==
  /\ stage[c] = "open" /\ ~Holds(c)
  /\ stage' = [stage EXCEPT ![c] = "dead"]
  /\ lossy' = (lossy \/ answers[c] # <<>>)
  /\ answers' = [answers EXCEPT ![c] = <<>>]
  /\ UNCHANGED <<worker, registry, todo, lastId, asker, callbacks, elders, crowded>>

Dead == {c \in Conns : stage[c] = "dead"}

\* Slip: the destructor leaves the name registered.
AfterDestructors_NameStays == registry

\* ~UnixDomainSocketCarrier unregisters the name, whoever is registered
AfterDestructors ==
  [s \in Sockets |-> IF \E c \in Dead : SocketOf[c] = s THEN NoConn ELSE registry[s]]

DeleteDeadHandlers ==
  /\ Dead # {}
  /\ stage' = [c \in Conns |-> IF c \in Dead THEN "free" ELSE stage[c]]
  /\ registry' = AfterDestructors
  /\ lossy' = (lossy \/ \E c \in Dead : todo[c] # <<>>)
  /\ todo' = [c \in Conns |-> IF c \in Dead THEN <<>> ELSE todo[c]]
  /\ crowded' = crowded \ Dead
  /\ elders' = [c \in Conns |-> elders[c] \ Dead]
  /\ UNCHANGED <<worker, answers, lastId, asker, callbacks>>

(***************************************************************************)
(* UnixDomainSocketManager                                                 *)
(***************************************************************************)
\* Slip: a command sent in the same call gets the number of the one before.
NewMsgId_Same == IF lastId = 0 THEN 1 ELSE lastId

NewMsgId == lastId + 1

\* what the caller gets back: 0 when the socket has no connection
SentId(s) == IF registry[s] = NoConn THEN 0 ELSE NewMsgId

\* SendUXThreadCommand, SendCmdToInfoThread: a dead carrier takes commands too
Send(s, cb) ==
  IF registry[s] = NoConn
  THEN lossy' = TRUE /\ UNCHANGED <<todo, lastId, asker>>
  ELSE /\ lastId' = NewMsgId
       /\ asker' = [asker EXCEPT ![NewMsgId] = cb]
       /\ todo' = [todo EXCEPT ![registry[s]] = Append(@, NewMsgId)]
       /\ UNCHANGED lossy

SendCommand(s, cb) ==
  /\ lastId < MaxMsgs /\ cb \in callbacks
  /\ Send(s, cb)
  /\ UNCHANGED <<stage, worker, registry, answers, callbacks, elders, crowded>>

Erased(id) == [asker EXCEPT ![id] = NoCaller]

\* the loop goes through its handlers in the order of their ids, and what an
\* older connection brings was there first (bound: it fits into one read of
\* _recvBufferSize bytes)
TakeAnswer(c) ==
  /\ stage[c] = "open" /\ answers[c] # <<>>
  /\ \A d \in elders[c] : answers[d] = <<>>
  /\ answers' = [answers EXCEPT ![c] = Tail(@)]
  /\ UNCHANGED <<stage, worker, registry, todo, lastId, callbacks, elders, crowded>>

\* the object whose OnCmdFinished is called, if any
Called(c) == LET cb == asker[Head(answers[c])]
             IN IF cb \in callbacks THEN cb ELSE NoCaller

\* SystemSocket, InfoSocket: an answer whose last byte is in goes to its asker
SendDataToUXCallback(c) ==
  /\ TakeAnswer(c)
  /\ asker' = Erased(Head(answers[c]))
  /\ UNCHANGED lossy

\* SystemSocket cannot decode the answer and drops it; the entry stays
AnswerUndecodable(c) ==
  /\ TakeAnswer(c) /\ SocketOf[c] = "sock.system"
  /\ lossy' = TRUE
  /\ UNCHANGED asker

\* ~ISystemCommandCallback, of the register timer for one
UnRegisterSystemCommandCallback(cb) ==
  /\ cb \in callbacks
  /\ callbacks' = callbacks \ {cb}
  /\ UNCHANGED <<stage, worker, registry, todo, answers, lastId, asker, elders, crowded,
                 lossy>>

Workers == \/ \E c \in Conns : Connect(c) \/ Execute(c) \/ ExecuteAndDie(c)
           \/ \E s \in Sockets : WorkerDies(s)
Loop == \/ \E c \in Conns : \/ Accept(c) \/ CarrierFails(c)
                            \/ SendDataToUXCallback(c) \/ AnswerUndecodable(c)
        \/ DeleteDeadHandlers
Callers == \E cb \in Callbacks : \/ \E s \in Sockets : SendCommand(s, cb)
                                 \/ UnRegisterSystemCommandCallback(cb)

ChannelNext == Workers \/ Loop \/ Callers

\* Every variable of the channel stays in its domain.
ChannelTypeOK ==
  /\ stage \in [Conns -> Stages]
  /\ worker \in [Sockets -> Conns \cup {NoConn}]
  /\ registry \in [Sockets -> Conns \cup {NoConn}]
  /\ todo \in [Conns -> Seq(MsgIds)] /\ answers \in [Conns -> Seq(MsgIds)]
  /\ lastId \in 0 .. MaxMsgs
  /\ asker \in [MsgIds -> Callbacks \cup {NoCaller}]
  /\ callbacks \subseteq Callbacks
  /\ elders \in [Conns -> SUBSET Conns] /\ crowded \subseteq Conns
  /\ lossy \in BOOLEAN

\* A registered name leads to a carrier that still exists, so a command is
\* never handed to a destroyed one, whatever connections come and go on the
\* socket (RegisterUXThreadProtocol, ~UnixDomainSocketCarrier).
NamesLeadToCarriers ==
  \A s \in Sockets : registry[s] # NoConn => registry[s] \in Accepted(s)

\* A worker can be reached unless its connection has once shared the socket
\* with another one: only an overlap with a predecessor takes the name away.
OnlyOverlapHides ==
  \A c \in Conns : stage[c] \in {"open", "dead"} =>
    registry[SocketOf[c]] = c \/ c \in crowded

\* The names of the sockets lead to carriers that exist, and to the worker's
\* own unless an overlap of two connections has taken that name away.
NamesExact == NamesLeadToCarriers /\ OnlyOverlapHides

\* A command on its way is on record with its asker, is in one place only and
\* was numbered by this manager, so that its answer finds who asked for it.
TransitOnRecord ==
  /\ \A id \in InTransit : id <= lastId /\ asker[id] # NoCaller
  /\ \A c, d \in Conns, i, j \in MsgIds :
       LET both(x) == todo[x] \o answers[x]
       IN i \in DOMAIN both(c) /\ j \in DOMAIN both(d) /\ both(c)[i] = both(d)[j]
            => c = d /\ i = j
=============================================================================
