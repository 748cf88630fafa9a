--------------------------- MODULE WorkerCommands ---------------------------
(***************************************************************************)
(* Two users of the worker processes composed with the channel to them:    *)
(* the NVRAM (hardware/src/platform/mt7620/nvram/nvrammt7620.cpp), which   *)
(* keeps a cache of the settings and has the worker write them, and a      *)
(* service timer (qicstreamer/src/servicetimer.cpp), which has it ask for  *)
(* the address of the cloud.  The commands run outside the program: the    *)
(* settings change when a worker runs one, the cache when the answer       *)
(* arrives.                                                                *)
(***************************************************************************)
EXTENDS WorkerChannel

CONSTANTS Keys, Values    \* the settings and what they can be

NoValue == "unset"
Query == [key |-> NoValue, value |-> NoValue]    \* the curl command
NVRam == "nvram"
Timer == "timer"
System == "sock.system"

ASSUME CommandsAssumption ==
  /\ Callbacks = {NVRam, Timer} /\ System \in Sockets
  /\ NoValue \notin Values /\ Values # {} /\ NoValue \notin Keys

Writes == [key : Keys, value : Values]

VARIABLES nvram,      \* the settings themselves
          cache,      \* _nvramSetting
          cmdTable,   \* _cmdTable
          command,    \* what each command asks for ...
          result,     \* ... and the value of the setting its answer reports
          overtaken,  \* answers under way whose value has been overwritten since
          msgId,      \* _msgId of the service timer
          address     \* _wsParams.uri is known

payload == <<command, result, overtaken>>
timerVars == <<msgId, address>>
userVars == <<nvram, cache, cmdTable, payload, timerVars>>
vars == <<channelVars, userVars>>

Init ==
  /\ ChannelInit
  /\ nvram \in {[k \in Keys |-> v] : v \in Values}
  /\ cache \in {nvram, [k \in Keys |-> NoValue]}    \* RefreshNVRam may fail
  /\ cmdTable = [m \in 0 .. MaxMsgs |-> NoValue]
  /\ command = [m \in MsgIds |-> Query]
  /\ result = [m \in MsgIds |-> NoValue] /\ overtaken = {}
  /\ msgId = 0 /\ address = FALSE

(***************************************************************************)
(* The NVRAM                                                               *)
(***************************************************************************)
\* Set with a value that is in the cache changes nothing.

\* Set with bSync: the value the command prints tells whether it was written
\* (if it was not, nothing changes)
SetSync(k, v) ==
  /\ cache[k] # v
  /\ nvram' = [nvram EXCEPT ![k] = v] /\ cache' = [cache EXCEPT ![k] = v]
  /\ overtaken' = overtaken \cup {id \in MsgIds : /\ cmdTable[id] = k
                                                  /\ result[id] \notin {NoValue, v}}
  /\ UNCHANGED <<channelVars, cmdTable, command, result, timerVars>>

\* Set without: it returns true whether or not the command could be sent
SetAsync(k, v) ==
  /\ cache[k] # v
  /\ SendCommand(System, NVRam)
  /\ cmdTable' = [cmdTable EXCEPT ![SentId(System)] = k]
  /\ command' = IF SentId(System) = 0 THEN command
                ELSE [command EXCEPT ![SentId(System)] = [key |-> k, value |-> v]]
  /\ UNCHANGED <<nvram, cache, result, overtaken, timerVars>>

\* Get of a setting that is not cached
Get(k) ==
  /\ cache[k] = NoValue
  /\ cache' = [cache EXCEPT ![k] = nvram[k]]
  /\ UNCHANGED <<channelVars, nvram, cmdTable, payload, timerVars>>

RefreshNVRam ==
  /\ cache' = nvram
  /\ UNCHANGED <<channelVars, nvram, cmdTable, payload, timerVars>>

\* Slip: the cache takes the value that was asked for.
Confirmed_AsAsked(id) ==
  [cache EXCEPT ![cmdTable[id]] = command[id].value]

\* NVRamCL1830::OnCmdFinished
Confirmed(id) == [cache EXCEPT ![cmdTable[id]] = result[id]]

OnSettingWritten(id) ==
  /\ cache' = IF cmdTable[id] = NoValue THEN cache ELSE Confirmed(id)
  /\ cmdTable' = [cmdTable EXCEPT ![id] = NoValue]
  /\ UNCHANGED <<msgId, address>>

(***************************************************************************)
(* The service timer                                                       *)
(***************************************************************************)
\* Slip: the query is marked as sent even if it was not.
QuerySent_Always == IF SentId(System) = 0 THEN MaxMsgs + 1 ELSE SentId(System)

QuerySent == SentId(System)

QueryCloudServer ==
  /\ ~address /\ msgId = 0
  /\ SendCommand(System, Timer)
  /\ msgId' = QuerySent
  /\ UNCHANGED <<nvram, cache, cmdTable, payload, address>>

\* Slip: an answer without an address does not end the query.
OnAddress_OnlyValid ==
  /\ address' \in BOOLEAN /\ msgId' = IF address' THEN 0 ELSE msgId
  /\ UNCHANGED <<cache, cmdTable>>

\* ServiceTimer::OnCmdFinished: the answer may not hold an address
OnAddress ==
  /\ msgId' = 0 /\ address' \in BOOLEAN
  /\ UNCHANGED <<cache, cmdTable>>

TimerDeleted ==
  /\ UnRegisterSystemCommandCallback(Timer)
  /\ msgId' = 0
  /\ UNCHANGED <<nvram, cache, cmdTable, payload, address>>

(***************************************************************************)
(* The channel                                                             *)
(***************************************************************************)
\* what a command asks for and what its answer says go with it
KeptOf(f, nothing) == [id \in MsgIds |-> IF id \in InTransit' THEN f[id] ELSE nothing]
Forget ==
  /\ command' = KeptOf(command, Query) /\ result' = KeptOf(result, NoValue)
  /\ overtaken' = overtaken \cap InTransit'

\* the worker writes the setting, or cannot, and reports what it holds then
Write(c) ==
  LET id == Head(todo[c])
      write == command[id]
  IN /\ \/ write \in Writes /\ nvram' = [nvram EXCEPT ![write.key] = write.value]
        \/ UNCHANGED nvram
     /\ result' = IF write \in Writes /\ id \in InTransit'
                  THEN [result EXCEPT ![id] = nvram'[write.key]] ELSE result
     /\ command' = KeptOf(command, Query) /\ overtaken' = overtaken \cap InTransit'
     /\ UNCHANGED <<cache, cmdTable, timerVars>>

WorkerRuns(c) == (Execute(c) \/ ExecuteAndDie(c)) /\ Write(c)

Answered(c) ==
  /\ SendDataToUXCallback(c)
  /\ CASE Called(c) = NVRam -> OnSettingWritten(Head(answers[c]))
       [] Called(c) = Timer -> OnAddress
       [] OTHER -> UNCHANGED <<cache, cmdTable, timerVars>>
  /\ Forget
  /\ UNCHANGED nvram

\* steps of the channel that only lose commands or answers, if anything
Passing(step) == step /\ Forget /\ UNCHANGED <<nvram, cache, cmdTable, timerVars>>

Next ==
  \/ \E k \in Keys, v \in Values : SetSync(k, v) \/ SetAsync(k, v)
  \/ \E k \in Keys : Get(k)
  \/ RefreshNVRam \/ QueryCloudServer \/ TimerDeleted
  \/ \E c \in Conns : \/ WorkerRuns(c) \/ Answered(c)
                      \/ Passing(AnswerUndecodable(c))
                      \/ Passing(Connect(c)) \/ Passing(Accept(c))
                      \/ Passing(CarrierFails(c))
  \/ \E s \in Sockets : Passing(WorkerDies(s))
  \/ Passing(DeleteDeadHandlers)

Spec == Init /\ [][Next]_vars

(***************************************************************************)
(* Fairness: a worker runs the commands it has got, and the loop serves    *)
(* its sockets.  Nothing says that a worker lives or is started again.     *)
(***************************************************************************)
FairSpec ==
  /\ Spec /\ WF_vars(Passing(DeleteDeadHandlers))
  /\ \A c \in Conns : /\ WF_vars(WorkerRuns(c)) /\ WF_vars(Answered(c))
                      /\ WF_vars(Passing(Accept(c))) /\ WF_vars(Passing(CarrierFails(c)))

\* Every variable stays in its domain.
TypeOK ==
  /\ ChannelTypeOK
  /\ nvram \in [Keys -> Values] /\ cache \in [Keys -> Values \cup {NoValue}]
  /\ cmdTable \in [0 .. MaxMsgs -> Keys \cup {NoValue}]
  /\ command \in [MsgIds -> Writes \cup {Query}]
  /\ result \in [MsgIds -> Values \cup {NoValue}] /\ overtaken \subseteq MsgIds
  /\ msgId \in 0 .. MaxMsgs /\ address \in BOOLEAN

Follows(k) == (\A m \in MsgIds : cmdTable[m] # k) => cache[k] \in {NoValue, nvram[k]}

\* A setting with no write on record is cached with the value it really has,
\* whatever failed, was refreshed, answered late or written while the camera
\* waited: only the answer to a write that the camera has since overwritten
\* with bSync, which the cache takes all the same, can part the two
\* (NVRamCL1830::Set and OnCmdFinished).
CacheFollowsNVRam ==
  [][\A k \in Keys : Follows(k) /\ ~Follows(k)'
       => \E id \in overtaken : cmdTable[id] = k /\ cmdTable'[id] = NoValue]_vars

\* The timer's query ends, so that it can ask again, unless the channel has
\* lost something (QueryCloudServer sends only while _msgId is 0).
QueryEnds == msgId # 0 ~> msgId = 0 \/ lossy
=============================================================================
