# Verification of qcam

qcam is the program of a network camera: one process that captures H.264, MJPG
and sound, serves them over RTSP, RTMP, HTTP and websockets, records them,
watches for alarms, keeps a connection to a cloud service and takes commands
over a REST interface. It is built on crtmpserver (`thelib`, `common`), to which
it adds the camera (`hardware`) and its application (`applications/qicstreamer`).

This directory holds TLA+ specifications of the parts of that program whose
correctness depends on the order in which things happen, the TLC configurations
that check small instances of them, and proofs that TLAPS checks for all
instances. Paths below are relative to `src/trunk/sources`.

## 1. The system

Nearly everything runs on one thread, in the loop of `qcam/src/qcam.cpp:286`:

    while (IOHandlerManager::Pulse()) {            // select, timers, handlers
        IOHandlerManager::DeleteDeadHandlers();
        ProtocolManager::CleanupDeadProtocols();
    }

At this commit parts of the program are there but switched off, and are modelled
as they are written all the same:
- the service and register timers: `InitCloudService`, which makes them, is under
  `#if 0` (applications/qicstreamer/src/qicstreamerapplication.cpp:208-215), so the
  only timer of a cloud connection that is ever made is the air timer of a command;
- the worker processes: the handlers and threads of their UNIX domain sockets are
  commented out (qicstreamerapplication.cpp:198-205, 429-438);
- the cached NVRAM: `CreateNVRam` always makes an `NVRamX86`, a table written to a
  file (hardware/src/hardwaremanager.cpp:66-77, 519-529). `NVRamCL1830`
  (hardware/src/platform/mt7620/nvram/nvrammt7620.cpp), whose settings are written by
  a worker, is not instantiated.

What `CloudConnection` says of timers that try again, and what `WorkerChannel` and
`WorkerCommands` say, is therefore about code that runs only when these lines are
put back.

So there are no data races between the components below. What makes them hard is
that handlers run in any order, call one another, delete objects that others
point to, wait for answers that come in later rounds, and share streams whose
state one client changes for all. "Step" below is one handler's run.

| Component | State | Operations | Hard behaviour | What makes it correct |
|---|---|---|---|---|
| Frame buffer of the alarm recorder (`hardware/src/avbuffermanager.cpp`) | frames, pointers to key frames, a counter of them, free bytes | PutData, GetBufferList, Recycle, SetFileDuration | three ways to remove frames, an unbounded loop, a counter kept by hand | starts with a key frame, whole GOPs are lent, no byte lost, PutData returns |
| Alarm handler (`hardware/src/pushmediator.cpp`, `outjpgfilestream.cpp`) | state of the event, two countdowns, clip and snapshot numbers | alarms, one-second ticks, end of a clip, result of a snapshot, settings | late snapshots, files that fail, settings that change in an event | clips are opened and closed in turn, nothing is overwritten, every event ends |
| Alarm recorder (`hardware/src/mux/alarmmp4muxoutstream.cpp`) | the two above, the open file, first time stamp | FeedData, StartRecord, StopRecord | a callback changes the buffer's settings while frames are lent | clips start with a key frame, no frame is written twice |
| Timer wheel (`common/src/utils/misc/timersmanager.cpp`) | slots, periods, hand | AddTimer, RemoveTimer, TimeElapsed | callbacks change the wheel under the walk, the wheel is rebuilt, bursts | each timer fires once per period |
| Protocol stacks (`thelib/src/protocols/{baseprotocol,protocolmanager,protocolfactorymanager}.cpp`, `netio/select`) | protocols, links, carriers, dead lists | making, linking, replacing, giving up, deleting, shutting down | deletion from both ends, direct and deferred | no dangling pointer, no half stack, nothing left |
| Cloud connection (`applications/qicstreamer/src/*servicetimer.cpp`, `wsclientappprotocolhandler.cpp`, `thelib/.../outboundhttpwsprotocol.cpp`) | the timer's state, its protocol and connector, ages of ping and pong | ticks, connecting, handshake, rejection, close, commands | time-outs racing with answers, late dispatch, a clock set back | one connection at most, nobody forgotten, always another try |
| Live video (`hardware/src/mux/{basemux,avmux}stream.cpp`, `thelib/src/streaming`) | capture, stream status, key frame request, parameter sets, viewers | frames, attach, leave, pause, resume, start, stop, settings | one client's command changes the stream of all, frames with old settings | no broken pictures, fitting parameter sets, nobody waits forever |
| Stream links, RTMP sessions (`thelib/src/streaming`, `thelib/src/protocols/rtmp`) | links as two bare pointers, each connection's table of streams, files, channels | create, publish, play, close, delete, release, disconnect | either side of a link is deleted first, players before publications and after, requests that fail half-way | links are mutual and lead to streams that exist, nobody waits in vain, channels come back |
| I/O loop (`thelib/src/netio/select`) | descriptor sets, handlers, who closes a socket, made-up descriptors of timers | Pulse, Enable/Disable, Register, accept, connect, read, write | handlers that share a descriptor, made or dead in the middle of a walk | all are watched for what they wait for, sockets are closed once |
| Worker processes (`thelib/.../uxdomainmanager.cpp`, `hardware/.../nvrammt7620.cpp`) | registered names, message ids, callbacks, the NVRAM cache | commands, answers, connections that come and go | workers that die, answers that are late or lost | answers find who asked, names lead to carriers, the cache follows the settings |
| Recording (CVR, manual), relay stream, RTSP sessions | | | | not modelled (section 8) |
| Capture drivers, audio, MJPG, REST handlers, parsers, utilities, watchdog | | | | not modelled (section 8) |

How they interact: the loop runs the **timer wheel**, whose callbacks tick the
**alarm handler** and the **service timers**. The camera's device is a handler
of the loop; a frame goes to the stream of **live video** and from there to all
linked out streams, among them the **alarm recorder**, which puts it into the
**frame buffer** and tells the **alarm handler** when a clip is full. Viewers
come and go with **protocol stacks**; the **cloud connection** is such a stack
with a timer that watches it. Shell commands of the NVRAM and the timers go to
**worker processes**, whose answers come back as events of the loop. RTMP
connections keep tables of **streams** and link players to the AVMuxStream or to
one another. REST commands call into all of them.

## 2. Modules

| Module | Models | Role |
|---|---|---|
| `AVBufferList` | the frame buffer | component |
| `AlarmClips` | what the alarm handler promises | abstract specification |
| `PushMediator` | the alarm handler | component, implements `AlarmClips` |
| `ClipDuration` | the duration of a clip, which the handler sets and the buffer reads | the variable the two share |
| `AlarmRecorder` | the recorder | composition: extends `AVBufferList` and `PushMediator` |
| `AlarmRecorder_proofs` | | proofs about `AVBufferList`, `PushMediator` and `AlarmRecorder` |
| `PeriodicTimers` | what users of timers rely on | abstract specification |
| `TimersManager`, `TimersManager_proofs` | the wheel | component, implements `PeriodicTimers`; proofs |
| `ProtocolStack`, `ProtocolStack_proofs` | protocols, carriers, deletion | component and proofs |
| `CloudConnection`, `CloudConnection_proofs` | timer, connector, protocol and handler of one connection | component and proofs |
| `LiveVideo`, `LiveVideo_proofs` | capture, AVMuxStream, out streams | component and proofs |
| `WorkerChannel` | connections to the workers, names, message ids, answers | component |
| `WorkerCommands`, `WorkerCommands_proofs` | the NVRAM cache and a timer's query over that channel | composition: extends `WorkerChannel`; proofs |
| `IOLoop`, `IOLoop_proofs` | select, the walk over the handlers, descriptors | component and proofs |
| `StreamLinks` | the table of links | operators, used by `RTMPStreams` |
| `RTMPStreams`, `RTMPStreams_proofs` | the streams of RTMP connections | composition: INSTANCE of `StreamLinks`; proofs |
| `MC_*` | | constants for TLC |

`PROJECT.json` maps each definition to the lines it models. A definition whose
comment begins with `Slip:` is not part of a model: it is a plausible mistake in
the definition after it, kept to show that some property would notice.

### AVBufferList

A frame is a record of time stamp, size and whether it is a key frame. `bufList`,
`iFrameList`, `numOfKeyFrames`, `freeSize` and `fileDuration` are the fields of
the same names. PutData is several steps (`Arrive`, one `MakeRoom...` per turn
of its loop, `CheckByTimestamp`, `AppendBuffer`, `PutReturns`), so that whether
it returns is a question of liveness; `pc` says where it is. `GetBufferList`,
`Recycle` and `SetFileDuration` are one step each; between the first two the
frames are in `feed`, and that is when a callback may set the duration. The bytes
of a list of frames are a set, a pair of position and number for each byte, which
is counted: that is a sum one can reason about without recursion.

Assumed: time stamps grow; a frame and the key frame kept for it fit together
into the buffer (`SizeAssumption`) - otherwise the loop at line 98 does not end;
`startTS` is no newer than the oldest buffered frame, which `AlarmRecorder`
establishes.

### PushMediator and AlarmClips

One action per handler: `OnDeviceMessage` (and its failing form), the tick
`OnEvent` with one disjunct per path (`TickIdle`, `TickStart`, `TickBusy`,
`TickNextClip`, `TickReset`), `WriteDone` (the recorder's callback), `JPGWritten`
(the snapshot's), and the settings. `FilmClip` stands for the recorder when the
module is checked alone. `clips` and `jpgs` are history: what the event has put
on the storage. The outcome of IsHardwareReady is left out because the code
overrides it (line 205).

`AlarmClips` has two variables, the phase of the event and the clips finished;
the refinement maps NO_ALERT to idle, WRITING to open, all else to between.

### AlarmRecorder

FeedData is PutData, then, if a clip is open and the frame is video,
GetBufferList, writing, reporting a full clip to the handler, and Recycle. The
buffer and the handler share `fileDuration` (module `ClipDuration`). `clipHead` and `lastWritten` are history.
`OtherHandlers` is every step of the alarm handler that does not come from the
recorder; it cannot happen inside FeedData, there being one thread.

### TimersManager and PeriodicTimers

The wheel has as many slots as the least common multiple of all periods ever
used; a timer sits in every period-th. TimeElapsed is several steps, since
callbacks run inside it: `TimeElapsed` sets how many ticks are owed,
`ProcessTimer` calls the next timer of the slot in the order of ids, `CallReturns`
ends its callback, `NextSlot` moves on. During a callback other timers may be
added, with periods already known, and removed. A callback that removes its own
timer or adds a new period destroys what the walk stands on; no callback of the
camera does, and the model's guard says so. `BurstLimit` stands for
the 180 seconds of line 114. Only the rest of the hand modulo the wheel's length
is ever used, so it is kept modulo `IndexCycle`, a multiple of all periods. The
code's own counter wraps at 2^32, after 136 years of seconds; timers whose period
is no power of two would then be shifted once. That is beyond the model.

### ProtocolStack

A protocol is a number, `far` and `near` are its links, `carried` and `bound`
the two directions of the link to its I/O handler. A handler has the number of
the protocol it carries; one without a protocol (connector, acceptor) has a
number no protocol will get. `phase` is where the loop is: handling events,
deleting handlers, deleting protocols, or the same two for the last time in
Cleanup. Actions are the ways stacks are made (`CreateStack`, `CreateStackFails`,
`OpenSocket`, `ConnectorFails`), changed (`AddNear`, `Rebind`, `InsertFar`), given
up (`EnqueueForDelete`, `GracefullyEnqueueForDelete`, `OutputSent`,
`HandlerFails`) and deleted (`DeleteDeadHandler`, `CleanupDeadProtocol`).
The destructors are operators: `Unlinked`, `Neighbours`, `Orphan`, `Uncarried`.

Left out: the data that travels along a stack, and DeleteNearProtocol(false),
with which RTMP over HTTP keeps a chain without carrier. BindHTTP is `Rebind`
followed by `AddNear`. `Stack(p)`, what is linked to p, is written as an
intersection of closed sets rather than recursively, so that the module can be
proved about.

### CloudConnection

`service` says which of the three timers it is. `timer` has its state, tick,
protocol and connector; `conn` says for each connection how far it is, from the
connector that waits to the protocol that is enqueued for delete. A round of the
loop is `Tick` for each second that passed, `TicksDone`, any number of socket
events and commands, and `RoundEnds`, which deletes what was enqueued and lets
the destructors report to the timer. The timer's handling of a tick is a chain
of operators in the order of the code: `Ticked`, `HandleTimeout`, `GiveUp`, then
one of `TickOnly`, `TickWithoutTry`, `TickTry`.

Abstractions: times are ages, capped where nothing distinguishes larger ones;
ticks are capped at 0; `Forever` (1000) is 0x7fffffff; an uninitialised
`timerState` is any state or none; names of connections are used again, but never
the one the timer still holds. A connector that is opened in a round may be
dispatched in the same one, which the code cannot do: it allows more, and the
invariants hold all the same. A try may fail before there is a connector (the name
of the server is not found, `socket()` fails), at once (`connect()`), or later.

`MaxPause` bounds the length of a round for TLC only; the code does not bound it: a
name lookup or a shell command the camera waits for can take longer than the ten
seconds a timer waits between two tries. The ticks of such a round are made up for in
one go, so a connector is given up and the next one opened before the first is
deleted, and both can end up connected; the one the timer does not know is never
timed out. `overlong` is history: it is set by such a round and stays until a later
one ends without any connection. `OneKnownConnection`, `SilentServerDropped` and
`HandshakeEnds` except those states, and only those; that the timer's pointer leads
to a protocol that exists holds in them too. An air timer does not try again: for it
there is no exception.

### LiveVideo

A frame is a key frame or a delta frame, with the number of the settings it was
encoded with. `capture` is the device with the frames that wait in its driver;
`mux` the fields of the AVMuxStream; `viewer` the fields of each out stream and
what its far end sees: whether the picture plays, waits for a key frame, or is
broken, because a delta frame came whose predecessor did not. `cut` is history:
a pause or a full output buffer has deprived this viewer since his last key
frame. `OnDeviceData` is a whole run of OnReadEvent: the frame goes to every
linked out stream, by the rules of its type (`FedRTP`, `FedRecorder`, `FedRTMP`).
For an RTMP stream `kept` says how much of codec header and frame AllowExecution
lets through.

Assumed of what is not in the code: the encoder begins with a key frame, and
after a change of settings too, and takes them at once; the driver loses no
frame while the program reads. One simulcast stream, no sound, no relay stream,
no HLS. The result of InitVideoH264 is ignored, as the code does.

### WorkerChannel and WorkerCommands

`stage` is where each connection of a worker is: in the acceptor's backlog, open,
or dead until the loop deletes its carrier. `registry`, `asker`, `callbacks` and
`lastId` are the manager's three maps and its counter; `todo` and `answers` are
the commands and answers under way, in order. `elders` is the order of the
handlers' ids, in which the loop reads. Workers are external: `Connect`,
`Execute`, `WorkerDies`, `ExecuteAndDie` (which runs the command and loses the
answer) say what UXThread and the commands may do. `crowded` and `lossy` are
history.

`WorkerCommands` adds what two users make of it. `nvram` is what the settings
really are, changed when a worker runs a command; `cache` and `cmdTable` are the
fields of NVRamCL1830; `msgId` and `address` those of a service timer. Every setting
can be written through the worker and by a command the camera waits for: most callers
are consistent in that, but the REST command of deviceactionhandler.cpp:339 writes any
setting through the worker. `overtaken` is history: the answers under way whose value
a direct write has replaced since. The cache takes such an answer when it comes, and
with it the old value: `CacheFollowsNVRam` says that this is the only step that parts
a cached setting from the real one.
`CloudConnection` takes the answer to the timer's query as its step
`AddressKnown` and presumes that it is not lost for good; `QueryEnds` says when
that is so.

### IOLoop

A handler has a kind and one descriptor, which may also be another handler's: a
connector hands its socket to a new carrier and both live until the end of the
round; a timer has made its descriptor up. `readers` and `writers` are
`_fdState`, kept per handler; `readFds` and `writeFds` the sets built from them by
UpdateFdSets. `Select` returns any subset of what it was asked for. The walk
(`Pending`, `Event`) goes through the handlers in the order of ids, reading before
writing, visits handlers that were made meanwhile, and does not ask whether one
is dead - as the code does. What a handler may do to others while it runs are the
`Calls`: connect, give up a connector, produce output, delete a protocol, make and
drop timers. They are allowed between any two events of the walk, which is more
than the code does. Destructors close sockets at the end of a round: `Destroy`,
first of the dead handlers, then of the carriers whose protocol is deleted.
Descriptors are the lowest that is free. Every destructor that closes does so
whether or not its number is open still: after a refused connection
(tcpconnector.h:85-89) the connector closes the socket and the carrier, deleted with
its protocol, closes the same number again. `refused` and `again` are history: the
numbers of refused connections of the round, and those closed a second time.
`SocketsExact` says that nothing but a refusal does this, and that no other handler
has the number when it happens. Other threads of the process, which could open a file
between the two, are not modelled.

Both invariants that speak of sets, `LiveAreWatched` and `OutputIsWatched`, are
what makes each of the other modules' "socket events come" true.

### StreamLinks and RTMPStreams

The table of links has two parts because the code has: `feeds` is
`_linkedStreams` of the inbound streams, `feeder` is `_pInStream` of the outbound
ones. `Linked`, `UnLinked` and `Deleted` do to each part what the code does, on
the pointers it knows, so that the two agree only if the code keeps them so.

`conn[c]` is one RTMP connection: its table of streams (neutral, inbound,
outbound), the files read for its players, the publications that are recorded,
the list of signalled players and its free channels. One action per request:
`CreateStream`, `Publish`, `Play` with its three kinds of start, `CloseStream`,
`DeleteStream`, `ReleaseStream`. A connection ends in one of two ways. When a
request, an answer or the peer fails, the handler returns false and the loop gives
up the socket (`failed`): the protocol is enqueued when the carrier is deleted, at the
end of the round, and until then its streams are registered. When one of its streams
fails while it is fed, or the camera's picture changes, the protocol itself is
enqueued (`enqueued`), which takes its application away and with it the registration
of its streams (baseclientapplication.cpp:259), at once. In both cases tables and
links stay until `CleanupDead`. So the name of an enqueued publisher can be
published again while its players still hang on it. The camera's AVMuxStream is
always there; `ResolutionChanged` unlinks its players and enqueues their
connections.

Facts used: nobody has the right to override a published name; names carry no
query ("?"), so the search for long and short names is one; a player that
releaseStream finds first is left alone. Recording a publication under a name
that stands for another format fails after the stream was linked, and the
connection goes. The timers of file streams change no link.

## 3. Runs

| Run | Instance | Distinct states | Shows |
|---|---|---|---|
| `buffer` | 5 units, frames of 1 or 2, durations 3 and 5, gaps 1 and 2, time to 8 | 187,220 | bytes, key frames, pointers and their counter agree (the counter is never too low), whole GOPs are lent, PutData returns |
| `buffer_wipe` | same | | violation, see below |
| `alarm` | 2 clips, event of 7 ticks, 3 before, snapshots to 4 | 34,168 | clips in order and bounded, no snapshot overwritten, `AlarmClips`, every event ends |
| `recorder` | 4 units, time to 6, 2 clips | 1,046,856 | clips start with a key frame and nothing is written twice; both parts are used as their own specifications allow |
| `timers` | 4 timers, periods 1 to 3, pauses of 1 to 3 with a limit of 2 | 67,131 | `PeriodicTimers`: each fires once per period; timers keep firing |
| `stacks` | 4 protocols, chains to 3 | 93,498 | no dangling pointers, no half stacks and a receiver for every input, nothing left, whole stacks go |
| `cloud` | each kind of timer, 2 names, ticks 3/1/1, ping 1, expiry 2, rounds to 4 s, a jump of 2 | 219,910 | one connection, known to its timer, silent servers dropped, tries spaced, steps end, tries go on; what a round longer than the wait leaves behind, and that one known connection is what comes after |
| `live` | one viewer of each kind, 2 settings, 2 frames in the driver | 354,883 | no broken pictures, fitting parameter sets, nobody waits forever |
| `workers` | one socket, 2 connections, 2 commands, 1 setting of 2 values | 189,184 | names lead to carriers, answers to askers, the cache follows the setting, queries end unless something was lost |
| `ioloop` | an acceptor and 3 handlers, 3 descriptors, 1 timer | 1,085,494 | the live are watched, output is not forgotten, sockets are closed once, but after a refusal |
| `ioloop_timer` | same | | violation |
| `streams` | 2 connections (symmetric) of 2 streams and one player each, 2 names, one of them a file | 78,744 | mutual links to streams that exist, files with players, nobody waits in vain, channels come back |

Why these bounds are enough to be of use:
- `buffer`: two GOPs of different length fit, so there is recycling by size, by
  time, thinning inside the only GOP, and every result of GetBufferList.
- `alarm`: two clips is the shipped setting; seven ticks let an event end by its
  number of clips or by its time. The time stamps and sizes of `recorder` are
  smaller because two modules multiply.
- `timers`: 1, 2 and 3 make the wheel grow twice, once by a factor that is no
  period; four timers allow one to remove another that is ahead or behind.
- `stacks`: the shortest chain with a middle has three protocols; the fourth is
  its replacement or a second stack.
- `cloud`: only the order of the times matters (a step is shorter than the wait
  between tries; several rounds fit in each). Rounds of up to a second more than the
  wait come up, and two names are enough for a timer with two connections. While one
  is given up and the other taken, a try fails before it makes a connection, which
  it may do anyway (the name of the server is not found, there is no socket).
- `live`: each viewer is fed independently of the others; what they share is the
  stream. Two frames in the driver make "old, then new settings" possible.
- `workers`: two connections on one socket can overlap; two commands can be two
  writes of one setting, or a write and a query. Connections are used again, so
  workers may die any number of times. Direct writes are not bounded. One setting
  has all the races between its writers; that settings do not get each other's
  values is part of `CacheTheorem` (section 5).
- `ioloop`: three descriptors besides handlers that share them: two sockets and a
  connector with its carrier, or the timer's made-up descriptor on the acceptor.
  Handlers and descriptors are used again without limit.
- `streams`: two entries per connection let it publish and play, also what it
  publishes itself; one player per connection exhausts the channels. One
  connection can play from the other, whose deletion is due, and take over its name.

Deadlock is checked in all runs but `stacks`, where the program really stops, and
`workers`, where the number of commands is bounded and all connections may be idle.

### Where the code is at odds with what it says

Two runs show such a case:

- `buffer_wipe`. GetBufferList takes key frames out of `_IFrameList` but not out
  of `_numOfKeyFrames` (avbuffermanager.cpp:164). Later PutData believes it has
  several GOPs, recycles the first, and that was all: the error of line 46,
  `_videoBuf.size == 0`. The new frame is dropped as well.
- `ioloop_timer`. An IOTimer makes up its descriptor, counting from 1
  (iotimer.cpp:29). Pulse asks the sets of select for it, so a timer is called
  whenever the socket with its number is ready, and OnEvent does not look at the
  event's type: TimePeriodElapsed, "invoked by the framework when the protocol is
  enqueued for timing oprrations" (baseprotocol.h:233), runs at any time. The same
  holds of PushHandler and BaseServiceTimer, which are timers too: their seconds
  can be shorter than a second. `PushMediator` and `CloudConnection` count ticks,
  whatever their distance; what they say in seconds presumes no such collision.

Others were met while modelling. The models contain them, no run shows them:

- CanTriggerAlarm tests the schedule of `_pushInfo.eventType`
  (pushmediator.cpp:189), which still is the previous alarm's, although lines 190
  and 196 speak of the event at hand.
- Pings are timed with the wall clock (baseservicetimer.cpp:199); after it was set
  back none goes out until it has caught up, although line 198 says "Send ping to
  server every 10s".
- "server reject connection, no more trying connect"
  (wsclientappprotocolhandler.cpp:162), but the destructor of the rejected
  protocol sets WAIT_TIMEOUT (line 155), and the timer tries again.
- pushmediator.h:13 says of PRE_VIDEO_DURATION "recording immediately once alert
  triggered", but recording begins when `preDuration` has been counted down
  (pushmediator.cpp:373), which takes up to three seconds if the previous event
  has just ended.
- An RTMP client's pause stops the AVMuxStream, which all viewers and recorders
  share (baseoutstream.cpp:149); frames are thrown away until a resume, which asks
  for no key frame. RTP viewers and recorders then get delta frames whose
  references they never got, against avmuxstream.cpp:127.

## 4. Fairness

- `AVBufferList`: a call of PutData goes on; nothing is assumed of its callers.
- `PushMediator`: ticks go on because the loop does; `FilmClip` goes on because
  the camera streams and sends key frames - an event on a camera whose video has
  stopped is not promised to end.
- `TimersManager`: the loop calls TimeElapsed at least every second (the time-out
  of select), and a call, once begun, runs to its end.
- `ProtocolStack`: Pulse handles each handler at most once and returns, so the
  deletions come round. Nothing is assumed of peers: a stack closed gracefully
  whose peer never reads stays, and `WholeStackGoes` is about stacks that have
  begun to be deleted.
- `CloudConnection`: rounds go on and seconds pass (strong, because rounds
  shorter than a second may lie between); a socket that is connecting or has
  output left is reported at last, which TCP's own time-outs do; the shell command
  that asks for the server's address ends, and now and then finds it.
- `WorkerCommands`: a worker that lives runs its commands in order, and the loop
  reads answers, accepts, notices the end of a connection and deletes dead
  handlers. Nothing says that a worker lives or is started again.
- `IOLoop` and `RTMPStreams` have safety properties only.
- `LiveVideo`: a waiting frame is read (weak); a camera that streams encodes one
  key frame after the other (strong, since starting and stopping intervene), as
  its GOP length is finite.

## 5. What is proved

`tlapm` checks these for every value of the constants (assumptions: the named
ASSUMEs of the modules, which TLC evaluates in every run).

**ProtocolStack_proofs.** `StackInv` adds to the checked invariants `EachInOneMap`
(ProtocolManager knows every protocol, once), `Fresh` (numbers not given out yet
occur nowhere), `HandlersFirst` (in the phase that deletes protocols no handler
is on the dead list - this is where the order of the two calls in the loop is
used) and `GoingDown` (what each phase of Cleanup has achieved). Results:
`StackTyped`, `NoDanglingPointers` (NoDangling), `NoHalfStacks`
(WholeStacksOnly), `ShutdownComplete` (NothingLeft), for any number of protocols
and any length of chains.

**LiveVideo_proofs.** `PicturesInv`: a viewer who is linked, waits and was not
cut off is held back - an RTMP stream by `_isFirstVideoFrame`, the others by
`_requestKeyFrame` as long as the capture is on; and frames wait only in a
driver that streams. `SetsInv`: all RTP viewers who show something have the
stream's own parameter sets, and unless settings changed while frames were
waiting, those, the waiting frames and what is shown are of the current settings.
Results: `LiveTyped`, `PicturesSafe`, `SetsFit`, for any number of viewers,
settings and frames.

**WorkerCommands_proofs.** `ChannelInv` adds to the two parts of NamesExact the
type of the channel and `OverlapsMarked`: two connections that have been accepted
on one socket are both marked as crowded. That is what the destructor's step
needs, which takes the name away whoever has it: whoever loses it was not alone.
Result: `NamesTheorem`, for any number of sockets and connections. The steps of
`WorkerCommands` are steps of the channel or leave it alone, so the invariant is
proved of the channel's actions once. `TransitInv` adds that what is in transit
has its own number, given out and on record, in the order of sending, answers
before commands and older connections before younger ones (`Orderly`), and on
which connections of a socket commands and answers can be (`Placed`). Result:
`TransitTheorem`. `CommandsInv` adds what each command in transit is for, and
`CacheInv` that an answer brings the setting's own value unless it is one of the
`overtaken` or a later write of that setting is on record (`Fresh`). From that
follows what a step may do to a setting that is cached with its value (`Parting`).
Results: `CommandsTyped`, `CacheTheorem` (CacheFollowsNVRam), for any set of
settings, each written either way.

**RTMPStreams_proofs.** `Good` speaks of the tables and the links together:
players are fed only by what exists (`PlayersFed`, `RecordsFed`), every file has
its player (`FilesPlayed`), a name is published once by the registered connections
(`NamesOnce`), a player of the camera's stream is linked while its connection is
open (`CameraPlayed`), one who waits asks for a name nobody publishes
(`WaitingUnserved`), and what is empty has no link (`NoneEmpty`). `NamesOnce` is
needed because a publication that ends must not leave another of the same name
beside the players it fed. `Good` has a set `V` of players for whom
`WaitingUnserved` is not claimed, since one that hung on an enqueued connection may
wait beside a live stream. The lemma of each operation is for any `V`; the deletion
of an enqueued connection asks that `V` has the players it leaves behind. The
invariant claims `Good` with all players in `V`, and `WaitingTheorem` looks at one step with
`V` the players that wait in vain before it and those the step leaves behind:
whoever waits in vain after it is one of them (`WaitingStep`). Results:
`StreamsTyped`, `LinksTheorem`, `PlayersTheorem`, `WaitingTheorem`, for any number
of connections, streams and names, and, with the cardinality of the set of
players as the quantity each request changes by one or leaves,
`ChannelsTheorem` (ChannelsBalanced).

**CloudConnection_proofs.** One invariant for each part of the state the timer's
chain of operators goes through. `AlwaysInv` is what holds after rounds of any
length: the type, `ProtocolExists`, and that the seconds of a round are gone when its
events come. `ConnInv` is what holds unless a round was `overlong`: one connection at
a time, even of those given up (`OneBusy`), which its timer has the name of
(`BusyKnown`), and a wait that outlasts the round that deletes what was given up
(`GivenUpFirst`). What is invariant is `AlwaysInv` and either `overlong` or `ConnInv`:
the step that ends the exception leaves no connection, of which `ConnInv` holds
(`AllGone`). Results: `CloudTyped`; `TriesTheorem` (TriesAreSpaced); `OneConnection`
(OneKnownConnection), for all constants and rounds of any length; `SilentTheorem`
(SilentServerDropped) if `StepTicks <= Expire + 1`, a fact of the shipped constants
without which a connection can be silent for too long when its handshake ends.

**IOLoop_proofs.** The sets of select agree with the flags kept per handler
(`SetsExact`), flags are kept only of handlers that have the descriptor
(`FlagsOwned`), a live handler has its flags (`LiveFlagged`, `OutputFlagged`). Two
handlers have the same socket only as connector and carrier, when the connector
is dead, behind the walk, and will not close the socket unless the carrier's
protocol is on its way out (`Sharing`); sockets of handlers are open, but for that
of a carrier whose refused connector closed it, until the same round deletes the
carrier (`SocketsOpen`, from which `ClosedOnce` follows), open ones have a handler that will close them (`OpenOwned`), and
what select reported stays open (`Rounds`). Results: `LoopTyped`, `LiveTheorem`
(LiveAreWatched), `OutputTheorem` (OutputIsWatched), `SocketTheorem`
(SocketsExact), for any number of handlers, descriptors and timers; the set of
handlers is finite.

**AlarmRecorder_proofs.** `BufferInv` is about the frame buffer. BufferConsistent
is not inductive alone. What is needed beside it: no frame in the buffer is newer
than the last that arrived (`Stamped`); the frame PutData has in hand is newer than
all in the buffer, and a key frame if the buffer is empty (`PutSound`); nothing is
lent while PutData runs (`Modes`).
The lemmas below it say what cutting, thinning and appending do to the bytes of
a list and to the pointers to its key frames. Results: `BufferTyped`,
`BufferTheorem` (BufferConsistent), `LentTheorem` (LentWholeGOPs), for any
capacity, any durations, any number and sizes of frames. `RecorderInv` adds that
the clip's time is no newer than any frame that can still get into it, and that
what was written is older than the frame in hand (`ClipTimes`). Results: `ClipsTheorem` (ClipsPlayable), and that
each step of the recorder is a step of the buffer's or of the handler's own
specification or leaves it alone: `BufferRefinement`, `HandlerRefinement`. From
the first follows `RecorderBuffer`: what holds of the buffer alone holds in the
recorder, where startTS is what the recorder makes it; from the second
`RecorderHandler`.

The part on the alarm handler stands between the two: `PushInv` is inductive. It
has the type invariant, the checked invariants, and two more that are needed -
`NoClipYet`, and `NumbersGrow`, which says that every snapshot of the event has a
smaller number than the next one (without it nothing excludes that the counter,
reset with each clip, comes back to a used name). Results: `HandlerTyped`,
`ClipsSafe` (ClipsInOrder), `SnapshotsSafe` (SnapshotNamesFresh) and
`ImplementsTheClips`: the handler implements `AlarmClips`, step by step or
stuttering.

**TimersManager_proofs.** First the arithmetic of rests, from division with rest
up to two facts: every p-th slot from a slot on, round a wheel whose length p
divides, are the slots of one rest (`SlotsTaken`), and the least common multiple
divides every common multiple (`LeastCommon`), so a rebuilt wheel is a whole number
of copies of the old one. `WheelInv` says that the wheel is as long as the periods
used so far need it (`Length`), that each timer has exactly the slots of one rest
modulo its period (`Spread`), that no slot has a timer that was removed (`Owned`),
and that the walk has called exactly the timers of the slot up to its cursor
(`Walk`). `Spread` is what makes the refinement go through: the slots to the next
one with the timer are then the one number below the period that takes the hand to
that rest (`CountdownOf`), which no rebuild changes and each move of the hand
lowers by one (`OneLess`; here it is used that every period divides `IndexCycle`).
Results: `WheelTheorem`, `TimersTyped` and `CountdownTheorem`
(ImplementsCountdowns): each action is one of `Register`, `Cancel`, `Fire`, `Tick`
of `PeriodicTimers` or leaves the countdowns alone, for any periods that divide
`IndexCycle` (section 2 says what it stands for), any pauses and any number of
timers.

The arguments have the same shape: initial states satisfy the invariant, a lemma
for each action (or for each operator an action is built from) shows that it is
kept, the last step combines them.

**Only model-checked:** all liveness (TLAPS does not do fairness with ENABLED);
the two runs that show a violation.

## 6. Properties that excuse something, and why

- `PicturesIntact` excuses viewers that were cut off by a pause or a slow
  connection: the code throws their frames away knowingly. That it goes on with
  delta frames afterwards is the last of the deviations in section 3.
- `ParameterSetsFit` excuses a change of settings while frames with the old ones
  wait in the driver: they set `_isInitVideo` again with the old parameter sets
  (avmuxstream.cpp:153), and the new ones are not sent unless a key frame was
  asked for. Without the excuse TLC finds this in a few steps. It speaks of RTP
  viewers: recorders get no parameter sets this way, and an RTMP viewer misses
  them when paused.
- `ViewersServed` excuses a suspended stream and a driver that is off - after a
  stop whose UnInitMmap failed, `_status` stays VCS_ON and a start does nothing
  (qic32avcvideocapture.cpp:920, 996).
- `SilentServerDropped` and `KeepsTrying` speak of enabled timers; a timer that is
  switched off leaves an open connection unwatched.
- `OneKnownConnection`, `SilentServerDropped` and `HandshakeEnds` excuse what follows
  an `overlong` round. Nothing in the code bounds a round: a name lookup or a command
  that blocks for longer than InitTicks makes the timer's next try come before the
  loop has deleted what the last one gave up, and then there are two connections, of
  which the timer watches one; the other can wait for good for the answer of a silent
  server. The excuse ends with the next round of usual length after which no
  connection is left. `KeepsTrying` and `TriesAreSpaced` need no excuse.
- `CacheFollowsNVRam` excuses answers that a direct write of the same setting has
  overtaken: the late answer puts the older value into the cache
  (deviceactionhandler.cpp:339 writes any setting through the worker).
- `NobodyWaitsInVain` excuses the players of a connection that is enqueued for
  deletion: its name is free at once (baseclientapplication.cpp:259), its links last
  until the loop deletes it, and who takes the name in between does not get its
  players.
- `SocketsExact` excuses the refused connection: connector and carrier both close
  its number (tcpconnector.h:85). The property says that nobody else has the number
  by then.

## 7. Hazards without a property

`PROJECT.json` lists the hazards that matter most, each with its line and, where
no property covers it, why: callbacks that change the timer wheel under the walk
(undefined behaviour, excluded by a guard because no callback does it); the
schedule of the previous alarm and the pause that stops all viewers, which the
models contain as the code has them and section 3 describes. A stack closed gracefully whose peer never
reads stays for good: `WholeStackGoes` is about stacks whose deletion has begun.

Smaller ones that were met on the way and are not in that list:
- an observer of a device that unregistered while it is notified would invalidate
  the walk (basehardwareabstractdevice.cpp:90); none does;
- numbers made up for timers grow without bound and pass FD_SETSIZE when a camera
  has made 1024 of them, after which FD_ISSET reads beyond the sets;
- a carrier of a worker that reads nothing blocks the loop, which writes to it
  until all is written (unixdomainsocketcarrier.cpp:85);
- Set of a setting that is cached with the same value does nothing, although a
  write of another value may be on its way (nvrammt7620.cpp:83);
- a write that could not be sent is entered under the number 0 and reported as
  done (nvrammt7620.cpp:99);
- an RTMP client that pauses and leaves: nobody resumes the stream
  (`ViewersServed` excuses it), and an RTMP viewer that is paused when parameter
  sets are sent never gets them;
- `_bTried` is set before the connection is made, so a connector whose chain
  cannot be made leaves an air service timer that never tries again;
- every try over plain TCP appends another `&ts=` to the address;
- a clip is measured from the oldest frame in the buffer, so it can be shorter
  than FILEDURATION as the viewer sees it;
- the least common multiple of the periods is neither bounded nor checked for
  overflow (timersmanager.cpp:139); the periods are small constants.

## 8. Not modelled

What is left of the program's own logic, and why it is not here:

- Recording (CVR, manual, the record process): files on an SD card and MP4
  boxes; its recorders hold one-sided links to the AVMuxStream from start to end
  of the run (basemp4muxoutstream.cpp:92), which is no state that changes. A
  recorder of `LiveVideo` and the alarm's recorder stand for what they are fed.
- The relay stream: a second AVMuxStream with the same code for its viewers.
- RTSP sessions: SETUP and PLAY of one connection in the order the client sends
  them; a viewer of `LiveVideo` stands for what they feed. Outbound RTMP, RTSP
  players, liveflv: not used by the camera.
- MJPG and audio: no references between frames, so none of the hazards of
  `LiveVideo`.
- ThreadManager and the threads of the program: they serve the worker processes'
  side and the IPC event socket.

The share of the repository's lines that is modelled is small, because most of
them are tables, formats, drivers and protocols that run to completion inside one
event. In the table of `PROJECT.json` each part is listed with its reason.

Nothing of the following has behaviour worth a model: capture drivers, audio and storage (I/O with devices), format
conversions (MP4, TS, FLV, AMF), parsers (HTTP, RTSP, JSON, XML), logging, the
memory pool, the watchdog and the misc daemon (small processes that poll),
the other applications of crtmpserver, and third-party code.
