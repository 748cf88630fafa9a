---------------------------- MODULE PushMediator ----------------------------
(***************************************************************************)
(* PushHandler (hardware/src/pushmediator.cpp), the alarm handler, with    *)
(* the two recorders it owns: the control of AlarmMP4MuxOutStream (a clip  *)
(* file that is open or not) and OutJPGFileStream (one pending snapshot).  *)
(* A PIR or audio alarm starts an event; an event records up to MaxClips   *)
(* clips and one snapshot per second, then everything is reset.            *)
(*                                                                         *)
(* All handlers run on the thread of the I/O loop, one at a time: device   *)
(* messages, the one-second timer, and the frames of the two cameras.      *)
(* The ring buffer is not modelled here: a clip is full whenever FilmClip  *)
(* says so.  AlarmRecorder composes this module with the ring buffer.      *)
(***************************************************************************)
EXTENDS Integers, FiniteSets, ClipDuration

CONSTANTS MaxClips,        \* _maxVideoClips
          AlarmDuration,   \* alarmDuration: ticks until the event may end
          PreDuration,     \* PRE_VIDEO_DURATION, 3 ticks
          FirstDuration,   \* _firstDuration, 5000 ms
          SecondDurations, \* what PostFileDuration lets through
          MaxJPGNo         \* bound on snapshots per clip, for TLC

ASSUME PushAssumption ==
  /\ MaxClips \in Nat \ {0} /\ AlarmDuration \in Nat /\ PreDuration \in Nat
  /\ FirstDuration \in Nat /\ SecondDurations \subseteq Nat /\ MaxJPGNo \in Nat

VARIABLES enabled,         \* _pushInfo.enabled
          alarmState,      \* _pushInfo.alarmState
          alarmTick,       \* _pushInfo.alarmTick
          preDuration,     \* _pushInfo.preDuration
          minorVideoNo,    \* _pushInfo.minorVideoNo
          minorJPGNo,      \* _pushInfo.minorJPGNo
          eventType,       \* _pushInfo.eventType, uninitialised at first
          tmpDir,          \* the number in _tmpDirPath
          secondDuration,  \* _secondDuration
          clipOpen,        \* between _writeMov->Open and Close
          bCaptured,       \* OutJPGFileStream: no snapshot is pending
          srcFile,         \* the file the last snapshot goes to
          schedule,        \* alarm types the two schedule maps allow now
          clips,           \* history: directories with a complete clip
          jpgs             \* history: snapshot files written in this event

infoVars == <<alarmState, alarmTick, preDuration, minorVideoNo, minorJPGNo>>
jpgVars == <<bCaptured, srcFile>>
pushVars == <<enabled, alarmState, alarmTick, preDuration, minorVideoNo,
              minorJPGNo, eventType, tmpDir, secondDuration, fileDuration,
              clipOpen, bCaptured, srcFile, schedule, clips, jpgs>>

AlarmTypes == {"AUDIO", "PIR"}
AlarmStates == {"NO_ALERT", "WAIT_TIME", "WRITE_DONE", "WRITING"}
JPGFile == [dir : Nat, no : Nat]

\* Slip: the counters never reach 0.
Dec_ToOne(n) == IF n > 1 THEN n - 1 ELSE n

\* alarmTick and preDuration are only compared with 0 once they are not
\* positive, so counting stops there.
Dec(n) == IF n > 0 THEN n - 1 ELSE 0

PushInit ==
  /\ enabled = FALSE
  /\ alarmState = "NO_ALERT" /\ alarmTick = AlarmDuration /\ preDuration = PreDuration
  /\ minorVideoNo = 0 /\ minorJPGNo = 0
  /\ eventType \in AlarmTypes \cup {"none"}
  /\ tmpDir = 0
  /\ secondDuration \in SecondDurations /\ fileDuration = secondDuration
  /\ clipOpen = FALSE
  /\ bCaptured = TRUE /\ srcFile = [dir |-> 0, no |-> 0]
  /\ schedule \in SUBSET AlarmTypes
  /\ clips = {} /\ jpgs = {}

EnableEvent ==
  /\ enabled' = TRUE
  /\ UNCHANGED <<infoVars, eventType, tmpDir, secondDuration, fileDuration,
                 clipOpen, jpgVars, schedule, clips, jpgs>>

\* The hour changes, or a user posts another schedule.
ScheduleChanges ==
  /\ schedule' \in SUBSET AlarmTypes
  /\ UNCHANGED <<enabled, infoVars, eventType, tmpDir, secondDuration,
                 fileDuration, clipOpen, jpgVars, clips, jpgs>>

SetSecondDuration(d) ==
  /\ secondDuration' = d
  /\ UNCHANGED <<enabled, infoVars, eventType, tmpDir, fileDuration, clipOpen,
                 jpgVars, schedule, clips, jpgs>>

SnapShot(dir, no) == bCaptured' = FALSE /\ srcFile' = [dir |-> dir, no |-> no]

(***************************************************************************)
(* CanTriggerAlarm looks at the type of the previous alarm: OnDeviceMessage*)
(* stores the new type only afterwards.  What IsHardwareReady answers is   *)
(* overwritten with true.                                                  *)
(***************************************************************************)
CanTriggerAlarm == enabled /\ eventType \notin AlarmTypes \ schedule

\* A PIR or audio alarm that is not turned away: the camera is in factory mode
\* or connected to its cloud, and the meta file and the folder can be made.
OnDeviceMessage(type) ==
  /\ minorVideoNo < MaxClips /\ CanTriggerAlarm
  /\ alarmState = "NO_ALERT"
  /\ alarmState' = "WAIT_TIME"
  /\ eventType' = type
  /\ tmpDir' = minorVideoNo
  /\ SnapShot(minorVideoNo, minorJPGNo)
  /\ minorJPGNo' = minorJPGNo + 1
  /\ clips' = {} /\ jpgs' = {}
  /\ UNCHANGED <<enabled, alarmTick, preDuration, minorVideoNo, secondDuration,
                 fileDuration, clipOpen, schedule>>

\* The meta file or the folder cannot be made: only the names have changed.
OnDeviceMessageFails(type) ==
  /\ minorVideoNo < MaxClips /\ CanTriggerAlarm
  /\ alarmState = "NO_ALERT"
  /\ eventType' = type
  /\ tmpDir' = minorVideoNo
  /\ UNCHANGED <<enabled, infoVars, secondDuration, fileDuration, clipOpen,
                 jpgVars, schedule, clips, jpgs>>

IsPushState == alarmState = "WRITING"

(***************************************************************************)
(* OnStreamEvent(BUFFER_WRITE_DONE): the recorder has written a whole clip.*)
(***************************************************************************)
StopRecord == clipOpen' = FALSE

\* Slip: the next clip goes to the directory of this one.
NextFolder_Same == UNCHANGED tmpDir

NextFolder == tmpDir' = minorVideoNo + 1

\* Slip: off by one in the test for the last clip.
LastClip_OneLate == minorVideoNo + 1 > MaxClips

LastClip == minorVideoNo + 1 >= MaxClips

WriteDone ==
  /\ alarmState' = "WRITE_DONE"
  /\ StopRecord /\ NextFolder
  /\ fileDuration' = IF minorVideoNo > 0 THEN FirstDuration ELSE secondDuration
  /\ minorVideoNo' = minorVideoNo + 1
  /\ minorJPGNo' = 0
  /\ alarmTick' = IF LastClip THEN 0 ELSE alarmTick
  /\ clips' = clips \cup {tmpDir}
  /\ UNCHANGED <<enabled, preDuration, eventType, secondDuration, jpgVars,
                 schedule, jpgs>>

FilmClip == IsPushState /\ WriteDone

\* Slip: a written snapshot does not advance the number.
NextJPGNo_Same == UNCHANGED minorJPGNo

NextJPGNo == minorJPGNo < MaxJPGNo /\ minorJPGNo' = minorJPGNo + 1

\* OutJPGFileStream::FeedData with a picture newer than the capture time, and
\* a file that can be opened: CAP_JPGFILE_SUCCESS.
JPGWritten ==
  /\ ~bCaptured
  /\ bCaptured' = TRUE
  /\ NextJPGNo
  /\ jpgs' = jpgs \cup {srcFile}
  /\ UNCHANGED <<enabled, alarmState, alarmTick, preDuration, minorVideoNo,
                 eventType, tmpDir, secondDuration, fileDuration, clipOpen,
                 srcFile, schedule, clips>>

(***************************************************************************)
(* OnEvent, the one-second timer: count down, give up a snapshot that is   *)
(* older than 200 ms (CheckJPGStatus), then what the alarm state asks for. *)
(* After a stall ticks come in a burst, so a pending snapshot may be       *)
(* younger or older than that at any tick.                                 *)
(***************************************************************************)
CheckJPGStatus == /\ bCaptured' \in BOOLEAN /\ (bCaptured => bCaptured')
                  /\ UNCHANGED srcFile

CountDown == alarmTick' = Dec(alarmTick) /\ preDuration' = Dec(preDuration)

TickIdle ==
  /\ alarmState = "NO_ALERT"
  /\ CountDown /\ CheckJPGStatus
  /\ fileDuration' = FirstDuration
  /\ UNCHANGED <<enabled, alarmState, minorVideoNo, minorJPGNo, eventType, tmpDir,
                 secondDuration, clipOpen, schedule, clips, jpgs>>

\* snapJPG: in an event that has a complete clip, every tick takes a snapshot.
SnapIf(cond) == IF cond THEN SnapShot(tmpDir, minorJPGNo) ELSE CheckJPGStatus

\* The pre-alarm time is over: StartRecord, which may fail.
TickStart ==
  /\ alarmState = "WAIT_TIME" /\ Dec(preDuration) = 0
  /\ clipOpen' \in BOOLEAN
  /\ alarmState' = IF clipOpen' THEN "WRITING" ELSE "WRITE_DONE"
  /\ CountDown /\ SnapIf(minorVideoNo > 0)
  /\ UNCHANGED <<enabled, minorVideoNo, minorJPGNo, eventType, tmpDir,
                 secondDuration, fileDuration, schedule, clips, jpgs>>

TickBusy ==
  /\ \/ alarmState = "WAIT_TIME" /\ Dec(preDuration) > 0
     \/ alarmState = "WRITING"
  /\ CountDown /\ SnapIf(minorVideoNo > 0)
  /\ UNCHANGED <<enabled, alarmState, minorVideoNo, minorJPGNo, eventType, tmpDir,
                 secondDuration, fileDuration, clipOpen, schedule, clips, jpgs>>

EventOver == Dec(alarmTick) = 0

\* The next clip of the event: createFolder and StartRecord may both fail.
TickNextClip ==
  /\ alarmState = "WRITE_DONE" /\ ~EventOver
  /\ clipOpen' \in BOOLEAN
  /\ alarmState' = IF clipOpen' THEN "WRITING" ELSE "WRITE_DONE"
  /\ CountDown /\ SnapIf(clipOpen')
  /\ UNCHANGED <<enabled, minorVideoNo, minorJPGNo, eventType, tmpDir,
                 secondDuration, fileDuration, schedule, clips, jpgs>>

\* _pushInfo.Reset()
TickReset ==
  /\ alarmState = "WRITE_DONE" /\ EventOver
  /\ alarmState' = "NO_ALERT" /\ alarmTick' = AlarmDuration
  /\ preDuration' = PreDuration
  /\ minorVideoNo' = 0 /\ minorJPGNo' = 0
  /\ CheckJPGStatus
  /\ UNCHANGED <<enabled, eventType, tmpDir, secondDuration, fileDuration,
                 clipOpen, schedule, clips, jpgs>>

OnEvent == TickIdle \/ TickStart \/ TickBusy \/ TickNextClip \/ TickReset

Control == \/ EnableEvent \/ ScheduleChanges
           \/ \E d \in SecondDurations : SetSecondDuration(d)
           \/ \E type \in AlarmTypes : OnDeviceMessage(type) \/ OnDeviceMessageFails(type)
           \/ JPGWritten
           \/ OnEvent

PushNext == Control \/ FilmClip

PushSpec == PushInit /\ [][PushNext]_pushVars

\* The timer runs as long as the loop does, and while the camera streams and
\* key frames come a clip fills up.
PushFairSpec == PushSpec /\ WF_pushVars(OnEvent) /\ WF_pushVars(FilmClip)

-----------------------------------------------------------------------------
(***************************************************************************)
(* Properties                                                              *)
(***************************************************************************)

\* Every variable keeps its type.
HandlerTypeOK ==
  /\ enabled \in BOOLEAN /\ alarmState \in AlarmStates
  /\ alarmTick \in Nat /\ preDuration \in Nat
  /\ minorVideoNo \in Nat /\ minorJPGNo \in Nat
  /\ eventType \in AlarmTypes \cup {"none"} /\ tmpDir \in Nat
  /\ secondDuration \in SecondDurations
  /\ fileDuration \in SecondDurations \cup {FirstDuration}
  /\ clipOpen \in BOOLEAN /\ bCaptured \in BOOLEAN /\ srcFile \in JPGFile
  /\ schedule \subseteq AlarmTypes
  /\ clips \subseteq Nat /\ jpgs \subseteq JPGFile

\* The writer is open exactly while the handler is in ALERT_WRITING: every path
\* out of that state closes the file and none opens a file over an open one.
OpenIffWriting == clipOpen <=> alarmState = "WRITING"

\* A clip is recorded into a directory of its own: the path kept in
\* _tmpDirPath follows the clip number through failures, resets and new
\* events, and an open clip never overwrites a finished one of its event.
ClipDirectoryFresh ==
  /\ alarmState # "NO_ALERT" => tmpDir = minorVideoNo
  /\ alarmState # "NO_ALERT" => clips = 0..(minorVideoNo - 1)
  /\ clipOpen => tmpDir \notin clips

\* An event never has more than MaxClips clips, and with the last one its
\* remaining time is gone, so the next tick ends the event.
ClipsBounded ==
  /\ minorVideoNo <= MaxClips
  /\ clipOpen => minorVideoNo < MaxClips
  /\ minorVideoNo = MaxClips => alarmState = "WRITE_DONE" /\ alarmTick = 0

\* The clip files of an event: opened and closed with the alarm state, each in
\* a directory of its own, and never more than MaxClips, whichever file
\* operations fail and however alarms, ticks and frames interleave.
ClipsInOrder == OpenIffWriting /\ ClipDirectoryFresh /\ ClipsBounded

\* No snapshot overwrites one already taken in the event, although numbers
\* restart at 0 with every clip and a picture may arrive after the restart.
SnapshotNamesFresh == ~bCaptured => srcFile \notin jpgs

\* Every event ends and the handler accepts alarms again.
EventEnds == alarmState # "NO_ALERT" ~> alarmState = "NO_ALERT"

Clips == INSTANCE AlarmClips WITH
           phase <- CASE alarmState = "NO_ALERT" -> "idle"
                      [] alarmState = "WRITING" -> "open"
                      [] OTHER -> "between",
           finished <- minorVideoNo

\* The handler keeps the promise of AlarmClips.
ImplementsAlarmClips == Clips!ClipsSpec
=============================================================================
