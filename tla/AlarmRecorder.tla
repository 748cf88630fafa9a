---------------------------- MODULE AlarmRecorder ---------------------------
(***************************************************************************)
(* AlarmMP4MuxOutStream (hardware/src/mux/alarmmp4muxoutstream.cpp) as the *)
(* meeting point of the frame buffer (AVBufferList) and the alarm handler  *)
(* (PushMediator).  FeedData puts every frame into the buffer; while a     *)
(* clip is open, each video frame also moves the closed GOPs from the      *)
(* buffer to the file, and a long enough clip is reported to the handler.  *)
(* One call of FeedData is a run of steps during which pc # "idle"; the    *)
(* handlers of the loop never run inside it.                               *)
(***************************************************************************)
EXTENDS AVBufferList, PushMediator

ASSUME RecorderAssumption == {FirstDuration} \cup SecondDurations \subseteq Durations

VARIABLES firstFrameTime,    \* _firstFrameTime, 0 when not yet known
          isAudio,           \* the frame FeedData was called with is audio
          clipHead,          \* history: the first frame written to the open clip ...
          lastWritten        \* ... and the time stamp of the last frame in any clip

bufferVars == <<bufList, iFrameList, numOfKeyFrames, freeSize, feed, status,
                req, lastTS, pc>>
handlerVars == <<enabled, alarmState, alarmTick, preDuration, minorVideoNo,
                 minorJPGNo, eventType, tmpDir, secondDuration, clipOpen,
                 bCaptured, srcFile, schedule, clips, jpgs>>
fileVars == <<firstFrameTime, isAudio, clipHead, lastWritten>>
vars == <<bufferVars, handlerVars, fileDuration, fileVars>>

Init == /\ AVInit /\ PushInit
        /\ firstFrameTime = 0 /\ isAudio = FALSE
        /\ clipHead = <<>> /\ lastWritten = 0

\* FeedData is called: an audio frame is never taken for a key frame.
FeedData ==
  /\ Arrive
  /\ isAudio' \in BOOLEAN /\ (isAudio' => ~req'.key)
  /\ UNCHANGED <<handlerVars, firstFrameTime, clipHead, lastWritten>>

PutDataGoesOn == PutSteps /\ UNCHANGED <<handlerVars, fileVars>>

\* GetStartTS, asked until it is answered once after StartRecord.
StartTS == IF firstFrameTime = 0 /\ bufList # <<>> THEN bufList[1].ts
           ELSE firstFrameTime

Wanted == StartTS # 0 /\ IsPushState /\ ~isAudio

FeedReturns ==
  /\ ~Wanted /\ PutReturns
  /\ firstFrameTime' = StartTS
  /\ UNCHANGED <<handlerVars, isAudio, clipHead, lastWritten>>

\* The closed GOPs go to the file.
WriteFrames ==
  /\ Wanted /\ GetBufferList(StartTS)
  /\ firstFrameTime' = StartTS
  /\ clipHead' = IF clipHead = <<>> /\ feed' # <<>> THEN <<feed'[1]>> ELSE clipHead
  /\ lastWritten' = IF feed' = <<>> THEN lastWritten ELSE feed'[Len(feed')].ts
  /\ UNCHANGED <<handlerVars, isAudio>>

\* Slip: a full clip is reported without asking for the state again.
Full_AnyState == pc = "lent" /\ status = "TS_DONE"

Full == pc = "lent" /\ status = "TS_DONE" /\ IsPushState

\* BUFFER_WRITE_DONE is delivered before the frames are recycled.
ReportFull ==
  /\ Full /\ WriteDone
  /\ UNCHANGED <<bufferVars, fileVars>>

RecycleFed == ~Full /\ Recycle /\ UNCHANGED <<handlerVars, fileVars>>

\* Everything else the loop runs; StartRecord forgets the first frame time,
\* also when the file cannot be opened.
StartRecord == /\ clipHead' = <<>>
               /\ UNCHANGED <<bufferVars, isAudio, lastWritten>>

\* Slip: handlers run in the middle of FeedData.
OtherHandlers_AnyTime == Control /\ UNCHANGED <<bufferVars, fileVars>>

OtherHandlers ==
  /\ pc = "idle"
  /\ \/ TickStart /\ firstFrameTime' = 0 /\ StartRecord
     \/ TickNextClip /\ firstFrameTime' = 0 /\ StartRecord
     \/ TickNextClip /\ ~clipOpen' /\ UNCHANGED <<bufferVars, fileVars>>
     \/ Control /\ ~TickStart /\ ~TickNextClip
                     /\ UNCHANGED <<bufferVars, fileVars>>

Next == FeedData \/ PutDataGoesOn \/ FeedReturns \/ WriteFrames \/ ReportFull
        \/ RecycleFed \/ OtherHandlers

Spec == Init /\ [][Next]_vars

-----------------------------------------------------------------------------
(***************************************************************************)
(* Properties                                                              *)
(***************************************************************************)

\* The first frame of a clip file is a key frame, and it is no older than the
\* time from which the clip's length is measured.
ClipStartsWithKeyFrame ==
  clipHead # <<>> => clipHead[1].key /\ 0 < firstFrameTime /\ firstFrameTime <= clipHead[1].ts

\* No frame is written twice: what is still buffered is newer than everything
\* in the clips so far, whatever was recycled, lent or thinned in between.
NothingWrittenTwice == \A i \in 1..Len(bufList) : bufList[i].ts > lastWritten

\* What the files hold can be played: every clip starts with a key frame of its
\* own time, and the clips together have every frame at most once.
ClipsPlayable == ClipStartsWithKeyFrame /\ NothingWrittenTwice

\* Around the buffer the recorder never does what AVBufferList does not allow:
\* no setter runs inside PutData, and GetBufferList is asked with a time stamp
\* no newer than the oldest buffered frame.
ImplementsBuffer == AVSpec

\* The recorder reports a full clip to the handler once, and only while the
\* handler waits for it, so the handler's guarantees hold in the composition.
ImplementsHandler == PushSpec
=============================================================================
