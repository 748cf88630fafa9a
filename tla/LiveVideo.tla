------------------------------ MODULE LiveVideo ------------------------------
(***************************************************************************)
(* Live video: the H.264 capture, the AVMuxStream that distributes its     *)
(* frames, and the streams linked to it: RTP viewers, RTMP viewers and     *)
(* MP4 recorders.  All of it runs on the thread of the main loop; a frame, *)
(* a REST command, a viewer's message is one handler and one step.         *)
(*                                                                         *)
(* A frame is [key, fmt]: a key frame carries SPS, PPS and an IDR slice, a *)
(* delta frame one slice that refers to the frame encoded just before it.  *)
(* fmt numbers the encoder's settings, 0 means none.                       *)
(***************************************************************************)
EXTENDS Naturals, Sequences

CONSTANTS
  RTPViewers,    \* ST_OUT_NET_RTP
  RTMPViewers,   \* ST_OUT_NET_RTMP_4_RTMP
  Recorders,     \* ST_OUT_FILE_MP4, linked from the in-stream's side only
  MaxFormat,     \* bound: settings the encoder goes through
  MaxQueue       \* bound: captured frames waiting in the driver

ASSUME LiveVideoAssumption ==
  /\ MaxFormat \in Nat \ {0}
  /\ MaxQueue \in Nat \ {0}
  /\ RTPViewers \cap RTMPViewers = {}
  /\ (RTPViewers \cup RTMPViewers) \cap Recorders = {}

VARIABLES
  capture,    \* the capture device and the encoder behind it
  mux,        \* the AVMuxStream
  viewer,     \* the out streams, and how the picture at their far end looks
  suspended,  \* history: somebody paused the stream, nobody has resumed it
  late        \* history: the last change of settings met frames in the driver

vars == <<capture, mux, viewer, suspended, late>>

NetViewers == RTPViewers \cup RTMPViewers
Viewers == NetViewers \cup Recorders
Formats == 1..MaxFormat
Frames == [key: BOOLEAN, fmt: Formats]

\* on is _status = VCS_ON, streaming is the driver between STREAMON and
\* STREAMOFF, keyDue says that the encoder's next frame is a key frame.
CaptureOff == [on |-> FALSE, streaming |-> FALSE, fmt |-> 1, keyDue |-> FALSE,
               queue |-> <<>>]

MuxInit == [status |-> "VSS_UNKNOWN", initVideo |-> FALSE,
            requestKeyFrame |-> FALSE, caps |-> 0]

\* paused and first are _paused and _isFirstVideoFrame of an RTMP stream, sps
\* the settings whose SPS and PPS the viewer got last, shows those of the last
\* key frame it got, cut that it was deprived of a frame on somebody's wish or
\* because its connection was too slow, and it has got no key frame since.
Detached == [linked |-> FALSE, paused |-> FALSE, first |-> TRUE, sps |-> 0,
             shows |-> 0, picture |-> "waiting", cut |-> FALSE]

Init ==
  /\ capture = CaptureOff
  /\ mux = MuxInit
  /\ viewer = [v \in Viewers |-> Detached]
  /\ suspended = FALSE
  /\ late = FALSE

-----------------------------------------------------------------------------
(* What becomes of the picture at a viewer.                                *)

ShowKey(x, fmt) ==
  [x EXCEPT !.picture = "playing", !.shows = fmt, !.cut = FALSE]

\* A delta frame whose predecessor the viewer did not get breaks the picture.
ShowDelta(x) == IF x.picture = "playing" THEN x ELSE [x EXCEPT !.picture = "broken"]

Miss(x) == IF x.picture = "playing" THEN [x EXCEPT !.picture = "waiting"] ELSE x
Deprive(x) == [Miss(x) EXCEPT !.cut = TRUE]

-----------------------------------------------------------------------------
(* RequestKeyFrame: nothing unless the capture is started.  The camera may *)
(* fail to take the request, which nobody looks at.                        *)

Requested(m) ==
  IF capture.on THEN [m EXCEPT !.requestKeyFrame = TRUE] ELSE m

GetKeyFrame(c, taken) == [c EXCEPT !.keyDue = @ \/ (c.on /\ taken)]

-----------------------------------------------------------------------------
(* The driver and the encoder.                                             *)

HasRoom == Len(capture.queue) < MaxQueue

\* The encoder puts a frame into the driver's queue, a key frame if one is due
\* and whenever a group of pictures is over.  That the program reads the frames
\* before the driver runs out of buffers is taken for granted.
Encode(key) ==
  /\ capture.streaming
  /\ HasRoom
  /\ capture.keyDue => key
  /\ capture' = [capture EXCEPT !.keyDue = FALSE,
                   !.queue = Append(@, [key |-> key, fmt |-> capture.fmt])]
  /\ UNCHANGED <<mux, viewer, suspended, late>>

\* BaseInStream::Play, Pause, Resume and Stop: the stream's own status, then
\* every linked out stream's; only RTMP streams do anything with it.
SignalAll(paused) ==
  [v \in Viewers |->
     IF v \in RTMPViewers /\ viewer[v].linked
     THEN [viewer[v] EXCEPT !.paused = paused] ELSE viewer[v]]

\* Slip: the stream is told that the video has started, not to play.
Started_NotPlayed(m) == [m EXCEPT !.initVideo = FALSE, !.requestKeyFrame = TRUE]

\* VCM_STARTED
Started(m) ==
  [m EXCEPT !.initVideo = FALSE, !.requestKeyFrame = TRUE, !.status = "VSS_START"]

\* The encoder starts with a key frame whether GetKeyFrame succeeds or not.
StartCapture ==
  /\ ~capture.on
  /\ capture' = [capture EXCEPT !.on = TRUE, !.streaming = TRUE,
                                !.keyDue = TRUE, !.queue = <<>>]
  /\ mux' = Started(mux)
  /\ viewer' = SignalAll(FALSE)
  /\ suspended' = FALSE
  /\ late' = FALSE

\* The driver forgets the frames that wait.  VCM_STOPPED stops the stream.
StopCapture ==
  /\ capture.on
  /\ capture' = [capture EXCEPT !.on = FALSE, !.streaming = FALSE, !.queue = <<>>]
  /\ mux' = [mux EXCEPT !.status = "VSS_STOP"]
  /\ UNCHANGED <<viewer, suspended, late>>

\* The driver has stopped but its buffers cannot be given back: the capture
\* counts as started and delivers nothing until somebody stops it again.
StopCaptureFails ==
  /\ capture.on
  /\ capture' = [capture EXCEPT !.streaming = FALSE, !.queue = <<>>]
  /\ UNCHANGED <<mux, viewer, suspended, late>>

\* Slip: the stream keeps the parameter sets it has.
SettingsChanged_CapsKept(m) == Requested(m)

\* VCM_RESOLUTION_CHANGED, VCM_FPS_CHANGED, VCM_PROFILE_CHANGED
SettingsChanged(m) == [Requested(m) EXCEPT !.initVideo = FALSE]

\* The camera takes the new settings at once and starts anew with a key frame;
\* the frames that wait in the driver have the old ones.
ChangeSettings ==
  /\ capture.fmt < MaxFormat
  /\ capture' = [capture EXCEPT !.fmt = @ + 1, !.keyDue = TRUE]
  /\ mux' = SettingsChanged(mux)
  /\ late' = (capture.queue # <<>>)
  /\ UNCHANGED suspended

SetFrameRate == ChangeSettings /\ UNCHANGED viewer

\* UnlinkLiveStream first unlinks every out stream that knows its in-stream,
\* which recorders do not, and gives up its protocol.
SetResolution ==
  /\ ChangeSettings
  /\ viewer' = [v \in Viewers |-> IF v \in NetViewers THEN Detached ELSE viewer[v]]

-----------------------------------------------------------------------------
(* Out streams come, go and give orders.                                   *)

\* Link, SignalOutStreamAttached: a key frame is asked for, and a network
\* viewer gets the parameter sets the stream has, if any.
Attach(v) ==
  /\ ~viewer[v].linked
  /\ mux' = Requested(mux)
  /\ \E taken \in BOOLEAN : capture' = GetKeyFrame(capture, taken)
  /\ viewer' = [viewer EXCEPT ![v] =
       [Detached EXCEPT !.linked = TRUE,
                        !.sps = IF v \in NetViewers THEN mux.caps ELSE 0]]
  /\ UNCHANGED <<suspended, late>>

\* The viewer leaves, the recording ends: UnLink; the stream's status stays.
Detach(v) ==
  /\ viewer[v].linked
  /\ viewer' = [viewer EXCEPT ![v] = Detached]
  /\ UNCHANGED <<capture, mux, suspended, late>>

\* An RTMP client's pause: BaseOutStream::Pause pauses the in-stream, which all
\* viewers and recorders share, and then its own stream.
ClientPause(v) ==
  /\ viewer[v].linked
  /\ mux' = [mux EXCEPT !.status = "VSS_STOP"]
  /\ viewer' = [viewer EXCEPT ![v].paused = TRUE]
  /\ suspended' = TRUE
  /\ UNCHANGED <<capture, late>>

\* An RTMP client's resume: its own stream is reset by Seek, then the in-stream
\* goes on and its own stream too.
ClientResume(v) ==
  /\ viewer[v].linked
  /\ mux' = [mux EXCEPT !.status = "VSS_START"]
  /\ viewer' = [viewer EXCEPT ![v] = [@ EXCEPT !.first = TRUE, !.paused = FALSE]]
  /\ suspended' = FALSE
  /\ UNCHANGED <<capture, late>>

\* The REST command that pauses the stream.
RestPause ==
  /\ mux' = [mux EXCEPT !.status = "VSS_STOP"]
  /\ viewer' = SignalAll(TRUE)
  /\ suspended' = TRUE
  /\ UNCHANGED <<capture, late>>

\* The REST command that resumes it; stopping the MJPG capture does so too.
RestResume ==
  /\ mux' = [mux EXCEPT !.status = "VSS_START"]
  /\ viewer' = SignalAll(FALSE)
  /\ suspended' = FALSE
  /\ UNCHANGED <<capture, late>>

-----------------------------------------------------------------------------
(* A frame arrives: OnReadEvent, OnDeviceData, OnDeviceVideoData.          *)

\* (SPS) the first key frame after a change sets the capabilities; (IDR) the
\* request is answered.
AfterKey(m, fmt) ==
  [m EXCEPT !.initVideo = TRUE, !.requestKeyFrame = FALSE,
            !.caps = IF m.initVideo THEN @ ELSE fmt]

\* ResendSPSPPS runs when the capabilities are new or a key frame was asked for.
Resends(m) == ~m.initVideo \/ m.requestKeyFrame

\* Slip: delta frames go to RTP viewers and recorders while a key frame is awaited.
Gated_Never(m) == FALSE

\* "Ignore P frame in order to prevent incomplete sequence"
Gated(m) == m.requestKeyFrame

FedRTP(x, f, m) ==
  IF f.key
  THEN ShowKey([x EXCEPT !.sps = IF Resends(m) THEN AfterKey(m, f.fmt).caps ELSE @], f.fmt)
  ELSE IF Gated(m) THEN Miss(x) ELSE ShowDelta(x)

FedRecorder(x, f, m) ==
  IF f.key THEN ShowKey(x, f.fmt)
  ELSE IF Gated(m) THEN Miss(x) ELSE ShowDelta(x)

\* An RTMP stream takes only a key frame first.  Its end-of-sequence header
\* counts as one, and after it AllowExecution drops what a full output buffer
\* has no room for: of the codec header and the frame, it lets kept through.
FedRTMP(x, f, m, kept) ==
  IF x.paused THEN Deprive(x)
  ELSE IF f.key
  THEN LET header == IF Resends(m) /\ kept >= 1
                     THEN [x EXCEPT !.sps = AfterKey(m, f.fmt).caps] ELSE x
           sent == (x.first /\ ~Resends(m)) \/ kept = 2
           reset == [header EXCEPT !.first = FALSE]
       IN IF sent THEN ShowKey(reset, f.fmt) ELSE Deprive(reset)
  ELSE IF x.first THEN Miss(x)
  ELSE IF kept = 2 THEN ShowDelta(x) ELSE Deprive(x)

Fed(v, f, kept) ==
  LET x == viewer[v]
  IN IF ~x.linked THEN x
     ELSE IF mux.status = "VSS_STOP" THEN Deprive(x)
     ELSE IF v \in RTPViewers THEN FedRTP(x, f, mux)
     ELSE IF v \in Recorders THEN FedRecorder(x, f, mux)
     ELSE FedRTMP(x, f, mux, kept[v])

OnDeviceData ==
  /\ capture.queue # <<>>
  /\ LET f == Head(capture.queue)
     IN /\ \E kept \in [RTMPViewers -> 0..2] :
             viewer' = [v \in Viewers |-> Fed(v, f, kept)]
        /\ mux' = IF f.key /\ mux.status # "VSS_STOP" THEN AfterKey(mux, f.fmt) ELSE mux
  /\ capture' = [capture EXCEPT !.queue = Tail(@)]
  /\ UNCHANGED <<suspended, late>>

-----------------------------------------------------------------------------
Next ==
  \/ \E key \in BOOLEAN : Encode(key)
  \/ OnDeviceData
  \/ StartCapture
  \/ StopCapture
  \/ StopCaptureFails
  \/ SetFrameRate
  \/ SetResolution
  \/ \E v \in Viewers : Attach(v) \/ Detach(v)
  \/ \E v \in RTMPViewers : ClientPause(v) \/ ClientResume(v)
  \/ RestPause
  \/ RestResume

Spec == Init /\ [][Next]_vars

\* The main loop reads the device whenever a frame waits, and a camera that
\* streams encodes one key frame after the other.
Fairness ==
  /\ WF_vars(OnDeviceData)
  /\ SF_vars(Encode(TRUE))

FairSpec == Spec /\ Fairness

-----------------------------------------------------------------------------
\* The type of every variable of the stream and its surroundings.
TypeOK ==
  /\ capture \in [on: BOOLEAN, streaming: BOOLEAN, fmt: Formats, keyDue: BOOLEAN,
                  queue: Seq(Frames)]
  /\ Len(capture.queue) <= MaxQueue
  /\ mux \in [status: {"VSS_UNKNOWN", "VSS_START", "VSS_STOP"}, initVideo: BOOLEAN,
              requestKeyFrame: BOOLEAN, caps: 0..MaxFormat]
  /\ viewer \in [Viewers -> [linked: BOOLEAN, paused: BOOLEAN, first: BOOLEAN,
                             sps: 0..MaxFormat, shows: 0..MaxFormat,
                             picture: {"waiting", "playing", "broken"}, cut: BOOLEAN]]
  /\ suspended \in BOOLEAN
  /\ late \in BOOLEAN

\* However viewers come and go, settings change and the capture stops and
\* starts: nobody gets a delta frame without the frame it refers to, unless a
\* pause or a slow connection deprived him since his last key frame.
PicturesIntact == \A v \in Viewers : viewer[v].picture = "broken" => viewer[v].cut

\* An RTP viewer, who gets SPS and PPS only when the stream sends its own copy,
\* has those that fit the key frame it shows, unless the settings changed while
\* frames with the old ones were waiting in the driver.
ParameterSetsFit ==
  ~late /\ mux.initVideo =>
    \A v \in RTPViewers : viewer[v].linked /\ viewer[v].shows # 0 =>
                            viewer[v].sps = viewer[v].shows

\* An RTP viewer or a recorder does not wait forever for a picture while the
\* camera streams and nobody has paused the stream.
ViewersServed ==
  \A v \in RTPViewers \cup Recorders :
    []<>(\/ ~viewer[v].linked \/ ~capture.streaming \/ suspended
         \/ viewer[v].picture = "playing")
=============================================================================
