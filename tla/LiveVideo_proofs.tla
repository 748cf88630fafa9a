--------------------------- MODULE LiveVideo_proofs ---------------------------
(***************************************************************************)
(* Proofs about LiveVideo: typing, the intact pictures, and the parameter  *)
(* sets that fit, for any number of viewers and any number of settings.    *)
(***************************************************************************)
EXTENDS LiveVideo, TLAPS

ViewerType ==
  [linked: BOOLEAN, paused: BOOLEAN, first: BOOLEAN,
   sps: 0..MaxFormat, shows: 0..MaxFormat,
   picture: {"waiting", "playing", "broken"}, cut: BOOLEAN]

MuxType ==
  [status: {"VSS_UNKNOWN", "VSS_START", "VSS_STOP"}, initVideo: BOOLEAN,
   requestKeyFrame: BOOLEAN, caps: 0..MaxFormat]

CaptureType ==
  [on: BOOLEAN, streaming: BOOLEAN, fmt: Formats, keyDue: BOOLEAN, queue: Seq(Frames)]

\* The type invariant, written with the names above.
LEMMA TypeParts ==
  TypeOK <=> /\ capture \in CaptureType
             /\ Len(capture.queue) <= MaxQueue
             /\ mux \in MuxType
             /\ viewer \in [Viewers -> ViewerType]
             /\ suspended \in BOOLEAN
             /\ late \in BOOLEAN
BY DEF TypeOK, CaptureType, MuxType, ViewerType

LEMMA DetachedType == Detached \in ViewerType
BY LiveVideoAssumption DEF Detached, ViewerType

\* What the viewers are told at once keeps their type.
LEMMA SignalAllType ==
  ASSUME viewer \in [Viewers -> ViewerType], NEW paused \in BOOLEAN
  PROVE  SignalAll(paused) \in [Viewers -> ViewerType]
BY DEF SignalAll, ViewerType

\* What a frame does to one viewer keeps the viewer's type.
LEMMA FedType ==
  ASSUME mux \in MuxType, viewer \in [Viewers -> ViewerType], NEW v \in Viewers,
         NEW f \in Frames, NEW kept \in [RTMPViewers -> 0..2]
  PROVE  Fed(v, f, kept) \in ViewerType
<1> DEFINE x == viewer[v]
<1>0. x \in ViewerType /\ f.fmt \in 0..MaxFormat /\ f.fmt \in Formats
  BY DEF Frames, Formats
<1>1. AfterKey(mux, f.fmt).caps \in 0..MaxFormat
  BY <1>0 DEF AfterKey, MuxType
<1>2. \A y \in ViewerType : /\ Miss(y) \in ViewerType
                            /\ Deprive(y) \in ViewerType
                            /\ ShowDelta(y) \in ViewerType
                            /\ ShowKey(y, f.fmt) \in ViewerType
  BY <1>0 DEF Miss, Deprive, ShowDelta, ShowKey, ViewerType
<1>3. [x EXCEPT !.sps = AfterKey(mux, f.fmt).caps] \in ViewerType
  BY <1>0, <1>1 DEF ViewerType
<1>4. FedRTP(x, f, mux) \in ViewerType
  <2>1. [x EXCEPT !.sps = IF Resends(mux) THEN AfterKey(mux, f.fmt).caps ELSE @] \in ViewerType
    BY <1>0, <1>1 DEF ViewerType
  <2> QED BY <2>1, <1>0, <1>2 DEF FedRTP
<1>5. FedRecorder(x, f, mux) \in ViewerType
  BY <1>0, <1>2 DEF FedRecorder
<1>6. ASSUME NEW k PROVE FedRTMP(x, f, mux, k) \in ViewerType
  <2> DEFINE header == IF Resends(mux) /\ k >= 1
                       THEN [x EXCEPT !.sps = AfterKey(mux, f.fmt).caps] ELSE x
  <2>1. header \in ViewerType
    BY <1>0, <1>3
  <2>2. [header EXCEPT !.first = FALSE] \in ViewerType
    BY <2>1 DEF ViewerType
  <2> QED BY <2>2, <1>0, <1>2 DEF FedRTMP
<1> QED BY <1>0, <1>2, <1>4, <1>5, <1>6 DEF Fed

\* Every variable keeps its type.
LEMMA TypeStep == TypeOK /\ [Next]_vars => TypeOK'
<1> SUFFICES ASSUME TypeOK, [Next]_vars PROVE TypeOK'
  OBVIOUS
<1> USE DEF CaptureType, MuxType
<1>0. /\ capture \in CaptureType /\ Len(capture.queue) <= MaxQueue
      /\ mux \in MuxType /\ viewer \in [Viewers -> ViewerType]
      /\ suspended \in BOOLEAN /\ late \in BOOLEAN
  BY TypeParts
<1> DEFINE Goal == /\ capture' \in CaptureType /\ Len(capture'.queue) <= MaxQueue
                   /\ mux' \in MuxType /\ viewer' \in [Viewers -> ViewerType]
                   /\ suspended' \in BOOLEAN /\ late' \in BOOLEAN
<1> SUFFICES Goal
  BY DEF TypeOK, ViewerType, CaptureType, MuxType
<1>q. Len(<<>>) <= MaxQueue /\ <<>> \in Seq(Frames)
  BY LiveVideoAssumption
<1>1. ASSUME NEW key \in BOOLEAN, Encode(key) PROVE Goal
  <2> DEFINE f == [key |-> key, fmt |-> capture.fmt]
  <2>1. f \in Frames
    BY <1>0 DEF Frames
  <2>2. Append(capture.queue, f) \in Seq(Frames) /\ Len(Append(capture.queue, f)) <= MaxQueue
    BY <1>0, <1>1, <2>1, LiveVideoAssumption DEF Encode, HasRoom
  <2> QED BY <1>0, <1>1, <2>2 DEF Encode
<1>2. ASSUME OnDeviceData PROVE Goal
  <2> DEFINE f == Head(capture.queue)
  <2>1. f \in Frames
    BY <1>0, <1>2 DEF OnDeviceData
  <2>2. Tail(capture.queue) \in Seq(Frames) /\ Len(Tail(capture.queue)) <= MaxQueue
    BY <1>0, <1>2, LiveVideoAssumption DEF OnDeviceData
  <2>3. capture' \in CaptureType /\ Len(capture'.queue) <= MaxQueue
    BY <1>0, <1>2, <2>2 DEF OnDeviceData
  <2>f. f.fmt \in 0..MaxFormat
    BY <2>1, LiveVideoAssumption DEF Frames, Formats
  <2>4. AfterKey(mux, f.fmt) \in MuxType
    <3> HIDE DEF f
    <3> QED BY <1>0, <2>f DEF AfterKey
  <2>5. viewer' \in [Viewers -> ViewerType]
    BY <1>0, <1>2, <2>1, FedType DEF OnDeviceData
  <2> QED BY <1>0, <1>2, <2>3, <2>4, <2>5 DEF OnDeviceData
<1>3. CASE StartCapture
  BY <1>0, <1>3, <1>q, SignalAllType DEF StartCapture, Started
<1>4. CASE StopCapture \/ StopCaptureFails
  BY <1>0, <1>4, <1>q DEF StopCapture, StopCaptureFails
<1>5. ASSUME ChangeSettings
      PROVE  /\ capture' \in CaptureType /\ Len(capture'.queue) <= MaxQueue
             /\ mux' \in MuxType /\ suspended' \in BOOLEAN /\ late' \in BOOLEAN
  <2>1. capture.fmt + 1 \in Formats
    BY <1>0, <1>5, LiveVideoAssumption DEF ChangeSettings, Formats
  <2>2. capture' \in CaptureType /\ Len(capture'.queue) <= MaxQueue
    BY <1>0, <1>5, <2>1 DEF ChangeSettings
  <2>3. mux' \in MuxType
    BY <1>0, <1>5 DEF ChangeSettings, SettingsChanged, Requested
  <2> QED BY <1>0, <1>5, <2>2, <2>3 DEF ChangeSettings
<1>6. CASE SetFrameRate
  BY <1>0, <1>5, <1>6 DEF SetFrameRate
<1>7. CASE SetResolution
  BY <1>0, <1>5, <1>7, DetachedType DEF SetResolution
<1>8. ASSUME NEW v \in Viewers, Attach(v) PROVE Goal
  <2>1. [Detached EXCEPT !.linked = TRUE,
                         !.sps = IF v \in NetViewers THEN mux.caps ELSE 0] \in ViewerType
    <3> DEFINE sps == IF v \in NetViewers THEN mux.caps ELSE 0
    <3>1. sps \in 0..MaxFormat
      BY <1>0, LiveVideoAssumption
    <3>2. ASSUME NEW n \in 0..MaxFormat
          PROVE  [Detached EXCEPT !.linked = TRUE, !.sps = n] \in ViewerType
      BY DetachedType DEF ViewerType
    <3> QED BY <3>1, <3>2
  <2> QED BY <1>0, <1>8, <2>1 DEF Attach, Requested, GetKeyFrame
<1>9. ASSUME NEW v \in Viewers, Detach(v) PROVE Goal
  BY <1>0, <1>9, DetachedType DEF Detach
<1>10. ASSUME NEW v \in RTMPViewers, ClientPause(v) PROVE Goal
  <2>1. [viewer[v] EXCEPT !.paused = TRUE] \in ViewerType
    <3>1. viewer[v] \in ViewerType
      BY <1>0 DEF Viewers, NetViewers
    <3> QED BY <3>1 DEF ViewerType
  <2> QED BY <1>0, <1>10, <2>1 DEF ClientPause
<1>11. ASSUME NEW v \in RTMPViewers, ClientResume(v) PROVE Goal
  <2>1. [viewer[v] EXCEPT !.first = TRUE, !.paused = FALSE] \in ViewerType
    <3>1. viewer[v] \in ViewerType
      BY <1>0 DEF Viewers, NetViewers
    <3> QED BY <3>1 DEF ViewerType
  <2> QED BY <1>0, <1>11, <2>1 DEF ClientResume
<1>12. CASE RestPause \/ RestResume
  BY <1>0, <1>12, SignalAllType DEF RestPause, RestResume
<1>13. CASE UNCHANGED vars
  BY <1>0, <1>13 DEF vars
<1> QED
  BY <1>1, <1>2, <1>3, <1>4, <1>6, <1>7, <1>8, <1>9, <1>10, <1>11, <1>12, <1>13 DEF Next

\* Every variable of LiveVideo keeps its type.
THEOREM LiveTyped == Spec => []TypeOK
<1>1. Init => TypeOK
  <2> SUFFICES ASSUME Init PROVE TypeOK
    OBVIOUS
  <2>1. 0 \in 0..MaxFormat /\ 1 \in Formats /\ Len(<<>>) <= MaxQueue /\ <<>> \in Seq(Frames)
    BY LiveVideoAssumption DEF Formats
  <2>2. capture \in CaptureType /\ Len(capture.queue) <= MaxQueue
    BY <2>1 DEF Init, CaptureOff, CaptureType
  <2>3. mux \in MuxType
    BY <2>1 DEF Init, MuxInit, MuxType
  <2>4. viewer \in [Viewers -> ViewerType]
    BY DetachedType DEF Init
  <2> QED BY <2>2, <2>3, <2>4, TypeParts DEF Init
<1> QED BY <1>1, TypeStep, PTL DEF Spec

-----------------------------------------------------------------------------
(***************************************************************************)
(* The pictures.  That a viewer waiting for a picture gets no delta frame  *)
(* is due to different things: an RTMP stream wants a key frame first, for *)
(* the others the in-stream holds delta frames back while a key frame is   *)
(* requested, and the request is never lost: a capture that is off forgets *)
(* it, but starts with a new one.                                          *)
(***************************************************************************)
QueueNeedsDriver == (capture.queue # <<>> \/ capture.streaming) => capture.on

HeldBack(v) ==
  LET x == viewer[v]
  IN /\ x.picture = "broken" => x.cut
     /\ x.linked /\ x.picture = "waiting" /\ ~x.cut =>
          IF v \in RTMPViewers THEN x.first ELSE capture.on => mux.requestKeyFrame

PicturesInv == QueueNeedsDriver /\ \A v \in Viewers : HeldBack(v)

\* One frame leaves a viewer held back, if it was.
LEMMA FedHeldBack ==
  ASSUME TypeOK, NEW v \in Viewers, HeldBack(v), capture.on,
         NEW f \in Frames, NEW kept \in [RTMPViewers -> 0..2],
         viewer'[v] = Fed(v, f, kept),
         mux' = IF f.key /\ mux.status # "VSS_STOP" THEN AfterKey(mux, f.fmt) ELSE mux
  PROVE  HeldBack(v)'
<1> DEFINE x == viewer[v]
<1>0. x \in ViewerType /\ mux \in MuxType
  BY TypeParts
<1>1. CASE ~x.linked
  <2>1. viewer'[v] = x
    BY <1>1 DEF Fed
  <2> QED BY <2>1, <1>1 DEF HeldBack
<1>2. CASE x.linked /\ mux.status = "VSS_STOP"
  <2>1. viewer'[v] = Deprive(x)
    BY <1>2 DEF Fed
  <2>2. Deprive(x).cut
    BY <1>0 DEF Deprive, Miss, ViewerType
  <2> QED BY <2>1, <2>2 DEF HeldBack
<1>3. CASE x.linked /\ mux.status # "VSS_STOP" /\ v \notin RTMPViewers
  <2>1. CASE f.key
    <3>1. viewer'[v].picture = "playing"
      BY <1>0, <1>3, <2>1 DEF Fed, FedRTP, FedRecorder, ShowKey, ViewerType, Viewers, NetViewers
    <3> QED BY <3>1 DEF HeldBack
  <2>2. CASE ~f.key /\ Gated(mux)
    <3>1. viewer'[v] = Miss(x) /\ mux' = mux
      BY <1>3, <2>2 DEF Fed, FedRTP, FedRecorder, Viewers, NetViewers
    <3>2. mux'.requestKeyFrame
      BY <3>1, <2>2 DEF Gated
    <3>3. /\ Miss(x).picture = "broken" => x.picture = "broken"
          /\ Miss(x).cut = x.cut
      BY <1>0 DEF Miss, ViewerType
    <3> QED BY <1>3, <3>1, <3>2, <3>3 DEF HeldBack
  <2>3. CASE ~f.key /\ ~Gated(mux)
    <3>1. viewer'[v] = ShowDelta(x) /\ mux' = mux
      BY <1>3, <2>3 DEF Fed, FedRTP, FedRecorder, Viewers, NetViewers
    <3>2. x.picture = "playing" \/ x.cut
      BY <1>0, <1>3, <2>3 DEF HeldBack, Gated, ViewerType
    <3>3. /\ x.picture = "playing" => ShowDelta(x).picture = "playing"
          /\ ShowDelta(x).cut = x.cut
      BY <1>0 DEF ShowDelta, ViewerType
    <3> QED BY <3>1, <3>2, <3>3 DEF HeldBack
  <2> QED BY <2>1, <2>2, <2>3
<1>4. CASE x.linked /\ mux.status # "VSS_STOP" /\ v \in RTMPViewers
  <2>0. viewer'[v] = FedRTMP(x, f, mux, kept[v])
    BY <1>4, LiveVideoAssumption DEF Fed, Viewers, NetViewers
  <2>d. ASSUME NEW y \in ViewerType PROVE Deprive(y).cut
    BY DEF Deprive, Miss, ViewerType
  <2>k. ASSUME NEW y \in ViewerType PROVE ShowKey(y, f.fmt).picture = "playing"
    BY DEF ShowKey, ViewerType
  <2>1. CASE x.paused
    BY <1>0, <2>0, <2>1, <2>d DEF FedRTMP, HeldBack
  <2>2. CASE ~x.paused /\ f.key
    <3> DEFINE header == IF Resends(mux) /\ kept[v] >= 1
                         THEN [x EXCEPT !.sps = AfterKey(mux, f.fmt).caps] ELSE x
               reset == [header EXCEPT !.first = FALSE]
    <3>1. AfterKey(mux, f.fmt).caps \in 0..MaxFormat
      BY <1>0, LiveVideoAssumption DEF AfterKey, MuxType, Frames, Formats
    <3>2. header \in ViewerType
      BY <1>0, <3>1 DEF ViewerType
    <3>3. reset \in ViewerType
      BY <3>2 DEF ViewerType
    <3>4. viewer'[v] = ShowKey(reset, f.fmt) \/ viewer'[v] = Deprive(reset)
      BY <2>0, <2>2 DEF FedRTMP
    <3>5. viewer'[v].picture = "playing" \/ viewer'[v].cut
      BY <3>3, <3>4, <2>d, <2>k
    <3> QED BY <3>5 DEF HeldBack
  <2>3. CASE ~x.paused /\ ~f.key /\ x.first
    <3>1. viewer'[v] = Miss(x)
      BY <2>0, <2>3 DEF FedRTMP
    <3>2. /\ Miss(x).picture = "broken" => x.picture = "broken"
          /\ Miss(x).cut = x.cut /\ Miss(x).first = x.first
      BY <1>0 DEF Miss, ViewerType
    <3> QED BY <1>4, <2>3, <3>1, <3>2 DEF HeldBack
  <2>4. CASE ~x.paused /\ ~f.key /\ ~x.first
    <3>1. viewer'[v] = ShowDelta(x) \/ viewer'[v] = Deprive(x)
      BY <2>0, <2>4 DEF FedRTMP
    <3>2. x.picture = "playing" \/ x.cut
      BY <1>0, <1>4, <2>4 DEF HeldBack, ViewerType
    <3>3. /\ x.picture = "playing" => ShowDelta(x).picture = "playing"
          /\ ShowDelta(x).cut = x.cut
      BY <1>0 DEF ShowDelta, ViewerType
    <3>4. viewer'[v].picture = "playing" \/ viewer'[v].cut
      BY <1>0, <3>1, <3>2, <3>3, <2>d
    <3> QED BY <3>4 DEF HeldBack
  <2> QED BY <2>1, <2>2, <2>3, <2>4
<1> QED BY <1>1, <1>2, <1>3, <1>4

\* What does not touch the pictures leaves a viewer held back.
LEMMA SameHeldBack ==
  ASSUME NEW v \in Viewers, HeldBack(v),
         viewer'[v].picture = viewer[v].picture, viewer'[v].cut = viewer[v].cut,
         viewer'[v].linked = viewer[v].linked,
         viewer[v].first => viewer'[v].first,
         capture'.on => mux'.requestKeyFrame \/ (capture.on /\ ~mux.requestKeyFrame)
  PROVE  HeldBack(v)'
BY DEF HeldBack

\* A stream that has just been linked, or is not linked, is held back.
LEMMA FreshHeldBack ==
  ASSUME NEW v \in Viewers, viewer'[v].picture = "waiting", viewer'[v].first,
         viewer'[v].linked => (capture'.on => mux'.requestKeyFrame)
  PROVE  HeldBack(v)'
BY DEF HeldBack

LEMMA SignalAllSame ==
  ASSUME viewer \in [Viewers -> ViewerType], NEW paused \in BOOLEAN, NEW v \in Viewers
  PROVE  LET y == SignalAll(paused)[v]
         IN /\ y.picture = viewer[v].picture /\ y.cut = viewer[v].cut
            /\ y.linked = viewer[v].linked /\ y.first = viewer[v].first
BY DEF SignalAll, ViewerType

\* No step lets a delta frame go to a viewer who lacks the one before it.
LEMMA PicturesStep == TypeOK /\ PicturesInv /\ [Next]_vars => PicturesInv'
<1> SUFFICES ASSUME TypeOK, PicturesInv, [Next]_vars PROVE PicturesInv'
  OBVIOUS
<1>0. /\ capture \in CaptureType /\ mux \in MuxType
      /\ viewer \in [Viewers -> ViewerType]
      /\ QueueNeedsDriver /\ \A v \in Viewers : HeldBack(v)
  BY TypeParts DEF PicturesInv
<1> USE DEF CaptureType, MuxType
<1> DEFINE Queue == QueueNeedsDriver'
           Held == \A v \in Viewers : HeldBack(v)'
<1> SUFFICES Queue /\ Held
  BY DEF PicturesInv
<1>1. ASSUME NEW key \in BOOLEAN, Encode(key) PROVE Queue /\ Held
  <2>1. capture'.on = capture.on /\ capture.on /\ mux' = mux /\ viewer' = viewer
    BY <1>0, <1>1 DEF Encode, QueueNeedsDriver
  <2>2. Queue
    BY <2>1 DEF QueueNeedsDriver
  <2> QED BY <1>0, <2>1, <2>2, SameHeldBack
<1>2. CASE OnDeviceData
  <2> DEFINE f == Head(capture.queue)
  <2>1. f \in Frames /\ capture.on /\ capture'.on
    BY <1>0, <1>2 DEF OnDeviceData, QueueNeedsDriver
  <2>2. PICK kept \in [RTMPViewers -> 0..2] :
           viewer' = [v \in Viewers |-> Fed(v, f, kept)]
    BY <1>2 DEF OnDeviceData
  <2>3. mux' = IF f.key /\ mux.status # "VSS_STOP" THEN AfterKey(mux, f.fmt) ELSE mux
    BY <1>2 DEF OnDeviceData
  <2>4. ASSUME NEW v \in Viewers PROVE HeldBack(v)'
    <3>1. viewer'[v] = Fed(v, f, kept)
      BY <2>2
    <3> HIDE DEF f
    <3> QED BY <1>0, <2>1, <2>3, <3>1, FedHeldBack
  <2> QED BY <2>1, <2>4 DEF QueueNeedsDriver
<1>3. CASE StartCapture
  <2>1. capture'.on /\ mux'.requestKeyFrame
    BY <1>0, <1>3 DEF StartCapture, Started
  <2>2. viewer' = SignalAll(FALSE)
    BY <1>3 DEF StartCapture
  <2> QED BY <1>0, <2>1, <2>2, SignalAllSame, SameHeldBack DEF QueueNeedsDriver
<1>4. CASE StopCapture
  <2>1. ~capture'.on /\ ~capture'.streaming /\ capture'.queue = <<>> /\ viewer' = viewer
    BY <1>0, <1>4 DEF StopCapture
  <2> QED BY <1>0, <2>1, SameHeldBack DEF QueueNeedsDriver
<1>5. CASE StopCaptureFails
  <2>1. /\ capture'.on /\ capture.on /\ viewer' = viewer /\ mux' = mux
    BY <1>0, <1>5 DEF StopCaptureFails
  <2> QED BY <1>0, <2>1, SameHeldBack DEF QueueNeedsDriver
<1>6. ASSUME ChangeSettings
      PROVE  /\ Queue /\ capture'.on = capture.on
             /\ mux.requestKeyFrame => mux'.requestKeyFrame
             /\ capture'.on => mux'.requestKeyFrame
  <2>1. /\ capture'.on = capture.on /\ capture'.queue = capture.queue
        /\ capture'.streaming = capture.streaming
    BY <1>0, <1>6 DEF ChangeSettings
  <2>2. /\ mux.requestKeyFrame => mux'.requestKeyFrame
        /\ capture.on => mux'.requestKeyFrame
    BY <1>0, <1>6 DEF ChangeSettings, SettingsChanged, Requested
  <2> QED BY <1>0, <2>1, <2>2 DEF QueueNeedsDriver
<1>7. CASE SetFrameRate
  BY <1>0, <1>6, <1>7, SameHeldBack DEF SetFrameRate
<1>8. CASE SetResolution
  <2>1. ASSUME NEW v \in NetViewers PROVE HeldBack(v)'
    <3>1. viewer'[v] = Detached /\ v \in Viewers
      BY <1>8 DEF SetResolution, Viewers
    <3> QED BY <3>1, FreshHeldBack DEF Detached
  <2>2. ASSUME NEW v \in Viewers, v \notin NetViewers PROVE HeldBack(v)'
    <3>1. viewer'[v] = viewer[v]
      BY <1>8, <2>2 DEF SetResolution
    <3> QED BY <1>0, <1>6, <1>8, <3>1, SameHeldBack DEF SetResolution
  <2> QED BY <1>6, <1>8, <2>1, <2>2 DEF SetResolution
<1>9. ASSUME NEW w \in Viewers, Attach(w) PROVE Queue /\ Held
  <2>1. /\ capture'.on = capture.on /\ capture'.queue = capture.queue
        /\ capture'.streaming = capture.streaming
    BY <1>0, <1>9 DEF Attach, GetKeyFrame
  <2>2. capture'.on => mux'.requestKeyFrame
    BY <1>0, <1>9, <2>1 DEF Attach, Requested
  <2>3. ASSUME NEW v \in Viewers PROVE HeldBack(v)'
    <3>1. CASE v = w
      <4>1. viewer'[v].picture = "waiting" /\ viewer'[v].first
        BY <1>0, <1>9, <3>1 DEF Attach, Detached
      <4> QED BY <2>2, <4>1, FreshHeldBack
    <3>2. CASE v # w
      <4>1. viewer'[v] = viewer[v]
        BY <1>0, <1>9, <3>2 DEF Attach
      <4> QED BY <1>0, <2>2, <4>1, SameHeldBack
    <3> QED BY <3>1, <3>2
  <2> QED BY <1>0, <2>1, <2>3 DEF QueueNeedsDriver
<1>10. ASSUME NEW w \in Viewers, Detach(w) PROVE Queue /\ Held
  <2>1. ASSUME NEW v \in Viewers PROVE HeldBack(v)'
    <3>1. CASE v = w
      <4>1. viewer'[v] = Detached
        BY <1>0, <1>10, <3>1 DEF Detach
      <4> QED BY <4>1, FreshHeldBack DEF Detached
    <3>2. CASE v # w
      <4>1. viewer'[v] = viewer[v] /\ capture' = capture /\ mux' = mux
        BY <1>0, <1>10, <3>2 DEF Detach
      <4> QED BY <1>0, <4>1, SameHeldBack
    <3> QED BY <3>1, <3>2
  <2> QED BY <1>0, <1>10, <2>1 DEF Detach, QueueNeedsDriver
<1>11. ASSUME NEW w \in RTMPViewers, ClientPause(w) \/ ClientResume(w) PROVE Queue /\ Held
  <2>1. capture' = capture /\ mux'.requestKeyFrame = mux.requestKeyFrame
    BY <1>0, <1>11 DEF ClientPause, ClientResume
  <2>2. ASSUME NEW v \in Viewers
        PROVE  /\ viewer'[v].picture = viewer[v].picture /\ viewer'[v].cut = viewer[v].cut
               /\ viewer'[v].linked = viewer[v].linked
               /\ viewer[v].first => viewer'[v].first
    <3>1. CASE v = w
      <4>1. viewer[v] \in ViewerType
        BY <1>0
      <4>2. \/ viewer'[v] = [viewer[v] EXCEPT !.paused = TRUE]
            \/ viewer'[v] = [viewer[v] EXCEPT !.first = TRUE, !.paused = FALSE]
        BY <1>0, <1>11, <3>1 DEF ClientPause, ClientResume
      <4> QED BY <4>1, <4>2 DEF ViewerType
    <3>2. CASE v # w
      BY <1>0, <1>11, <3>2 DEF ClientPause, ClientResume
    <3> QED BY <3>1, <3>2
  <2> QED BY <1>0, <2>1, <2>2, SameHeldBack DEF QueueNeedsDriver
<1>12. CASE RestPause \/ RestResume
  <2>1. capture' = capture /\ mux'.requestKeyFrame = mux.requestKeyFrame
    BY <1>0, <1>12 DEF RestPause, RestResume
  <2>2. viewer' = SignalAll(TRUE) \/ viewer' = SignalAll(FALSE)
    BY <1>12 DEF RestPause, RestResume
  <2> QED BY <1>0, <2>1, <2>2, SignalAllSame, SameHeldBack DEF QueueNeedsDriver
<1>13. CASE UNCHANGED vars
  BY <1>0, <1>13, SameHeldBack DEF vars, QueueNeedsDriver
<1> QED
  BY <1>1, <1>2, <1>3, <1>4, <1>5, <1>7, <1>8, <1>9, <1>10, <1>11, <1>12, <1>13 DEF Next

\* Nobody gets a delta frame without the frame it refers to, unless a pause or a
\* slow connection deprived him since his last key frame: the gate in
\* avmuxstream.cpp:127 and the requests that close it are enough.
THEOREM PicturesSafe == Spec => []PicturesIntact
<1>1. Init => PicturesInv
  BY DEF Init, PicturesInv, QueueNeedsDriver, HeldBack, CaptureOff, Detached
<1>2. PicturesInv => PicturesIntact
  BY DEF PicturesInv, HeldBack, PicturesIntact
<1> QED BY <1>1, <1>2, PicturesStep, LiveTyped, PTL DEF Spec

-----------------------------------------------------------------------------
(***************************************************************************)
(* The parameter sets.  RTP viewers have those of the stream; and unless a *)
(* change of settings met frames in the driver, the stream's are those of  *)
(* every frame that can still arrive.                                      *)
(***************************************************************************)
SetsShared ==
  mux.initVideo => \A v \in RTPViewers : viewer[v].linked => viewer[v].sps = mux.caps

QueueCurrent == \A i \in 1..Len(capture.queue) : capture.queue[i].fmt = capture.fmt

CapsCurrent ==
  mux.initVideo =>
    /\ mux.caps = capture.fmt
    /\ \A v \in RTPViewers : viewer[v].linked /\ viewer[v].shows # 0 =>
                               viewer[v].shows = capture.fmt

SetsInv == SetsShared /\ (~late => QueueCurrent /\ CapsCurrent)

\* What an RTP viewer has and shows after a frame.
LEMMA FedSets ==
  ASSUME TypeOK, NEW v \in RTPViewers, NEW f \in Frames, NEW kept \in [RTMPViewers -> 0..2],
         viewer[v].linked
  PROVE  LET y == Fed(v, f, kept)
         IN /\ y.linked
            /\ ~(f.key /\ mux.status # "VSS_STOP") =>
                 y.sps = viewer[v].sps /\ y.shows = viewer[v].shows
            /\ f.key /\ mux.status # "VSS_STOP" =>
                 /\ y.shows = f.fmt
                 /\ y.sps = IF Resends(mux) THEN AfterKey(mux, f.fmt).caps ELSE viewer[v].sps
<1> DEFINE x == viewer[v]
<1>0. x \in ViewerType /\ v \in Viewers
  BY TypeParts DEF Viewers, NetViewers
<1>1. Fed(v, f, kept) = IF mux.status = "VSS_STOP" THEN Deprive(x) ELSE FedRTP(x, f, mux)
  BY DEF Fed
<1>2. ASSUME NEW y \in ViewerType
      PROVE  /\ Miss(y).sps = y.sps /\ Miss(y).shows = y.shows /\ Miss(y).linked = y.linked
             /\ Deprive(y).sps = y.sps /\ Deprive(y).shows = y.shows /\ Deprive(y).linked = y.linked
             /\ ShowDelta(y).sps = y.sps /\ ShowDelta(y).shows = y.shows /\ ShowDelta(y).linked = y.linked
  BY DEF Miss, Deprive, ShowDelta, ViewerType
<1>3. CASE mux.status = "VSS_STOP" \/ ~f.key
  BY <1>0, <1>1, <1>2, <1>3 DEF FedRTP
<1>4. CASE mux.status # "VSS_STOP" /\ f.key
  <2> DEFINE n == IF Resends(mux) THEN AfterKey(mux, f.fmt).caps ELSE x.sps
  <2>1. Fed(v, f, kept) = ShowKey([x EXCEPT !.sps = n], f.fmt)
    BY <1>1, <1>4 DEF FedRTP
  <2>2. /\ ShowKey([x EXCEPT !.sps = n], f.fmt).sps = n
        /\ ShowKey([x EXCEPT !.sps = n], f.fmt).shows = f.fmt
        /\ ShowKey([x EXCEPT !.sps = n], f.fmt).linked = x.linked
    <3> HIDE DEF n
    <3> QED BY <1>0 DEF ShowKey, ViewerType
  <2> QED BY <1>4, <2>1, <2>2
<1> QED BY <1>3, <1>4

LEMMA SignalAllSets ==
  ASSUME viewer \in [Viewers -> ViewerType], NEW paused \in BOOLEAN, NEW v \in RTPViewers
  PROVE  SignalAll(paused)[v] = viewer[v]
BY LiveVideoAssumption DEF SignalAll, Viewers, NetViewers

\* As long as what they speak of stays, so do the two parts of the invariant.
LEMMA SameSets ==
  ASSUME SetsInv, mux'.initVideo => mux.initVideo, mux'.caps = mux.caps,
         \A v \in RTPViewers : viewer'[v].linked =>
              /\ viewer[v].linked => viewer'[v].sps = viewer[v].sps
                                     /\ viewer'[v].shows \in {0, viewer[v].shows}
              /\ ~viewer[v].linked => viewer'[v].sps = mux.caps /\ viewer'[v].shows = 0,
         capture'.fmt = capture.fmt, late' = late, QueueCurrent => QueueCurrent'
  PROVE  SetsInv'
<1>1. SetsShared'
  BY DEF SetsInv, SetsShared
<1>2. ~late => CapsCurrent'
  BY DEF SetsInv, CapsCurrent
<1> QED BY <1>1, <1>2 DEF SetsInv

LEMMA SetsStep == TypeOK /\ SetsInv /\ [Next]_vars => SetsInv'
<1> SUFFICES ASSUME TypeOK, SetsInv, [Next]_vars PROVE SetsInv'
  OBVIOUS
<1>0. /\ capture \in CaptureType /\ mux \in MuxType /\ viewer \in [Viewers -> ViewerType]
  BY TypeParts
<1> USE DEF CaptureType, MuxType
<1>1. ASSUME NEW key \in BOOLEAN, Encode(key) PROVE SetsInv'
  <2> DEFINE f == [key |-> key, fmt |-> capture.fmt]
  <2>1. /\ capture'.queue = Append(capture.queue, f) /\ capture'.fmt = capture.fmt
        /\ mux' = mux /\ viewer' = viewer /\ late' = late
    BY <1>0, <1>1 DEF Encode
  <2>2. ASSUME QueueCurrent PROVE QueueCurrent'
    <3>1. f \in Frames
      BY <1>0 DEF Frames
    <3>2. ASSUME NEW i \in 1..Len(capture'.queue) PROVE capture'.queue[i].fmt = capture.fmt
      <4>1. CASE i = Len(capture.queue) + 1
        <5>1. capture'.queue[i] = f
          BY <1>0, <2>1, <3>1, <4>1
        <5> QED BY <5>1
      <4>2. CASE i \in 1..Len(capture.queue)
        <5>1. capture'.queue[i] = capture.queue[i]
          BY <1>0, <2>1, <3>1, <4>2
        <5> QED BY <2>2, <4>2, <5>1 DEF QueueCurrent
      <4> QED BY <1>0, <2>1, <3>1, <4>1, <4>2
    <3> QED BY <2>1, <3>2 DEF QueueCurrent
  <2> QED BY <2>1, <2>2, SameSets
<1>2. CASE OnDeviceData
  <2> DEFINE f == Head(capture.queue)
  <2>1. /\ f \in Frames /\ capture.queue # <<>> /\ capture'.queue = Tail(capture.queue)
        /\ capture'.fmt = capture.fmt /\ late' = late
    BY <1>0, <1>2 DEF OnDeviceData
  <2>2. PICK kept \in [RTMPViewers -> 0..2] :
           viewer' = [v \in Viewers |-> Fed(v, f, kept)]
    BY <1>2 DEF OnDeviceData
  <2>3. mux' = IF f.key /\ mux.status # "VSS_STOP" THEN AfterKey(mux, f.fmt) ELSE mux
    BY <1>2 DEF OnDeviceData
  <2>4. ASSUME QueueCurrent PROVE QueueCurrent' /\ f.fmt = capture.fmt
    <3>1. ASSUME NEW i \in 1..Len(capture'.queue)
          PROVE  i + 1 \in 1..Len(capture.queue) /\ capture'.queue[i] = capture.queue[i + 1]
      BY <1>0, <2>1
    <3>2. 1 \in 1..Len(capture.queue) /\ f = capture.queue[1]
      BY <1>0, <2>1
    <3> QED BY <2>1, <2>4, <3>1, <3>2 DEF QueueCurrent
  <2>5. ASSUME NEW v \in RTPViewers
        PROVE  /\ ~viewer[v].linked => viewer'[v] = viewer[v]
               /\ viewer'[v] = Fed(v, f, kept)
    BY <2>2 DEF Fed, Viewers, NetViewers
  <2> HIDE DEF f
  <2>6. CASE ~(f.key /\ mux.status # "VSS_STOP")
    <3>1. mux' = mux
      BY <2>3, <2>6
    <3>2. ASSUME NEW v \in RTPViewers, viewer'[v].linked
          PROVE  /\ viewer[v].linked
                 /\ viewer'[v].sps = viewer[v].sps /\ viewer'[v].shows = viewer[v].shows
      <4>1. viewer[v].linked
        BY <2>5, <3>2
      <4> QED BY <2>1, <2>5, <2>6, <4>1, FedSets
    <3> QED BY <2>1, <2>4, <3>1, <3>2, SameSets
  <2>7. CASE f.key /\ mux.status # "VSS_STOP"
    <3>1. /\ mux'.initVideo
          /\ mux'.caps = IF mux.initVideo THEN mux.caps ELSE f.fmt
          /\ mux'.caps = AfterKey(mux, f.fmt).caps
      BY <1>0, <2>3, <2>7 DEF AfterKey
    <3>2. ASSUME NEW v \in RTPViewers, viewer'[v].linked
          PROVE  /\ viewer[v].linked /\ viewer'[v].shows = f.fmt
                 /\ viewer'[v].sps = mux'.caps
      <4>1. viewer[v].linked
        BY <2>5, <3>2
      <4>2. /\ viewer'[v].shows = f.fmt
            /\ viewer'[v].sps = IF Resends(mux) THEN AfterKey(mux, f.fmt).caps ELSE viewer[v].sps
        BY <2>1, <2>5, <2>7, <4>1, FedSets
      <4>3. ~Resends(mux) => viewer[v].sps = mux'.caps
        BY <1>0, <3>1, <4>1 DEF Resends, SetsInv, SetsShared
      <4> QED BY <3>1, <4>1, <4>2, <4>3
    <3>3. SetsShared'
      BY <3>2 DEF SetsShared
    <3>4. ASSUME ~late PROVE QueueCurrent' /\ CapsCurrent'
      <4>1. f.fmt = capture.fmt /\ QueueCurrent'
        BY <2>4, <3>4 DEF SetsInv
      <4>2. mux'.caps = capture.fmt
        BY <3>1, <3>4, <4>1 DEF SetsInv, CapsCurrent
      <4> QED BY <2>1, <3>2, <4>1, <4>2 DEF CapsCurrent
    <3> QED BY <2>1, <3>3, <3>4 DEF SetsInv
  <2> QED BY <2>6, <2>7
<1>3. ASSUME \/ StartCapture \/ SetFrameRate \/ SetResolution PROVE SetsInv'
  <2>1. ~mux'.initVideo
    BY <1>0, <1>3 DEF StartCapture, Started, SetFrameRate, SetResolution, ChangeSettings,
                      SettingsChanged, Requested
  <2>2. ~late' => capture'.queue = <<>>
    BY <1>0, <1>3 DEF StartCapture, SetFrameRate, SetResolution, ChangeSettings
  <2>3. ~late' => QueueCurrent'
    BY <2>2 DEF QueueCurrent
  <2> QED BY <2>1, <2>3 DEF SetsInv, SetsShared, CapsCurrent
<1>4. CASE StopCapture \/ StopCaptureFails
  <2>1. /\ capture'.queue = <<>> /\ capture'.fmt = capture.fmt /\ viewer' = viewer /\ late' = late
        /\ mux'.initVideo = mux.initVideo /\ mux'.caps = mux.caps
    BY <1>0, <1>4 DEF StopCapture, StopCaptureFails
  <2>2. QueueCurrent'
    BY <2>1 DEF QueueCurrent
  <2> QED BY <2>1, <2>2, SameSets
<1>5. ASSUME NEW w \in Viewers, Attach(w) PROVE SetsInv'
  <2>1. /\ capture'.queue = capture.queue /\ capture'.fmt = capture.fmt /\ late' = late
    BY <1>0, <1>5 DEF Attach, GetKeyFrame
  <2>2. mux'.initVideo = mux.initVideo /\ mux'.caps = mux.caps
    BY <1>0, <1>5 DEF Attach, Requested
  <2>3. ASSUME NEW v \in RTPViewers
        PROVE  /\ viewer[v].linked => viewer'[v] = viewer[v]
               /\ viewer'[v].linked /\ ~viewer[v].linked =>
                    viewer'[v].sps = mux.caps /\ viewer'[v].shows = 0
    <3>1. CASE v = w
      BY <1>0, <1>5, <3>1 DEF Attach, Detached, NetViewers
    <3>2. CASE v # w
      BY <1>0, <1>5, <3>2 DEF Attach, Viewers, NetViewers
    <3> QED BY <3>1, <3>2
  <2> QED BY <2>1, <2>2, <2>3, SameSets DEF QueueCurrent
<1>6. ASSUME NEW w \in Viewers, Detach(w) PROVE SetsInv'
  <2>1. capture' = capture /\ mux' = mux /\ late' = late
    BY <1>6 DEF Detach
  <2>2. ASSUME NEW v \in RTPViewers, viewer'[v].linked PROVE viewer'[v] = viewer[v]
    BY <1>0, <1>6, <2>2 DEF Detach, Detached, Viewers, NetViewers
  <2> QED BY <2>1, <2>2, SameSets DEF QueueCurrent
<1>7. CASE \/ \E w \in RTMPViewers : ClientPause(w) \/ ClientResume(w)
           \/ RestPause \/ RestResume
  <2>1. /\ capture' = capture /\ late' = late
        /\ mux'.initVideo = mux.initVideo /\ mux'.caps = mux.caps
    BY <1>0, <1>7 DEF ClientPause, ClientResume, RestPause, RestResume
  <2>2. ASSUME NEW v \in RTPViewers PROVE viewer'[v] = viewer[v]
    <3>1. v \notin RTMPViewers /\ v \in Viewers
      BY LiveVideoAssumption DEF Viewers, NetViewers
    <3>2. CASE \E w \in RTMPViewers : ClientPause(w) \/ ClientResume(w)
      BY <1>0, <3>1, <3>2 DEF ClientPause, ClientResume
    <3>3. CASE RestPause \/ RestResume
      BY <1>0, <3>3, SignalAllSets DEF RestPause, RestResume
    <3> QED BY <1>7, <3>2, <3>3
  <2> QED BY <2>1, <2>2, SameSets DEF QueueCurrent
<1>8. CASE UNCHANGED vars
  BY <1>8 DEF vars, SetsInv, SetsShared, QueueCurrent, CapsCurrent
<1> QED BY <1>1, <1>2, <1>3, <1>4, <1>5, <1>6, <1>7, <1>8 DEF Next

\* An RTP viewer has the SPS and PPS of the key frame it shows, unless settings
\* changed while frames with the old ones were waiting in the driver.
THEOREM SetsFit == Spec => []ParameterSetsFit
<1>1. Init => SetsInv
  BY DEF Init, MuxInit, CaptureOff, SetsInv, SetsShared, QueueCurrent, CapsCurrent
<1>2. SetsInv => ParameterSetsFit
  BY DEF SetsInv, SetsShared, CapsCurrent, ParameterSetsFit
<1> QED BY <1>1, <1>2, SetsStep, LiveTyped, PTL DEF Spec
=============================================================================
