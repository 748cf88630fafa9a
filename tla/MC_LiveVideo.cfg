CONSTANTS
  rtp = rtp
  rtmp = rtmp
  mp4 = mp4
  RTPViewers <- OneRTP
  RTMPViewers <- OneRTMP
  Recorders <- OneRecorder
  MaxFormat = 2
  MaxQueue = 2
SPECIFICATION FairSpec
INVARIANTS PicturesIntact ParameterSetsFit
PROPERTIES ViewersServed
