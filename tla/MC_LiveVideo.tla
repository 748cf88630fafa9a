---------------------------- MODULE MC_LiveVideo ----------------------------
(* One viewer of each kind, one change of settings after another.          *)
EXTENDS LiveVideo
CONSTANTS rtp, rtmp, mp4
OneRTP == {rtp}
OneRTMP == {rtmp}
OneRecorder == {mp4}
=============================================================================
