---------------------------- MODULE ClipDuration ----------------------------
(***************************************************************************)
(* _fileDuration of AVBufferListManager, how long a clip is to be.  The    *)
(* alarm handler (PushMediator) sets it, the frame buffer (AVBufferList)   *)
(* reads it; AlarmRecorder composes the two over this one variable.        *)
(***************************************************************************)
VARIABLE fileDuration
=============================================================================
