-------------------------- MODULE MC_AVBufferList ---------------------------
(***************************************************************************)
(* A small AVBufferList: five units of space, frames of one or two         *)
(* units, eight time stamps.  Both durations are shorter than the run, so  *)
(* recycling by time, by size, thinning and every GetBufferList status     *)
(* happen.                                                                 *)
(***************************************************************************)
EXTENDS AVBufferList
MCSizes == {1, 2}
MCDurations == {3, 5}
MCGaps == {1, 2}
=============================================================================
