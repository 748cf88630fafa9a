---------------------------- MODULE AVBufferList ----------------------------
(***************************************************************************)
(* AVBufferListManager (hardware/src/avbuffermanager.cpp): the byte-       *)
(* bounded ring of encoded frames the alarm recorder keeps so that a clip  *)
(* can start before the alarm.  The list is organised in groups of         *)
(* pictures (GOPs): a key frame and the frames that follow it up to the    *)
(* next key frame.  A second list, _IFrameList, points at the key frames.  *)
(*                                                                         *)
(* PutData is one call of a single-threaded program, but its "check by     *)
(* size" loop has no bound in the code, so it is modelled iteration by     *)
(* iteration under the program counter pc; every other method is one step. *)
(* A frame is identified by its time stamp.  A buffer's payload is its     *)
(* length only.                                                            *)
(***************************************************************************)
EXTENDS Integers, Sequences, FiniteSets, SequencesExt, ClipDuration

CONSTANTS Capacity,      \* MAX_BUFSIZE, in units of data
          Sizes,         \* the lengths a frame can have
          Durations,     \* the values given to SetFileDuration
          Margin,        \* the 300 ms that FILEDURATION takes off
          Word,          \* 2^32: the width of _fileDuration
          ChunkSize,     \* the maxSize FeedData passes to GetBufferList
          Gaps,          \* distances between consecutive time stamps
          MaxTS          \* bound on time stamps, for TLC

ASSUME SizeAssumption ==
  /\ Capacity \in Nat /\ ChunkSize \in Nat
  /\ Sizes \subseteq Nat \ {0}
  \* Two frames fit: MAX_BUFSIZE is 10 MB and an encoded picture is far smaller.
  /\ \A a, b \in Sizes : a + b <= Capacity

ASSUME TimeAssumption ==
  /\ Durations \subseteq Nat /\ Margin \in Nat /\ Word \in Nat \ {0}
  /\ Gaps \subseteq Nat \ {0} /\ MaxTS \in Nat

VARIABLES bufList,         \* _bufList, oldest frame first
          iFrameList,      \* _IFrameList
          numOfKeyFrames,  \* _numOfKeyFrames
          freeSize,        \* _freeSize
          feed,            \* feedBufList: frames lent to the writer
          status,          \* what the last GetBufferList returned
          req,             \* the frame PutData was called with
          lastTS,          \* time stamp of the newest frame handed in
          pc               \* where PutData or the writer stands

listVars == <<bufList, iFrameList, numOfKeyFrames, freeSize>>
avVars == <<bufList, iFrameList, numOfKeyFrames, freeSize, fileDuration,
            feed, status, req, lastTS, pc>>

Frame == [ts : Nat, size : Sizes, key : BOOLEAN]
Status == {"SIZE_DONE", "UNDERFLOW", "TS_DONE", "UNDERFLOW_TSOVER"}

\* The bytes of the frames in s: <<n, b>> is byte b of the n-th frame.
ByteSet(s) == UNION {{n} \X (1..s[n].size) : n \in DOMAIN s}
Bytes(s) == Cardinality(ByteSet(s))
SpanOver(from, to, d) == to - from > d
FILEDURATION == (fileDuration - Margin) % Word

AVInit == /\ bufList = <<>> /\ iFrameList = <<>> /\ numOfKeyFrames = 0
          /\ freeSize = Capacity
          /\ fileDuration \in Durations
          /\ feed = <<>> /\ status = "UNDERFLOW"
          /\ req \in [ts : {0}, size : Sizes, key : {FALSE}]
          /\ lastTS = 0
          /\ pc = "idle"

(***************************************************************************)
(* RecycleIFrameList: release the oldest GOP.  Nothing is released when    *)
(* the list does not start with a key frame.  It answers FALSE then, and   *)
(* when the release leaves an empty list.                                  *)
(***************************************************************************)
GOPEnds(s) == {n \in 1..Len(s) : n = Len(s) \/ s[n+1].key}
GOPLength(s) == CHOOSE n \in GOPEnds(s) : \A m \in GOPEnds(s) : n <= m
OldestGOP == IF bufList # <<>> /\ bufList[1].key THEN GOPLength(bufList) ELSE 0

RecycleSucceeds == bufList = <<>> \/ OldestGOP \in 1..(Len(bufList) - 1)

Released == Bytes(SubSeq(bufList, 1, OldestGOP))

\* Slip: _IFrameList.pop_front() is forgotten.
PopIFrame_Forgotten == numOfKeyFrames' = numOfKeyFrames - 1 /\ UNCHANGED iFrameList

PopIFrame == numOfKeyFrames' = numOfKeyFrames - 1 /\ iFrameList' = Tail(iFrameList)

RecycleIFrameList ==
  IF OldestGOP = 0 THEN UNCHANGED listVars
  ELSE /\ bufList' = SubSeq(bufList, OldestGOP + 1, Len(bufList))
       /\ freeSize' = freeSize + Released
       /\ PopIFrame

\* Slip: erasing starts one position late, and a list of two stays as it is.
Thinned_OneLate(s) == [n \in 1..(1 + Len(s) \div 2) |-> IF n = 1 THEN s[1] ELSE s[2*n - 2]]

\* The loop for a list with one GOP: starting behind the head it erases every
\* other buffer, so the positions 1, 3, 5... survive.
Thinned(s) == [n \in 1..((Len(s) + 1) \div 2) |-> s[2*n - 1]]

\* Slip: the buffers that stay are given back as well.
Erased_All == Bytes(bufList)

Erased == Bytes(bufList) - Bytes(Thinned(bufList))

ThinOut == /\ bufList' = Thinned(bufList)
           /\ freeSize' = freeSize + Erased
           /\ UNCHANGED <<iFrameList, numOfKeyFrames>>

(***************************************************************************)
(* PutData                                                                 *)
(***************************************************************************)
PutSkipped(f) == bufList = <<>> /\ ~f.key

PutData(f) ==
  /\ pc = "idle"
  /\ lastTS' = f.ts
  /\ req' = f
  /\ pc' = IF PutSkipped(f) THEN "put" ELSE "size"
  /\ UNCHANGED <<listVars, fileDuration, feed, status>>

Arrive == \E gap \in Gaps, size \in Sizes, key \in BOOLEAN :
             /\ lastTS + gap <= MaxTS
             /\ PutData([ts |-> lastTS + gap, size |-> size, key |-> key])

SingleGOP == numOfKeyFrames <= 1

\* One iteration of "check by size" on a list with at most one key frame ...
MakeRoomInGOP ==
  /\ pc = "size" /\ freeSize < req.size /\ SingleGOP
  /\ ThinOut
  /\ UNCHANGED <<fileDuration, feed, status, req, lastTS, pc>>

\* ... and on one that, by its counter, has several.
MakeRoomByGOP ==
  /\ pc = "size" /\ freeSize < req.size /\ ~SingleGOP
  /\ RecycleIFrameList
  /\ pc' = IF RecycleSucceeds THEN "size" ELSE "put"
  /\ UNCHANGED <<fileDuration, feed, status, req, lastTS>>

\* "check by timestamp": at most one GOP goes, when the second one is old enough.
TooOld == Len(iFrameList) >= 2 /\ SpanOver(iFrameList[2].ts, req.ts, FILEDURATION)

CheckByTimestamp ==
  /\ pc = "size" /\ freeSize >= req.size
  /\ IF TooOld
       THEN RecycleIFrameList /\ pc' = IF RecycleSucceeds THEN "append" ELSE "put"
       ELSE pc' = "append" /\ UNCHANGED listVars
  /\ UNCHANGED <<fileDuration, feed, status, req, lastTS>>

\* GetNewAVBuffer and the two push_backs.
AppendBuffer ==
  /\ pc = "append"
  /\ pc' = "put"
  /\ IF freeSize >= req.size
       THEN /\ bufList' = Append(bufList, req)
            /\ freeSize' = freeSize - req.size
            /\ IF req.key
                 THEN /\ iFrameList' = Append(iFrameList, req)
                      /\ numOfKeyFrames' = numOfKeyFrames + 1
                 ELSE UNCHANGED <<iFrameList, numOfKeyFrames>>
       ELSE UNCHANGED listVars
  /\ UNCHANGED <<fileDuration, feed, status, req, lastTS>>

\* PutData has returned and its caller does not go on to GetBufferList.
PutReturns == /\ pc = "put" /\ pc' = "idle"
              /\ UNCHANGED <<listVars, fileDuration, feed, status, req, lastTS>>

(***************************************************************************)
(* GetBufferList moves whole GOPs to the writer while a later key frame    *)
(* closes them (_IFrameList.size() >= 2).  It stops behind the first GOP   *)
(* that reaches the wanted duration or the wanted size.  The key frames    *)
(* leave _IFrameList, but _numOfKeyFrames is not touched.                  *)
(***************************************************************************)
LaterKeyFrames == {iFrameList[k] : k \in 2..Len(iFrameList)}
ClosedEnds == {n \in 1..(Len(bufList) - 1) : bufList[n+1] \in LaterKeyFrames}
SpanReached(n, startTS) == bufList[n].ts - startTS >= FILEDURATION
SizeReached(n) == Bytes(SubSeq(bufList, 1, n)) >= ChunkSize
StopEnds(startTS) == {n \in ClosedEnds : SpanReached(n, startTS) \/ SizeReached(n)}

Moved(startTS) ==
  LET stops == StopEnds(startTS)
  IN  IF stops # {} THEN CHOOSE n \in stops : \A m \in stops : n <= m
      ELSE IF ClosedEnds # {} THEN CHOOSE n \in ClosedEnds : \A m \in ClosedEnds : n >= m
      ELSE 0

StatusOf(n, startTS) ==
  IF n > 0 /\ SpanReached(n, startTS) THEN "TS_DONE"
  ELSE IF n > 0 /\ SizeReached(n) THEN "SIZE_DONE"
  ELSE IF n = 0 /\ bufList # <<>> /\ Last(bufList).ts - bufList[1].ts >= FILEDURATION
       THEN "UNDERFLOW_TSOVER"
  ELSE "UNDERFLOW"

\* The rest of s from f on.
FromFrame(f, s) == SubSeq(s, CHOOSE k \in 1..Len(s) : s[k] = f, Len(s))

\* Slip: the frames are copied to the writer but stay in the list.
Kept_All(n) == bufList

\* Slip: the last frame lent stays in the list.
Kept_LastLent(n) == SubSeq(bufList, IF n = 0 THEN 1 ELSE n, Len(bufList))

Kept(n) == SubSeq(bufList, n + 1, Len(bufList))

GetBufferList(startTS) ==
  /\ pc = "put"
  /\ LET n == Moved(startTS) IN
       /\ feed' = SubSeq(bufList, 1, n)
       /\ bufList' = Kept(n)
       /\ iFrameList' = IF n = 0 THEN iFrameList ELSE FromFrame(bufList[n+1], iFrameList)
       /\ status' = StatusOf(n, startTS)
  /\ pc' = "lent"
  /\ UNCHANGED <<numOfKeyFrames, freeSize, fileDuration, req, lastTS>>

\* The writer asks with the first time stamp of its clip, which GetStartTS took
\* from the front of the list at some earlier moment.
Fetch == \E startTS \in 1..MaxTS :
            /\ bufList # <<>> => startTS <= bufList[1].ts
            /\ GetBufferList(startTS)

Recycle ==
  /\ pc = "lent"
  /\ freeSize' = freeSize + Bytes(feed)
  /\ feed' = <<>>
  /\ pc' = "idle"
  /\ UNCHANGED <<bufList, iFrameList, numOfKeyFrames, fileDuration, status, req, lastTS>>

\* Called by the alarm handler between frames, and on the end of a clip while
\* the frames just fetched are still lent.
SetFileDuration(d) ==
  /\ pc \in {"idle", "lent"}
  /\ fileDuration' = d
  /\ UNCHANGED <<listVars, feed, status, req, lastTS, pc>>

AVNext == \/ Arrive
          \/ MakeRoomInGOP \/ MakeRoomByGOP \/ CheckByTimestamp \/ AppendBuffer
          \/ PutReturns \/ Fetch \/ Recycle
          \/ \E d \in Durations : SetFileDuration(d)

AVSpec == AVInit /\ [][AVNext]_avVars

\* A call that was entered runs on: the program does not stop inside PutData.
PutSteps == MakeRoomInGOP \/ MakeRoomByGOP \/ CheckByTimestamp \/ AppendBuffer
AVFairSpec == AVSpec /\ WF_avVars(PutSteps)

-----------------------------------------------------------------------------
(***************************************************************************)
(* Properties                                                              *)
(***************************************************************************)

Increasing(s) == \A i, j \in 1..Len(s) : i < j => s[i].ts < s[j].ts

\* Every variable keeps its type; _freeSize, an unsigned number in the code,
\* never wraps below 0 nor exceeds the capacity.
TypeOK ==
  /\ bufList \in Seq(Frame) /\ iFrameList \in Seq(Frame) /\ feed \in Seq(Frame)
  /\ numOfKeyFrames \in Nat
  /\ freeSize \in 0..Capacity
  /\ fileDuration \in Durations
  /\ status \in Status /\ req \in Frame /\ lastTS \in Nat
  /\ pc \in {"idle", "size", "append", "put", "lent"}

\* No byte is lost or counted twice on any path: the free size, the buffered
\* frames and the frames lent to the writer always add up to the capacity.
BytesConserved == freeSize + Bytes(bufList) + Bytes(feed) = Capacity

\* The buffer can be decoded from its first frame on: recycling, thinning and
\* lending always leave a key frame at the head, so the FATAL at line 31 of
\* RecycleIFrameList is never reached.
HeadIsKeyFrame == bufList # <<>> => bufList[1].key

\* _IFrameList holds exactly the key frames of _bufList, in order: no path
\* leaves a pointer to a buffer that was deleted or misses a key frame.
IFramesExact == /\ Increasing(bufList) /\ Increasing(iFrameList)
                /\ Range(iFrameList) = {f \in Range(bufList) : f.key}

\* What the writer gets is whole GOPs: it starts with a key frame, is older
\* than everything still buffered, and the next frame is a key frame.
LentWholeGOPs ==
  feed # <<>> => /\ feed[1].key
                 /\ Increasing(feed)
                 /\ bufList # <<>> /\ bufList[1].key
                 /\ feed[Len(feed)].ts < bufList[1].ts

\* The key frame counter decides how PutData makes room.  It never falls below
\* the number of key frames, so thinning never erases a key frame.
CounterCoversKeyFrames == Len(iFrameList) <= numOfKeyFrames

\* On every path the byte count, the key frame at the head, the list of key
\* frames and their counter agree with the frames that are buffered: PutData
\* picks the frames to delete by those four, GetBufferList the frames to lend.
BufferConsistent ==
  BytesConserved /\ HeadIsKeyFrame /\ IFramesExact /\ CounterCoversKeyFrames

\* A call to PutData returns: its unbounded loop always finds room.
PutDataReturns == pc \in {"size", "append"} ~> pc = "put"

\* What the error path at line 46 of RecycleIFrameList says cannot happen: a
\* recycle leaves at least the newest GOP in the buffer.
RecycleKeepsNewestGOP == [][bufList # <<>> => bufList' # <<>>]_avVars
=============================================================================
