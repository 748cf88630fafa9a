---------------------------- MODULE TimersManager ----------------------------
(***************************************************************************)
(* TimersManager (common/src/utils/misc/timersmanager.cpp): a wheel with   *)
(* one slot per second.  The wheel has as many slots as the least common   *)
(* multiple of all periods ever used, and a timer sits in every slot that  *)
(* is a multiple of its period away from the slot it was put into first.   *)
(* The wheel is rebuilt when a new period makes it longer.                 *)
(*                                                                         *)
(* TimeElapsed calls back into the program for every timer of a slot while *)
(* it walks that slot's map, so it is modelled call by call.  A callback   *)
(* may add a timer of a known period and remove other timers, as those of  *)
(* this program do.  A callback that removes its own timer or brings a new *)
(* period would leave the walk with a dead iterator.                       *)
(* Timer ids are the ids of I/O handlers, which only grow.                 *)
(***************************************************************************)
EXTENDS Integers, Sequences, FiniteSets, FiniteSetsExt, Functions

CONSTANTS Periods,      \* the periods of this program's timers, in seconds
          Deltas,       \* seconds that pass between two calls of TimeElapsed
          BurstLimit,   \* 180: a longer pause counts as one second
          MaxTimers,    \* bound on timers ever created, for TLC
          IndexCycle    \* a multiple of all periods: only the rest of the hand
                        \* modulo the wheel's length matters, so it is kept
                        \* modulo this

ASSUME TimersAssumption ==
  /\ Periods \subseteq Nat \ {0} /\ Deltas \subseteq Int
  /\ BurstLimit \in Nat /\ MaxTimers \in Nat /\ IndexCycle \in Nat \ {0}
  /\ \A p \in Periods : IndexCycle % p = 0

VARIABLES slots,             \* _pSlots: the ids in each slot
          periodsVector,     \* _periodsVector
          periodOf,          \* the period in the TimerEvent of each timer
          currentSlotIndex,  \* _currentSlotIndex
          owed,              \* slots the running TimeElapsed still has to do
          cursor,            \* id of the timer it called last in this slot
          calling,           \* that call has not returned
          lastId,            \* IOHandler::_idGenerator
          fired              \* history: timers called in this slot

wheelVars == <<slots, periodsVector, periodOf>>
walkVars == <<currentSlotIndex, owed, cursor, calling, fired>>
tmVars == <<wheelVars, walkVars, lastId>>

Ids == 1..MaxTimers
Timers == DOMAIN periodOf
SlotsCount == Cardinality(DOMAIN slots)
CurrentSlot == slots[currentSlotIndex % SlotsCount]

TMInit ==
  /\ slots = <<>> /\ periodsVector = <<>> /\ periodOf = <<>>
  /\ currentSlotIndex = 0 /\ owed = 0 /\ cursor = 0 /\ calling = FALSE
  /\ lastId = 0 /\ fired = {}

(***************************************************************************)
(* AddTimer and RemoveTimer                                                *)
(***************************************************************************)
Divides(d, n) == n % d = 0
\* What the two recursions, over the periods and of Euclid, come to.
CommonMultiples(ps) == {n \in 1..IndexCycle : \A i \in DOMAIN ps : Divides(ps[i], n)}
LCM(ps) == Min(CommonMultiples(ps))

\* Slip: a longer wheel is filled with one copy of the old one.
Rebuilt_Once(n) == [s \in 0..(n - 1) |-> IF s < SlotsCount THEN slots[s] ELSE {}]

\* Slip: the slots are filled from 1 on.
Rebuilt_FromOne(n) == [s \in 1..n |-> IF SlotsCount = 0 THEN {} ELSE slots[s % SlotsCount]]

\* The wheel with n slots: the old one over and over.
Rebuilt(n) == [s \in 0..(n - 1) |-> IF SlotsCount = 0 THEN {} ELSE slots[s % SlotsCount]]

WheelFor(ps) == IF LCM(ps) = SlotsCount THEN slots ELSE Rebuilt(LCM(ps))

\* The first of the slots with the fewest timers.
StartIndex(wheel) ==
  Min({s \in DOMAIN wheel : \A r \in DOMAIN wheel :
         Cardinality(wheel[s]) <= Cardinality(wheel[r])})

\* Every p-th slot from start on, round the wheel, until one already has the timer.
SlotsOf(start, p, n) == {(start + k * p) % n : k \in 0..(n - 1)}

AddTimer(p) ==
  LET id == lastId + 1
      ps == IF p \in Range(periodsVector) THEN periodsVector ELSE Append(periodsVector, p)
      wheel == WheelFor(ps)
      mine == SlotsOf(StartIndex(wheel), p, Cardinality(DOMAIN wheel))
  IN /\ id \in Ids /\ lastId' = id
     /\ owed = 0 \/ (calling /\ p \in Range(periodsVector))
     /\ periodsVector' = ps
     /\ slots' = [s \in DOMAIN wheel |-> IF s \in mine THEN wheel[s] \cup {id} ELSE wheel[s]]
     /\ periodOf' = [t \in Timers \cup {id} |-> IF t = id THEN p ELSE periodOf[t]]
     /\ UNCHANGED walkVars

Without(id) == [s \in DOMAIN slots |-> slots[s] \ {id}]

RemoveTimer(id) ==
  /\ id \in Timers
  /\ owed = 0 \/ (calling /\ id # cursor)
  /\ slots' = Without(id)
  /\ periodOf' = Restrict(periodOf, Timers \ {id})
  /\ fired' = fired \ {id}
  /\ UNCHANGED <<periodsVector, currentSlotIndex, owed, cursor, calling, lastId>>

(***************************************************************************)
(* TimeElapsed                                                             *)
(***************************************************************************)
Burst(delta) == IF delta > BurstLimit THEN 1 ELSE delta

TimeElapsed(delta) ==
  /\ owed = 0 /\ delta > 0 /\ SlotsCount # 0
  /\ owed' = Burst(delta)
  /\ UNCHANGED <<wheelVars, currentSlotIndex, cursor, calling, lastId, fired>>

Ahead == {t \in CurrentSlot : t > cursor}

ProcessTimer ==
  /\ owed > 0 /\ ~calling /\ Ahead # {}
  /\ cursor' = Min(Ahead)
  /\ calling' = TRUE
  /\ fired' = fired \cup {cursor'}
  /\ UNCHANGED <<wheelVars, currentSlotIndex, owed, lastId>>

CallReturns ==
  /\ calling /\ calling' = FALSE
  /\ UNCHANGED <<wheelVars, currentSlotIndex, owed, cursor, lastId, fired>>

\* Slip: the hand stays on a slot nobody was called in.
NextIndex_IfFired == IF fired = {} THEN currentSlotIndex ELSE (currentSlotIndex + 1) % IndexCycle

NextIndex == (currentSlotIndex + 1) % IndexCycle

NextSlot ==
  /\ owed > 0 /\ ~calling /\ Ahead = {}
  /\ owed' = owed - 1
  /\ currentSlotIndex' = NextIndex
  /\ cursor' = 0
  /\ fired' = {}
  /\ UNCHANGED <<wheelVars, calling, lastId>>

TMNext == \/ \E p \in Periods : AddTimer(p)
          \/ \E id \in Ids : RemoveTimer(id)
          \/ \E delta \in Deltas : TimeElapsed(delta)
          \/ ProcessTimer \/ CallReturns \/ NextSlot

TMSpec == TMInit /\ [][TMNext]_tmVars

\* The loop calls TimeElapsed again and again, at least once a second, and a
\* call of it runs to its end.
Elapse == \E delta \in Deltas : TimeElapsed(delta)
TMFairSpec == TMSpec /\ WF_tmVars(Elapse) /\ WF_tmVars(ProcessTimer \/ CallReturns \/ NextSlot)

-----------------------------------------------------------------------------
(***************************************************************************)
(* Properties                                                              *)
(***************************************************************************)

\* Every variable keeps its type.
TypeOK ==
  /\ slots \in [0..(SlotsCount - 1) -> SUBSET Ids]
  /\ periodsVector \in Seq(Periods)
  /\ Timers \subseteq 1..lastId /\ \A t \in Timers : periodOf[t] \in Periods
  /\ currentSlotIndex \in 0..(IndexCycle - 1)
  /\ owed \in Nat /\ cursor \in 0..MaxTimers /\ calling \in BOOLEAN
  /\ lastId \in 0..MaxTimers /\ fired \subseteq Timers

\* Slots until the next one with the timer.
DueIn(t) == Min({k \in 0..(SlotsCount - 1) : t \in slots[(currentSlotIndex + k) % SlotsCount]})

Countdowns == INSTANCE PeriodicTimers WITH
                period <- periodOf,
                due <- [t \in Timers |-> DueIn(t)]

\* Every timer fires once in each of its periods, neither moved by a rebuilt
\* wheel nor by what the callbacks of other timers do: the wheel implements
\* the countdowns of PeriodicTimers.
ImplementsCountdowns ==
  [][ \/ \E t \in Ids : \/ \E p \in Periods, d \in 0..(IndexCycle - 1) : Countdowns!Register(t, p, d)
                        \/ Countdowns!Cancel(t)
                        \/ Countdowns!Fire(t)
      \/ Countdowns!Tick
      \/ UNCHANGED Countdowns!timerVars ]_tmVars

\* A timer that is not removed is called again and again.
TimersKeepFiring == \A t \in Ids : t \in Timers ~> t \in fired \/ t \notin Timers
=============================================================================
