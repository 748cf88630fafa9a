--------------------------- MODULE IOLoop_proofs ----------------------------
(***************************************************************************)
(* Proofs about the loop around select, for any number of handlers and     *)
(* descriptors: the descriptor sets are what the live handlers want, no    *)
(* closed socket is ever selected, and every open one has a handler that   *)
(* will close it.                                                          *)
(***************************************************************************)
EXTENDS IOLoop, FiniteSetTheorems, WellFoundedInduction, TLAPS

(***************************************************************************)
(* Operators                                                               *)
(***************************************************************************)
LEMMA SmallestNumber ==
  ASSUME NEW S \in SUBSET Nat, S # {}
  PROVE  Min(S) \in S /\ \A y \in S : Min(S) <= y
<1> DEFINE below == OpToRel(<, Nat)
<1>1. IsWellFoundedOn(below, Nat)
  BY NatLessThanWellFounded
<1> HIDE DEF below
<1>2. PICK x \in S : \A y \in S : ~(<<y, x>> \in below)
  BY <1>1, WFMin
<1>3. ASSUME NEW y \in S PROVE x <= y
  <2>1. x \in Nat /\ y \in Nat
    OBVIOUS
  <2>2. ~(<<y, x>> \in below)
    BY <1>2
  <2> QED
    BY <2>1, <2>2 DEF below, OpToRel
<1> QED
  BY <1>3 DEF Min

\* Of the places that are kept one is the first, one the second and so on.
LEMMA PlaceProperties ==
  ASSUME NEW N \in Nat, NEW places \in SUBSET (1 .. N)
  PROVE  /\ Cardinality(places) \in Nat
         /\ \A i \in places : Place(i, places) \in 1 .. Cardinality(places)
         /\ \A i, j \in places : Place(i, places) = Place(j, places) => i = j
         /\ \A n \in 1 .. Cardinality(places) : \E i \in places : Place(i, places) = n
<1> DEFINE upTo(i) == {j \in places : j <= i}
<1>0. \A i \in places : i \in Nat /\ 1 <= i /\ i <= N
  OBVIOUS
<1>1. IsFiniteSet(places) /\ Cardinality(places) \in Nat
  <2>1. IsFiniteSet(1 .. N)
    BY FS_Interval
  <2>2. IsFiniteSet(places)
    BY <2>1, FS_Subset
  <2> QED
    BY <2>2, FS_CardinalityType
<1>2. ASSUME NEW i \in 0 .. N
      PROVE  /\ IsFiniteSet(upTo(i)) /\ Place(i, places) = Cardinality(upTo(i))
             /\ Place(i, places) \in 0 .. Cardinality(places)
  <2>1. upTo(i) \in SUBSET places
    OBVIOUS
  <2>2. IsFiniteSet(upTo(i)) /\ Cardinality(upTo(i)) <= Cardinality(places)
    BY <1>1, <2>1, FS_Subset
  <2>3. Cardinality(upTo(i)) \in Nat
    BY <2>2, FS_CardinalityType
  <2> QED
    BY <1>1, <2>2, <2>3 DEF Place
<1>3. Place(0, places) = 0 /\ Place(N, places) = Cardinality(places)
  <2>1. upTo(0) = {}
    <3>1. \A j \in places : ~(j <= 0)
      BY <1>0
    <3> QED
      BY <3>1
  <2>2. upTo(N) = places
    BY <1>0
  <2> QED
    BY <2>1, <2>2, FS_EmptySet DEF Place
<1>4. ASSUME NEW i \in 1 .. N
      PROVE  Place(i, places) = IF i \in places THEN Place(i - 1, places) + 1
                                ELSE Place(i - 1, places)
  <2>1. i - 1 \in 0 .. N /\ i \notin upTo(i - 1)
    OBVIOUS
  <2>2. upTo(i) = IF i \in places THEN upTo(i - 1) \cup {i} ELSE upTo(i - 1)
    <3>1. \A j \in places : j <= i <=> j <= i - 1 \/ j = i
      BY <1>0
    <3> QED
      BY <3>1
  <2>3. IsFiniteSet(upTo(i - 1))
    BY <1>2, <2>1
  <2>4. Place(i, places) = Cardinality(upTo(i)) /\ Place(i - 1, places) = Cardinality(upTo(i - 1))
    BY DEF Place
  <2> HIDE DEF upTo
  <2>5. Cardinality(upTo(i - 1) \cup {i}) = Cardinality(upTo(i - 1)) + 1
    BY <2>1, <2>3, FS_AddElement
  <2> QED
    BY <2>2, <2>4, <2>5
<1>5. ASSUME NEW i \in places PROVE Place(i, places) \in 1 .. Cardinality(places)
  <2>1. i \in 1 .. N /\ i \in 0 .. N /\ i - 1 \in 0 .. N
    OBVIOUS
  <2>2. Place(i, places) = Place(i - 1, places) + 1
    BY <1>4, <2>1
  <2>3. Place(i, places) \in 0 .. Cardinality(places)
    BY <1>2, <2>1
  <2>4. Place(i - 1, places) \in 0 .. Cardinality(places)
    BY <1>2, <2>1
  <2> QED
    BY <1>1, <2>2, <2>3, <2>4
<1>6. ASSUME NEW i \in places, NEW j \in places, i < j
      PROVE  Place(i, places) # Place(j, places)
  <2>1. i \in 0 .. N /\ j \in 0 .. N
    OBVIOUS
  <2>2. upTo(i) \in SUBSET upTo(j) /\ j \in upTo(j) /\ j \notin upTo(i)
    <3>1. \A k \in places : k <= i => k <= j
      BY <1>0, <1>6
    <3>2. j <= j /\ ~(j <= i)
      BY <1>0, <1>6
    <3> QED
      BY <3>1, <3>2
  <2>3. /\ IsFiniteSet(upTo(j)) /\ Place(i, places) = Cardinality(upTo(i))
        /\ Place(j, places) = Cardinality(upTo(j))
    BY <1>2, <2>1
  <2> HIDE DEF upTo
  <2> QED
    BY <2>2, <2>3, FS_Subset
<1>7. ASSUME NEW n \in 1 .. Cardinality(places)
      PROVE  \E i \in places : Place(i, places) = n
  <2> DEFINE reached == {i \in 0 .. N : Place(i, places) >= n}
             x == Min(reached)
  <2>1. N \in reached /\ reached \in SUBSET Nat
    BY <1>1, <1>3
  <2>2. x \in reached /\ \A y \in reached : x <= y
    BY <2>1, SmallestNumber
  <2>3. x \in 0 .. N /\ Place(x, places) >= n
    BY <2>2
  <2>4. x # 0
    BY <1>1, <1>3, <2>3
  <2>5. x \in 1 .. N /\ x - 1 \in 0 .. N
    BY <2>3, <2>4
  <2>6. ~(Place(x - 1, places) >= n)
    <3>1. x - 1 \notin reached
      BY <2>2, <2>5
    <3> QED
      BY <2>5, <3>1
  <2> HIDE DEF x, reached
  <2>7. Place(x - 1, places) \in 0 .. Cardinality(places)
    BY <1>2, <2>5
  <2>8. CASE x \in places
    <3>1. Place(x, places) = Place(x - 1, places) + 1
      BY <1>4, <2>5, <2>8
    <3>2. Place(x, places) = n
      BY <1>1, <2>3, <2>6, <2>7, <3>1
    <3> QED
      BY <2>8, <3>2
  <2>9. CASE x \notin places
    BY <1>4, <2>3, <2>5, <2>6, <2>9
  <2> QED
    BY <2>8, <2>9
<1> QED
  <2>1. \A i, j \in places : i \in Nat /\ j \in Nat
    OBVIOUS
  <2> QED
    BY <1>1, <1>5, <1>6, <1>7, <2>1

Listed == active \in Seq(Handlers) /\ IsInjective(active) /\ ToSet(active) = Handlers \ Of("none")

LEMMA RegisteredProperties ==
  ASSUME Listed, NEW hs \in SUBSET Handlers
  PROVE  /\ Registered(hs) \in Seq(Handlers) /\ IsInjective(Registered(hs))
         /\ ToSet(Registered(hs)) = ToSet(active) \ hs
<1> DEFINE kept == {i \in DOMAIN active : active[i] \notin hs}
           total == Cardinality(kept)
           at_(n) == CHOOSE i \in kept : Place(i, kept) = n
<1>1. Len(active) \in Nat /\ DOMAIN active = 1 .. Len(active) /\ kept \in SUBSET (1 .. Len(active))
  BY DEF Listed
<1>2. Registered(hs) = [n \in 1 .. total |-> active[at_(n)]]
  BY DEF Registered
<1>3. /\ total \in Nat
      /\ \A i \in kept : Place(i, kept) \in 1 .. total
      /\ \A i, j \in kept : Place(i, kept) = Place(j, kept) => i = j
      /\ \A n \in 1 .. total : \E i \in kept : Place(i, kept) = n
  <2> HIDE DEF kept
  <2> QED
    BY <1>1, PlaceProperties
<1>4. \A i \in kept : i \in DOMAIN active /\ active[i] \in Handlers \ hs
  BY <1>1 DEF Listed
<1>5. \A i, j \in kept : active[i] = active[j] => i = j
  BY DEF Listed, IsInjective
<1>6. \A h \in ToSet(active) \ hs : \E i \in kept : active[i] = h
  BY DEF ToSet
<1> HIDE DEF kept
<1>7. ASSUME NEW n \in 1 .. total PROVE at_(n) \in kept /\ Place(at_(n), kept) = n
  BY <1>3
<1>8. \A i \in kept : at_(Place(i, kept)) = i
  BY <1>3, <1>7
<1> HIDE DEF at_, total
<1>9. Registered(hs) \in Seq(Handlers) /\ DOMAIN Registered(hs) = 1 .. total
  BY <1>2, <1>3, <1>4, <1>7
<1>10. IsInjective(Registered(hs))
  <2> SUFFICES ASSUME NEW m \in 1 .. total, NEW n \in 1 .. total,
                      active[at_(m)] = active[at_(n)]
               PROVE  m = n
    BY <1>2 DEF IsInjective
  <2>1. at_(m) = at_(n)
    BY <1>5, <1>7
  <2> QED
    BY <1>7, <2>1
<1>11. ToSet(Registered(hs)) \subseteq ToSet(active) \ hs
  <2> SUFFICES ASSUME NEW n \in 1 .. total PROVE active[at_(n)] \in ToSet(active) \ hs
    BY <1>2 DEF ToSet
  <2> QED
    BY <1>4, <1>7 DEF ToSet
<1>12. ToSet(active) \ hs \subseteq ToSet(Registered(hs))
  <2> SUFFICES ASSUME NEW h \in ToSet(active) \ hs
               PROVE  \E n \in 1 .. total : active[at_(n)] = h
    BY <1>2 DEF ToSet
  <2>1. PICK i \in kept : active[i] = h
    BY <1>6
  <2>2. Place(i, kept) \in 1 .. total /\ at_(Place(i, kept)) = i
    BY <1>3, <1>8
  <2> QED
    BY <2>1, <2>2
<1> QED
  BY <1>9, <1>10, <1>11, <1>12

LEMMA AppendedList ==
  ASSUME Listed, NEW h \in Handlers, kind[h] = "none"
  PROVE  /\ Append(active, h) \in Seq(Handlers) /\ IsInjective(Append(active, h))
         /\ ToSet(Append(active, h)) = ToSet(active) \cup {h}
         /\ Len(Append(active, h)) = Len(active) + 1
         /\ Append(active, h)[Len(active) + 1] = h
         /\ \A i \in 1 .. Len(active) : Append(active, h)[i] = active[i]
<1>1. Len(active) \in Nat /\ DOMAIN active = 1 .. Len(active) /\ active \in Seq(Handlers)
  BY DEF Listed
<1>2. /\ Append(active, h) \in Seq(Handlers) /\ Len(Append(active, h)) = Len(active) + 1
      /\ DOMAIN Append(active, h) = 1 .. Len(active) + 1
      /\ Append(active, h)[Len(active) + 1] = h
      /\ \A i \in 1 .. Len(active) : Append(active, h)[i] = active[i]
  BY <1>1
<1>3. \A i \in 1 .. Len(active) : active[i] # h
  BY <1>1 DEF Listed, ToSet, Of
<1>4. IsInjective(Append(active, h))
  <2> SUFFICES ASSUME NEW i \in 1 .. Len(active) + 1, NEW j \in 1 .. Len(active) + 1,
                      Append(active, h)[i] = Append(active, h)[j]
               PROVE  i = j
    BY <1>2 DEF IsInjective
  <2>1. \A k \in 1 .. Len(active) + 1 : k \in 1 .. Len(active) \/ k = Len(active) + 1
    BY <1>1
  <2>2. \A k, l \in 1 .. Len(active) : active[k] = active[l] => k = l
    BY <1>1 DEF Listed, IsInjective
  <2> QED
    BY <1>2, <1>3, <2>1, <2>2
<1>5. ToSet(Append(active, h)) = ToSet(active) \cup {h}
  <2>1. \A k : k \in 1 .. Len(active) + 1 <=> k \in 1 .. Len(active) \/ k = Len(active) + 1
    BY <1>1
  <2> QED
    BY <1>1, <1>2, <2>1 DEF ToSet
<1> QED
  BY <1>2, <1>4, <1>5

LEMMA ListedLength ==
  ASSUME Listed
  PROVE  Len(active) \in Nat /\ Cardinality(Handlers) \in Nat
         /\ Len(active) <= Cardinality(Handlers)
<1>1. active \in Injection(1 .. Len(active), Handlers) /\ Len(active) \in Nat
  BY DEF Listed, Injection
<1>2. Cardinality(1 .. Len(active)) = Len(active)
  <2>1. Cardinality(1 .. Len(active)) = IF 1 > Len(active) THEN 0 ELSE Len(active) - 1 + 1
    BY <1>1, FS_Interval
  <2> QED
    BY <1>1, <2>1
<1> QED
  BY <1>1, <1>2, FS_Injection, FS_CardinalityType, LoopAssumption

(***************************************************************************)
(* Types.  Besides what TypeOK says every handler has a descriptor.        *)
(***************************************************************************)
FdsGiven == \A h \in Handlers : kind[h] # "none" => fd[h] \in Fds
TypeInv == TypeOK /\ FdsGiven

LEMMA ConstantTypes ==
  /\ MaxFd \in Nat /\ MaxTimers \in Nat /\ MaxTimers <= MaxFd
  /\ Acceptor \in Handlers /\ 1 \in Fds /\ Fds \in SUBSET Nat
BY LoopAssumption DEF Fds

LEMMA ListIsListed == ASSUME TypeOK PROVE Listed
BY DEF TypeOK, Listed

LEMMA EventProperties ==
  ASSUME TypeOK, NEW h, NEW type, Event(h, type)
  PROVE  /\ phase = "events" /\ UNCHANGED <<phase, readCopy, writeCopy, again>>
         /\ h \in Handlers /\ kind[h] # "none"
         /\ at' > at /\ at' \in 1 .. (2 * Cardinality(Handlers) + 1)
         /\ \E i \in 1 .. Len(active) :
              /\ active[i] = h
              /\ type = "write" => at' = 2 * i + 1 /\ fd[h] \in writeCopy
<1> DEFINE e == Min(Pending)
<1>1. Pending # {} /\ at' = e /\ active[e \div 2] = h /\ phase = "events"
      /\ UNCHANGED <<phase, readCopy, writeCopy, again>>
      /\ type = (IF e % 2 = 0 THEN "read" ELSE "write")
  BY DEF Event
<1>2. Listed /\ at \in Nat /\ at >= 1
  BY DEF TypeOK, Listed
<1>3. Len(active) \in Nat /\ Cardinality(Handlers) \in Nat /\ Len(active) <= Cardinality(Handlers)
  BY <1>2, ListedLength
<1>4. Pending \in SUBSET Nat
  BY <1>2, <1>3 DEF Pending
<1>5. e \in Pending
  BY <1>1, <1>4, SmallestNumber
<1> HIDE DEF e
<1>6. /\ e \in (at + 1) .. (2 * Len(active) + 1)
      /\ fd[active[e \div 2]] \in (IF e % 2 = 0 THEN readCopy ELSE writeCopy)
  BY <1>5 DEF Pending
<1>7. e \in Nat /\ e > at /\ e >= 2 /\ e <= 2 * Len(active) + 1
  BY <1>2, <1>3, <1>6
<1>8. e \div 2 \in 1 .. Len(active)
  BY <1>3, <1>7
<1>9. e % 2 = 0 \/ e = 2 * (e \div 2) + 1
  BY <1>7
<1>10. h \in Handlers /\ kind[h] # "none"
  BY <1>1, <1>2, <1>8 DEF Listed, ToSet, Of
<1>11. e \in 1 .. (2 * Cardinality(Handlers) + 1)
  BY <1>3, <1>7
<1> QED
  BY <1>1, <1>6, <1>7, <1>8, <1>9, <1>10, <1>11

LEMMA FreshProperties ==
  ASSUME NEW h, FreshName(h)
  PROVE  h \in Handlers /\ kind[h] = "none"
BY DEF FreshName, Of

LEMMA LowestFreeProperties ==
  ASSUME Fds \ open # {}
  PROVE  LowestFree \in Fds \ open
BY ConstantTypes, SmallestNumber DEF LowestFree

LEMMA RegisterProperties ==
  ASSUME TypeInv, NEW h \in Handlers, kind[h] = "none",
         NEW k \in Kinds \ {"none"}, NEW f \in Fds, Register(h, k, f)
  PROVE  /\ kind' \in [Handlers -> Kinds] /\ fd' \in [Handlers -> 0 .. MaxFd]
         /\ kind'[h] = k /\ fd'[h] = f
         /\ \A g \in Handlers \ {h} : kind'[g] = kind[g] /\ fd'[g] = fd[g]
         /\ Listed' /\ ToSet(active') = ToSet(active) \cup {h} /\ FdsGiven'
<1>1. /\ kind' \in [Handlers -> Kinds] /\ fd' \in [Handlers -> 0 .. MaxFd]
      /\ kind'[h] = k /\ fd'[h] = f
      /\ \A g \in Handlers \ {h} : kind'[g] = kind[g] /\ fd'[g] = fd[g]
  BY ConstantTypes DEF TypeInv, TypeOK, Register, Fds
<1>2. /\ active' \in Seq(Handlers) /\ IsInjective(active')
      /\ ToSet(active') = ToSet(active) \cup {h}
  <2>1. Listed /\ active' = Append(active, h)
    BY ListIsListed DEF TypeInv, Register
  <2>2. /\ Append(active, h) \in Seq(Handlers) /\ IsInjective(Append(active, h))
        /\ ToSet(Append(active, h)) = ToSet(active) \cup {h}
    BY <2>1, AppendedList
  <2> QED
    BY <2>1, <2>2
<1>3. Handlers \ Of("none")' = (Handlers \ Of("none")) \cup {h}
  BY <1>1 DEF Of, Kinds
<1>4. FdsGiven'
  BY <1>1 DEF TypeInv, FdsGiven
<1> QED
  BY <1>1, <1>2, <1>3, <1>4 DEF Listed, TypeInv, TypeOK

LEMMA UpdateTypes ==
  ASSUME TypeOK, NEW fs \in SUBSET Fds, UpdateFdSets(fs)
  PROVE  readFds' \subseteq Fds /\ writeFds' \subseteq Fds
BY DEF TypeOK, UpdateFdSets

LEMMA EnqueueTypes ==
  ASSUME TypeInv, NEW h \in Handlers, kind[h] # "none", EnqueueForDelete({h})
  PROVE  /\ dead' = dead \cup {h} /\ dead' \subseteq ToSet(active)
         /\ readers' \in [Fds -> SUBSET Handlers] /\ writers' \in [Fds -> SUBSET Handlers]
         /\ readFds' \subseteq Fds /\ writeFds' \subseteq Fds /\ open' = open
<1>1. FdsOf({h}) \in SUBSET Fds
  BY DEF TypeInv, FdsGiven, FdsOf
<1>2. readFds' \subseteq Fds /\ writeFds' \subseteq Fds
  BY <1>1, UpdateTypes DEF TypeInv, EnqueueForDelete
<1>3. h \in ToSet(active)
  BY DEF TypeInv, TypeOK, Of
<1> QED
  BY <1>2, <1>3 DEF EnqueueForDelete, Disabled, TypeInv, TypeOK

LEMMA EnableTypes ==
  ASSUME TypeInv, NEW h \in Of("carrier"), EnableWriteData(h)
  PROVE  /\ writeDataEnabled' \subseteq Of("carrier") /\ UNCHANGED readers
         /\ writers' \in [Fds -> SUBSET Handlers]
         /\ readFds' \subseteq Fds /\ writeFds' \subseteq Fds
<1>1. fd[h] \in Fds /\ h \in Handlers
  BY DEF TypeInv, FdsGiven, Of
<1>2. readFds' \subseteq Fds /\ writeFds' \subseteq Fds
  BY <1>1, UpdateTypes DEF TypeInv, EnableWriteData
<1> QED
  BY <1>1, <1>2 DEF EnableWriteData, TypeInv, TypeOK

LEMMA CallTypes == ASSUME TypeInv, Calls PROVE TypeInv'
<1>0. PICK h \in Handlers : \/ \E works \in BOOLEAN : Connect(h, works)
                           \/ GiveUpConnector(h) \/ SignalOutputData(h)
                           \/ ProtocolEnqueueForDelete(h) \/ NewTimer(h) \/ DropTimer(h)
  BY DEF Calls
<1>1. ASSUME NEW works \in BOOLEAN, Connect(h, works) PROVE TypeInv'
  <2>1. kind[h] = "none" /\ LowestFree \in Fds \ open /\ Register(h, "connector", LowestFree)
    BY <1>1, FreshProperties, LowestFreeProperties DEF Connect
  <2>2. /\ kind' \in [Handlers -> Kinds] /\ fd' \in [Handlers -> 0 .. MaxFd]
        /\ kind'[h] = "connector" /\ \A g \in Handlers \ {h} : kind'[g] = kind[g]
        /\ Listed' /\ ToSet(active') = ToSet(active) \cup {h} /\ FdsGiven'
    BY <2>1, RegisterProperties DEF Kinds
  <2>3. Of("carrier")' = Of("carrier") /\ Of("connector")' = Of("connector") \cup {h}
    BY <2>1, <2>2 DEF Of
  <2>4. readFds' \subseteq Fds /\ writeFds' \subseteq Fds
    BY <1>1, <2>1, UpdateTypes DEF Connect, TypeInv
  <2> QED
    BY <1>1, <2>1, <2>2, <2>3, <2>4
    DEF TypeInv, TypeOK, Connect, Listed, roundVars, carrierVars
<1>2. CASE GiveUpConnector(h)
  BY <1>2, EnqueueTypes
  DEF GiveUpConnector, TypeInv, TypeOK, FdsGiven, Of, roundVars, carrierVars
<1>3. CASE SignalOutputData(h)
  <2>1. h \in Of("carrier") /\ EnableWriteData(h)
    BY <1>3 DEF SignalOutputData, Of
  <2> QED
    BY <1>3, <2>1, EnableTypes DEF SignalOutputData, TypeInv, TypeOK, FdsGiven, Of, roundVars
<1>4. CASE ProtocolEnqueueForDelete(h)
  BY <1>4
  DEF ProtocolEnqueueForDelete, TypeInv, TypeOK, FdsGiven, Of, fdVars, roundVars, carrierVars
<1>5. CASE NewTimer(h)
  <2>1. kind[h] = "none" /\ timersMade' \in Fds /\ Register(h, "timer", timersMade')
        /\ timersMade' \in 0 .. MaxTimers
    BY <1>5, FreshProperties, ConstantTypes DEF NewTimer, TypeInv, TypeOK, Fds
  <2>2. /\ kind' \in [Handlers -> Kinds] /\ fd' \in [Handlers -> 0 .. MaxFd]
        /\ kind'[h] = "timer" /\ \A g \in Handlers \ {h} : kind'[g] = kind[g]
        /\ Listed' /\ ToSet(active') = ToSet(active) \cup {h} /\ FdsGiven'
    BY <2>1, RegisterProperties DEF Kinds
  <2>3. Of("carrier")' = Of("carrier") /\ Of("connector")' = Of("connector")
    BY <2>1, <2>2 DEF Of
  <2> QED
    BY <1>5, <2>1, <2>2, <2>3
    DEF TypeInv, TypeOK, NewTimer, Listed, fdVars, roundVars, carrierVars
<1>6. CASE DropTimer(h)
  BY <1>6, EnqueueTypes DEF DropTimer, TypeInv, TypeOK, FdsGiven, Of, roundVars, carrierVars
<1> QED
  BY <1>0, <1>1, <1>2, <1>3, <1>4, <1>5, <1>6

LEMMA TimerTypes ==
  ASSUME TypeInv, NEW h \in Handlers, kind[h] = "timer", TimePeriodElapsed(h),
         at' \in 1 .. (2 * Cardinality(Handlers) + 1),
         UNCHANGED <<phase, readCopy, writeCopy, again>>
  PROVE  TypeInv'
<1>1. CASE UNCHANGED <<dead, fdVars, open>>
  BY <1>1 DEF TimePeriodElapsed, TypeInv, TypeOK, FdsGiven, Of, fdVars, carrierVars
<1>2. CASE EnqueueForDelete({h})
  BY <1>2, EnqueueTypes DEF TimePeriodElapsed, TypeInv, TypeOK, FdsGiven, Of, carrierVars
<1> QED
  BY <1>1, <1>2 DEF TimePeriodElapsed

LEMMA EventTypes == ASSUME TypeInv, Events PROVE TypeInv'
<1>1. ASSUME NEW h \in Handlers, NEW type \in {"read", "write"}, TimerEvent(h, type)
      PROVE  TypeInv'
  BY <1>1, EventProperties, TimerTypes DEF TimerEvent, TypeInv
<1>2. ASSUME NEW h \in Handlers, NEW c \in Handlers, NEW speaks \in BOOLEAN,
             AcceptEvent(h, c, speaks)
      PROVE  TypeInv'
  <2>1. /\ at' \in 1 .. (2 * Cardinality(Handlers) + 1)
        /\ UNCHANGED <<phase, readCopy, writeCopy, dead, orphans, closeSocket, timersMade,
                     refused, again>>
    BY <1>2, EventProperties DEF AcceptEvent, TypeInv
  <2>2. CASE UNCHANGED <<kind, fd, active, fdVars, carrierVars, open>>
    BY <2>1, <2>2 DEF TypeInv, TypeOK, FdsGiven, Of, fdVars, carrierVars
  <2>3. CASE /\ FreshName(c) /\ Fds \ open # {}
             /\ NewCarrier(c, LowestFree, speaks)
             /\ readers' = [readers EXCEPT ![LowestFree] = @ \cup {c}]
             /\ writers' = IF speaks THEN [writers EXCEPT ![LowestFree] = @ \cup {c}]
                           ELSE writers
             /\ UpdateFdSets({LowestFree})
             /\ open' = open \cup {LowestFree}
    <3>1. kind[c] = "none" /\ LowestFree \in Fds \ open /\ Register(c, "carrier", LowestFree)
      BY <2>3, FreshProperties, LowestFreeProperties DEF NewCarrier
    <3>2. /\ kind' \in [Handlers -> Kinds] /\ fd' \in [Handlers -> 0 .. MaxFd]
          /\ kind'[c] = "carrier" /\ \A g \in Handlers \ {c} : kind'[g] = kind[g]
          /\ Listed' /\ ToSet(active') = ToSet(active) \cup {c} /\ FdsGiven'
      BY <3>1, RegisterProperties DEF Kinds
    <3>3. Of("carrier")' = Of("carrier") \cup {c} /\ Of("connector")' = Of("connector")
      BY <3>1, <3>2 DEF Of
    <3>4. readFds' \subseteq Fds /\ writeFds' \subseteq Fds
      BY <2>3, <3>1, UpdateTypes DEF TypeInv
    <3> QED
      BY <2>1, <2>3, <3>1, <3>2, <3>3, <3>4 DEF TypeInv, TypeOK, Listed, NewCarrier
  <2> QED
    BY <1>2, <2>2, <2>3 DEF AcceptEvent
<1>3. ASSUME NEW h \in Handlers, NEW c \in Handlers, NEW speaks \in BOOLEAN,
             NEW refuses \in BOOLEAN, ConnectorEvent(h, c, refuses, speaks)
      PROVE  TypeInv'
  <2>1. /\ at' \in 1 .. (2 * Cardinality(Handlers) + 1)
        /\ UNCHANGED <<phase, readCopy, writeCopy, open, timersMade, again>>
    BY <1>3, EventProperties DEF ConnectorEvent, TypeInv
  <2>2. kind[c] = "none" /\ h # c /\ fd[h] \in Fds /\ Register(c, "carrier", fd[h])
        /\ kind[h] = "connector"
    BY <1>3, FreshProperties DEF ConnectorEvent, NewCarrier, TypeInv, FdsGiven
  <2>3. /\ kind' \in [Handlers -> Kinds] /\ fd' \in [Handlers -> 0 .. MaxFd]
        /\ kind'[c] = "carrier" /\ \A g \in Handlers \ {c} : kind'[g] = kind[g]
        /\ Listed' /\ ToSet(active') = ToSet(active) \cup {c} /\ FdsGiven'
    BY <2>2, RegisterProperties DEF Kinds
  <2>4. Of("carrier")' = Of("carrier") \cup {c} /\ Of("connector")' = Of("connector")
    BY <2>2, <2>3 DEF Of
  <2>5. readFds' \subseteq Fds /\ writeFds' \subseteq Fds
    BY <1>3, <2>2, UpdateTypes DEF ConnectorEvent, TypeInv
  <2>6. readers' \in [Fds -> SUBSET Handlers] /\ writers' \in [Fds -> SUBSET Handlers]
    BY <1>3, <2>2 DEF ConnectorEvent, Disabled, TypeInv, TypeOK
  <2>7. h \in ToSet(active) /\ h \in Of("connector")
    BY <2>2 DEF TypeInv, TypeOK, Of
  <2>8. /\ dead' \subseteq ToSet(active') /\ closeSocket' \subseteq Of("connector")'
        /\ orphans' \subseteq Of("carrier")'
        /\ output' \subseteq Of("carrier")' /\ writeDataEnabled' \subseteq Of("carrier")'
        /\ refused' \subseteq Fds
    BY <1>3, <2>2, <2>3, <2>4, <2>7 DEF ConnectorEvent, NewCarrier, HandedOver, TypeInv, TypeOK
  <2> QED
    BY <2>1, <2>3, <2>5, <2>6, <2>8 DEF TypeInv, TypeOK, Listed
<1>4. ASSUME NEW h \in Handlers, kind[h] # "none", EnqueueForDelete({h}),
             NEW type, Event(h, type), closeSocket' \subseteq Of("connector"),
             UNCHANGED <<kind, fd, active, orphans, carrierVars, timersMade, refused>>
      PROVE  TypeInv'
  BY <1>4, EventProperties, EnqueueTypes DEF TypeInv, TypeOK, FdsGiven, Of, carrierVars
<1>5. ASSUME NEW h \in Handlers, ConnectorFails(h) PROVE TypeInv'
  BY <1>4, <1>5 DEF ConnectorFails, TypeInv, TypeOK, Of
<1>6. ASSUME NEW h \in Handlers, CarrierReads(h) PROVE TypeInv'
  <2>1. CASE UNCHANGED <<dead, fdVars, open>>
    BY <1>6, <2>1, EventProperties
    DEF CarrierReads, TypeInv, TypeOK, FdsGiven, Of, fdVars, carrierVars
  <2>2. CASE EnqueueForDelete({h})
    BY <1>4, <1>6, <2>2 DEF CarrierReads, TypeInv, TypeOK, Of
  <2> QED
    BY <1>6, <2>1, <2>2 DEF CarrierReads
<1>7. ASSUME NEW h \in Handlers, CarrierWriteFails(h) PROVE TypeInv'
  BY <1>4, <1>7 DEF CarrierWriteFails, TypeInv, TypeOK, Of
<1>8. ASSUME NEW h \in Handlers, CarrierWritesSome(h) PROVE TypeInv'
  <2>1. h \in Of("carrier") /\ EnableWriteData(h)
    BY <1>8 DEF CarrierWritesSome, Of
  <2> QED
    BY <1>8, <2>1, EnableTypes, EventProperties
    DEF CarrierWritesSome, TypeInv, TypeOK, FdsGiven, Of
<1>9. ASSUME NEW h \in Handlers, NEW called \in BOOLEAN, NEW more \in BOOLEAN,
             CarrierWritesAll(h, called, more)
      PROVE  TypeInv'
  <2>1. h \in Of("carrier") /\ fd[h] \in Fds
    BY <1>9 DEF CarrierWritesAll, TypeInv, FdsGiven, Of
  <2>2. /\ readFds' \subseteq Fds /\ writeFds' \subseteq Fds
        /\ readers' \in [Fds -> SUBSET Handlers] /\ writers' \in [Fds -> SUBSET Handlers]
        /\ writeDataEnabled' \subseteq Of("carrier") /\ output' \subseteq Of("carrier")
    BY <1>9, <2>1, UpdateTypes DEF CarrierWritesAll, TypeInv, TypeOK, fdVars
  <2> QED
    BY <1>9, <2>2, EventProperties DEF CarrierWritesAll, TypeInv, TypeOK, FdsGiven, Of
<1> QED
  BY <1>1, <1>2, <1>3, <1>5, <1>6, <1>7, <1>8, <1>9 DEF Events

LEMMA DestroyTypes ==
  ASSUME TypeInv, NEW hs \in SUBSET ToSet(active), Destroy(hs)
  PROVE  /\ kind' \in [Handlers -> Kinds] /\ fd' \in [Handlers -> 0 .. MaxFd]
         /\ \A h \in Handlers \ hs : kind'[h] = kind[h] /\ fd'[h] = fd[h]
         /\ \A h \in hs : kind'[h] = "none"
         /\ \A k \in Kinds \ {"none"} : Of(k)' = Of(k) \ hs
         /\ Listed' /\ ToSet(active') = ToSet(active) \ hs /\ FdsGiven'
         /\ FdsOf(hs) \in SUBSET Fds
         /\ readers' \in [Fds -> SUBSET Handlers] /\ writers' \in [Fds -> SUBSET Handlers]
         /\ readFds' \subseteq Fds /\ writeFds' \subseteq Fds /\ open' \subseteq Fds
         /\ again' \subseteq Fds
<1>0. /\ ToSet(active) = Handlers \ Of("none") /\ kind \in [Handlers -> Kinds]
      /\ fd \in [Handlers -> 0 .. MaxFd] /\ hs \in SUBSET Handlers
  BY DEF TypeInv, TypeOK
<1>1. /\ kind' \in [Handlers -> Kinds] /\ fd' \in [Handlers -> 0 .. MaxFd]
      /\ \A h \in Handlers \ hs : kind'[h] = kind[h] /\ fd'[h] = fd[h]
      /\ \A h \in hs : kind'[h] = "none"
  BY <1>0, ConstantTypes DEF Destroy, Kinds
<1>2. \A k \in Kinds \ {"none"} : Of(k)' = Of(k) \ hs
  BY <1>0, <1>1 DEF Of
<1>3. Of("none")' = Of("none") \cup hs
  BY <1>0, <1>1 DEF Of
<1>4. /\ active' \in Seq(Handlers) /\ IsInjective(active')
      /\ ToSet(active') = ToSet(active) \ hs
  <2>1. Listed /\ active' = Registered(hs)
    BY ListIsListed DEF TypeInv, Destroy
  <2>2. /\ Registered(hs) \in Seq(Handlers) /\ IsInjective(Registered(hs))
        /\ ToSet(Registered(hs)) = ToSet(active) \ hs
    BY <1>0, <2>1, RegisteredProperties
  <2> QED
    BY <2>1, <2>2
<1>5. Listed' /\ FdsGiven'
  <2>1. FdsGiven'
    BY <1>0, <1>1 DEF TypeInv, FdsGiven
  <2> QED
    BY <1>0, <1>3, <1>4, <2>1 DEF Listed
<1>6. FdsOf(hs) \in SUBSET Fds
  BY <1>0 DEF FdsOf, TypeInv, FdsGiven, Of
<1>7. readFds' \subseteq Fds /\ writeFds' \subseteq Fds
  BY <1>6, UpdateTypes DEF TypeInv, Destroy
<1>8. /\ readers' \in [Fds -> SUBSET Handlers] /\ writers' \in [Fds -> SUBSET Handlers]
      /\ open' \subseteq Fds
  BY DEF TypeInv, TypeOK, Destroy, Disabled
<1>9. again' \subseteq Fds
  <2>1. ClosedAgain(hs) \subseteq FdsOf(hs)
    BY DEF ClosedAgain, Closers, FdsOf
  <2> QED
    BY <1>6, <2>1 DEF Destroy, TypeInv, TypeOK
<1> QED
  BY <1>1, <1>2, <1>4, <1>5, <1>6, <1>7, <1>8, <1>9

LEMMA DestroyTyped ==
  ASSUME TypeInv, NEW hs \in SUBSET ToSet(active), Destroy(hs), phase' \in Phases,
         UNCHANGED <<readCopy, writeCopy, at, timersMade, refused>>
  PROVE  TypeInv'
<1>1. Of("carrier")' = Of("carrier") \ hs /\ Of("connector")' = Of("connector") \ hs
  BY DestroyTypes DEF Kinds
<1>2. /\ dead' \subseteq ToSet(active') /\ orphans' \subseteq Of("carrier")'
      /\ closeSocket' \subseteq Of("connector")' /\ output' \subseteq Of("carrier")'
      /\ writeDataEnabled' \subseteq Of("carrier")'
  <2>1. /\ dead' = dead \ hs /\ orphans' = orphans \ hs /\ closeSocket' = closeSocket \ hs
        /\ output' = output \ hs /\ writeDataEnabled' = writeDataEnabled \ hs
    BY DEF Destroy
  <2>2. /\ dead \subseteq ToSet(active) /\ orphans \subseteq Of("carrier")
        /\ closeSocket \subseteq Of("connector") /\ output \subseteq Of("carrier")
        /\ writeDataEnabled \subseteq Of("carrier")
    BY DEF TypeInv, TypeOK
  <2>3. ToSet(active') = ToSet(active) \ hs
    BY DestroyTypes
  <2> QED
    BY <1>1, <2>1, <2>2, <2>3
<1> QED
  BY <1>2, DestroyTypes DEF TypeInv, TypeOK, Listed

LEMMA CarriersListed == ASSUME TypeOK PROVE Of("carrier") \subseteq ToSet(active)
BY DEF TypeOK, Of

LEMMA TypeStep == ASSUME TypeInv, [Next]_vars PROVE TypeInv'
<1>0. 1 \in 1 .. (2 * Cardinality(Handlers) + 1)
  BY FS_CardinalityType, LoopAssumption
<1>1. CASE Selects
  BY <1>0, <1>1
  DEF Selects, Select, TypeInv, TypeOK, FdsGiven, Of, fdVars, carrierVars, Phases
<1>2. CASE TimersDone
  BY <1>2 DEF TimersDone, TypeInv, TypeOK, FdsGiven, Of, fdVars, carrierVars, Phases
<1>3. CASE EventsDone
  BY <1>0, <1>3
  DEF EventsDone, TypeInv, TypeOK, FdsGiven, Of, fdVars, carrierVars, Phases
<1>4. CASE DeleteDeadHandlers
  BY <1>4, DestroyTyped DEF DeleteDeadHandlers, TypeInv, TypeOK, Phases
<1>5. CASE CleanupDeadProtocols
  BY <1>5, DestroyTyped, CarriersListed DEF CleanupDeadProtocols, TypeInv, TypeOK, Phases
<1>6. ASSUME NEW h \in Handlers, ProcessTimer(h) PROVE TypeInv'
  BY <1>6, TimerTypes DEF ProcessTimer, roundVars, TypeInv, TypeOK
<1>7. CASE UNCHANGED vars
  BY <1>7 DEF vars, fdVars, roundVars, carrierVars, TypeInv, TypeOK, FdsGiven, Of
<1> QED
  BY <1>1, <1>2, <1>3, <1>4, <1>5, <1>6, <1>7, CallTypes, EventTypes DEF Next, Loop

LEMMA InitTypes == ASSUME Init PROVE TypeInv
<1>1. active = <<Acceptor>> /\ Acceptor \in Handlers /\ Of("none") = Handlers \ {Acceptor}
      /\ Of("carrier") = {} /\ Of("connector") = {}
  BY ConstantTypes DEF Init, Of
<1>2. active \in Seq(Handlers) /\ IsInjective(active) /\ ToSet(active) = {Acceptor}
  BY <1>1 DEF IsInjective, ToSet
<1>3. Cardinality(Handlers) \in Nat
  BY FS_CardinalityType, LoopAssumption
<1> QED
  BY <1>1, <1>2, <1>3, ConstantTypes DEF Init, TypeInv, TypeOK, FdsGiven, Kinds, Phases, Fds

\* Every variable of the loop stays in its domain, and _activeIOHandlers lists
\* every handler once, whatever is erased from it in the middle
\* (RegisterIOHandler, UnRegisterIOHandler).
THEOREM LoopTyped == Spec => []TypeOK
<1>1. Init => TypeInv
  BY InitTypes
<1>2. TypeInv /\ [Next]_vars => TypeInv'
  BY TypeStep
<1>3. TypeInv => TypeOK
  BY DEF TypeInv
<1> QED
  BY <1>1, <1>2, <1>3, PTL DEF Spec

(***************************************************************************)
(* The descriptor sets                                                     *)
(***************************************************************************)
FlagsOwned ==
  \A f \in Fds : \A h \in readers[f] \cup writers[f] : h \in Sockets /\ fd[h] = f

SetsExact ==
  /\ readFds = {f \in Fds : readers[f] # {}}
  /\ writeFds = {f \in Fds : writers[f] # {}}

LiveFlagged ==
  \A h \in Sockets \ dead :
    IF kind[h] = "connector" THEN h \in writers[fd[h]] ELSE h \in readers[fd[h]]

OutputFlagged ==
  /\ output \subseteq writeDataEnabled
  /\ \A h \in writeDataEnabled \ dead : h \in writers[fd[h]]

FlagsInv == FlagsOwned /\ SetsExact /\ LiveFlagged /\ OutputFlagged

\* Every handler that is not a timer is one that reads or writes a socket.
LEMMA SocketKinds ==
  ASSUME NEW h \in Handlers
  PROVE  h \in Sockets <=> kind[h] # "none" /\ kind[h] # "timer"
BY DEF Sockets, Of

\* The sets are right if UpdateFdSets is told of every descriptor that changed.
LEMMA SetsFollow ==
  ASSUME SetsExact, NEW fs \in SUBSET Fds, UpdateFdSets(fs),
         \A f \in Fds \ fs : readers'[f] = readers[f] /\ writers'[f] = writers[f]
  PROVE  SetsExact'
<1>1. readFds' = (readFds \ fs) \cup {f \in fs : readers'[f] # {}}
      /\ writeFds' = (writeFds \ fs) \cup {f \in fs : writers'[f] # {}}
  BY DEF UpdateFdSets
<1>2. /\ readFds = {f \in Fds : readers[f] # {}}
      /\ writeFds = {f \in Fds : writers[f] # {}}
  BY DEF SetsExact
<1>3. readFds' = {f \in Fds : readers'[f] # {}}
  BY <1>1, <1>2
<1>4. writeFds' = {f \in Fds : writers'[f] # {}}
  BY <1>1, <1>2
<1> QED
  BY <1>3, <1>4 DEF SetsExact

LEMMA EnqueueFlags ==
  ASSUME TypeInv, FlagsInv, NEW h \in Handlers, kind[h] # "none", EnqueueForDelete({h}),
         UNCHANGED <<kind, fd, output, writeDataEnabled>>
  PROVE  FlagsInv'
<1>1. /\ dead' = dead \cup {h} /\ Sockets' = Sockets
      /\ \A f \in Fds : readers'[f] = readers[f] \ {h} /\ writers'[f] = writers[f] \ {h}
  BY DEF EnqueueForDelete, Disabled, Sockets, Of
<1>2. fd[h] \in Fds /\ FdsOf({h}) = {fd[h]}
  BY DEF TypeInv, FdsGiven, FdsOf
<1>3. FlagsOwned'
  BY <1>1 DEF FlagsInv, FlagsOwned
<1>4. \A f \in Fds \ {fd[h]} : readers'[f] = readers[f] /\ writers'[f] = writers[f]
  <2>1. \A f \in Fds \ {fd[h]} : h \notin readers[f] /\ h \notin writers[f]
    BY DEF FlagsInv, FlagsOwned
  <2>2. \A f \in Fds \ {fd[h]} : readers[f] \ {h} = readers[f]
    BY <2>1
  <2>3. \A f \in Fds \ {fd[h]} : writers[f] \ {h} = writers[f]
    BY <2>1
  <2> QED
    BY <1>1, <2>2, <2>3
<1>5. SetsExact'
  BY <1>2, <1>4, SetsFollow DEF FlagsInv, EnqueueForDelete
<1>6. \A g \in Sockets : g \in Handlers /\ fd[g] \in Fds
  BY DEF TypeInv, FdsGiven, Sockets, Of
<1>7. LiveFlagged'
  BY <1>1, <1>6 DEF FlagsInv, LiveFlagged
<1>8. \A g \in writeDataEnabled : fd[g] \in Fds
  BY DEF TypeInv, TypeOK, FdsGiven, Of
<1>9. OutputFlagged'
  BY <1>1, <1>8 DEF FlagsInv, OutputFlagged
<1> QED
  BY <1>3, <1>5, <1>7, <1>9 DEF FlagsInv

LEMMA EnableFlags ==
  ASSUME TypeInv, FlagsInv, NEW h \in Of("carrier"), EnableWriteData(h),
         output' \subseteq output \cup {h}, UNCHANGED <<kind, fd, dead>>
  PROVE  FlagsInv'
<1>1. h \in Sockets /\ fd[h] \in Fds /\ Sockets' = Sockets
  BY DEF TypeInv, FdsGiven, Sockets, Of
<1>2. /\ readers' = readers /\ writeDataEnabled' = writeDataEnabled \cup {h}
      /\ \A f \in Fds \ {fd[h]} : writers'[f] = writers[f]
      /\ IF h \in writeDataEnabled THEN writers'[fd[h]] = writers[fd[h]]
         ELSE writers'[fd[h]] = writers[fd[h]] \cup {h}
  BY <1>1 DEF EnableWriteData, TypeInv, TypeOK
<1>3. FlagsOwned'
  BY <1>1, <1>2 DEF FlagsInv, FlagsOwned
<1>4. SetsExact'
  BY <1>1, <1>2, SetsFollow DEF FlagsInv, EnableWriteData
<1>5. \A g \in Sockets : fd[g] \in Fds
  BY DEF TypeInv, FdsGiven, Sockets, Of
<1>6. \A f \in Fds : writers[f] \subseteq writers'[f]
  BY <1>2
<1>7. LiveFlagged'
  BY <1>1, <1>2, <1>5, <1>6 DEF FlagsInv, LiveFlagged
<1>8. \A g \in writeDataEnabled : fd[g] \in Fds
  BY DEF TypeInv, TypeOK, FdsGiven, Of
<1>9. OutputFlagged'
  BY <1>1, <1>2, <1>6, <1>8 DEF FlagsInv, OutputFlagged
<1> QED
  BY <1>3, <1>4, <1>7, <1>9 DEF FlagsInv

LEMMA SameFlags ==
  ASSUME FlagsInv, dead \subseteq dead',
         UNCHANGED <<kind, fd, readers, writers, readFds, writeFds, output, writeDataEnabled>>
  PROVE  FlagsInv'
<1>1. Sockets' = Sockets
  BY DEF Sockets, Of
<1>2. FlagsOwned' /\ SetsExact'
  BY <1>1 DEF FlagsInv, FlagsOwned, SetsExact
<1>3. LiveFlagged' /\ OutputFlagged'
  BY <1>1 DEF FlagsInv, LiveFlagged, OutputFlagged
<1> QED
  BY <1>2, <1>3 DEF FlagsInv

LEMMA NewFlags ==
  ASSUME TypeInv, FlagsInv, NEW c \in Handlers, kind[c] = "none",
         NEW k \in {"connector", "carrier"}, NEW f \in Fds, Register(c, k, f),
         UpdateFdSets({f}), dead \subseteq dead',
         \A g \in Fds \ {f} : readers'[g] = readers[g] /\ writers'[g] = writers[g],
         readers'[f] \subseteq readers[f] \cup {c}, writers'[f] \subseteq writers[f] \cup {c},
         (readers[f] \ readers'[f]) \cup (writers[f] \ writers'[f]) \subseteq dead',
         c \in dead' \/ c \in (IF k = "connector" THEN writers'[f] ELSE readers'[f]),
         output' \subseteq writeDataEnabled', writeDataEnabled' \subseteq writeDataEnabled \cup {c},
         c \in writeDataEnabled' => c \in writers'[f]
  PROVE  FlagsInv'
<1>1. /\ kind'[c] = k /\ fd'[c] = f
      /\ \A h \in Handlers \ {c} : kind'[h] = kind[h] /\ fd'[h] = fd[h]
  BY RegisterProperties DEF Kinds
<1>2. Sockets' = Sockets \cup {c} /\ c \notin Sockets /\ Sockets \subseteq Handlers
  BY <1>1 DEF Sockets, Of
<1>3. FlagsOwned'
  BY <1>1, <1>2 DEF FlagsInv, FlagsOwned
<1>4. SetsExact'
  BY SetsFollow DEF FlagsInv
<1>5. \A h \in Sockets : fd[h] \in Fds
  BY DEF TypeInv, FdsGiven, Sockets, Of
<1>6. LiveFlagged'
  <2> SUFFICES ASSUME NEW h \in Sockets', h \notin dead'
               PROVE  IF kind'[h] = "connector" THEN h \in writers'[fd'[h]]
                      ELSE h \in readers'[fd'[h]]
    BY DEF LiveFlagged
  <2>1. CASE h = c
    BY <1>1, <2>1
  <2>2. CASE h # c
    <3>1. /\ h \in Sockets \ dead /\ fd'[h] = fd[h] /\ kind'[h] = kind[h] /\ fd[h] \in Fds
      BY <1>1, <1>2, <1>5, <2>2
    <3>2. IF kind[h] = "connector" THEN h \in writers[fd[h]] ELSE h \in readers[fd[h]]
      BY <3>1 DEF FlagsInv, LiveFlagged
    <3> QED
      BY <3>1, <3>2
  <2> QED
    BY <2>1, <2>2
<1>7. OutputFlagged'
  <2> SUFFICES ASSUME NEW h \in writeDataEnabled', h \notin dead'
               PROVE  h \in writers'[fd'[h]]
    BY DEF OutputFlagged
  <2>1. CASE h = c
    BY <1>1, <2>1
  <2>2. CASE h # c
    <3>1. h \in writeDataEnabled \ dead /\ h \in Handlers /\ kind[h] # "none"
      BY <2>2 DEF TypeInv, TypeOK, Of
    <3>2. fd'[h] = fd[h] /\ fd[h] \in Fds
      BY <1>1, <2>2, <3>1 DEF TypeInv, FdsGiven
    <3>3. h \in writers[fd[h]]
      BY <3>1 DEF FlagsInv, OutputFlagged
    <3> QED
      BY <3>2, <3>3
  <2> QED
    BY <2>1, <2>2
<1> QED
  BY <1>3, <1>4, <1>6, <1>7 DEF FlagsInv

LEMMA NewTimerFlags == ASSUME TypeInv, FlagsInv, NEW h \in Handlers, NewTimer(h) PROVE FlagsInv'
<1>1. /\ kind[h] = "none" /\ timersMade + 1 \in Fds /\ Register(h, "timer", timersMade + 1)
      /\ UNCHANGED <<dead, readers, writers, readFds, writeFds, output, writeDataEnabled>>
  BY FreshProperties, ConstantTypes
  DEF NewTimer, TypeInv, TypeOK, Fds, fdVars, carrierVars
<1>2. /\ kind'[h] = "timer"
      /\ \A g \in Handlers \ {h} : kind'[g] = kind[g] /\ fd'[g] = fd[g]
  BY <1>1, RegisterProperties DEF Kinds
<1>3. Sockets' = Sockets /\ h \notin Sockets /\ Sockets \subseteq Handlers
  BY <1>1, <1>2 DEF Sockets, Of
<1>4. FlagsOwned' /\ SetsExact' /\ LiveFlagged'
  BY <1>1, <1>2, <1>3 DEF FlagsInv, FlagsOwned, SetsExact, LiveFlagged
<1>5. h \notin writeDataEnabled /\ writeDataEnabled \subseteq Handlers
  BY <1>1 DEF TypeInv, TypeOK, Of
<1>6. OutputFlagged'
  BY <1>1, <1>2, <1>5 DEF FlagsInv, OutputFlagged
<1> QED
  BY <1>4, <1>6 DEF FlagsInv

LEMMA DestroyFlags ==
  ASSUME TypeInv, FlagsInv, NEW hs \in SUBSET ToSet(active), Destroy(hs)
  PROVE  FlagsInv'
<1>1. /\ \A h \in Handlers \ hs : kind'[h] = kind[h] /\ fd'[h] = fd[h]
      /\ \A h \in hs : kind'[h] = "none"
      /\ FdsOf(hs) \in SUBSET Fds /\ hs \subseteq Handlers
  BY DestroyTypes DEF TypeInv, TypeOK
<1>2. /\ dead' = dead \ hs /\ output' = output \ hs
      /\ writeDataEnabled' = writeDataEnabled \ hs
      /\ \A f \in Fds : readers'[f] = readers[f] \ hs /\ writers'[f] = writers[f] \ hs
  BY DEF Destroy, Disabled
<1>3. Sockets' = Sockets \ hs /\ Sockets \subseteq Handlers
  BY <1>1 DEF Sockets, Of
<1>4. FlagsOwned'
  BY <1>1, <1>2, <1>3 DEF FlagsInv, FlagsOwned
<1>5. \A f \in Fds \ FdsOf(hs) : readers'[f] = readers[f] /\ writers'[f] = writers[f]
  <2>1. \A f \in Fds \ FdsOf(hs), h \in hs : h \notin readers[f] /\ h \notin writers[f]
    BY DEF FlagsInv, FlagsOwned, FdsOf
  <2> QED
    BY <1>2, <2>1
<1>6. SetsExact'
  BY <1>1, <1>5, SetsFollow DEF FlagsInv, Destroy
<1>7. \A h \in Sockets : fd[h] \in Fds
  BY DEF TypeInv, FdsGiven, Sockets, Of
<1>8. LiveFlagged'
  BY <1>1, <1>2, <1>3, <1>7 DEF FlagsInv, LiveFlagged
<1>9. \A h \in writeDataEnabled : h \in Handlers /\ fd[h] \in Fds
  BY DEF TypeInv, TypeOK, FdsGiven, Of
<1>10. OutputFlagged'
  BY <1>1, <1>2, <1>9 DEF FlagsInv, OutputFlagged
<1> QED
  BY <1>4, <1>6, <1>8, <1>10 DEF FlagsInv

LEMMA WritesAllFlags ==
  ASSUME TypeInv, FlagsInv, NEW h \in Handlers, NEW called \in BOOLEAN, NEW more \in BOOLEAN,
         CarrierWritesAll(h, called, more)
  PROVE  FlagsInv'
<1>1. /\ kind[h] = "carrier" /\ UNCHANGED <<kind, fd, dead>>
      /\ output' = IF more THEN output \cup {h} ELSE output \ {h}
      /\ h \notin writeDataEnabled => ~called /\ ~more
  BY DEF CarrierWritesAll
<1>2. CASE h \in writeDataEnabled /\ ~called /\ ~more
  <2>1. /\ writeDataEnabled' = writeDataEnabled \ {h} /\ readers' = readers
        /\ writers' = [writers EXCEPT ![fd[h]] = @ \ {h}] /\ UpdateFdSets({fd[h]})
    BY <1>2 DEF CarrierWritesAll, StopsWriting
  <2>2. fd[h] \in Fds /\ Sockets' = Sockets
    BY <1>1 DEF TypeInv, FdsGiven, Sockets, Of
  <2>3. /\ \A f \in Fds \ {fd[h]} : writers'[f] = writers[f]
        /\ writers'[fd[h]] = writers[fd[h]] \ {h}
    BY <2>1, <2>2 DEF TypeInv, TypeOK
  <2>4. FlagsOwned'
    BY <1>1, <2>1, <2>2, <2>3 DEF FlagsInv, FlagsOwned
  <2>5. SetsExact'
    BY <2>1, <2>2, <2>3, SetsFollow DEF FlagsInv
  <2>6. \A g \in Sockets : fd[g] \in Fds
    BY DEF TypeInv, FdsGiven, Sockets, Of
  <2>7. LiveFlagged'
    BY <1>1, <2>1, <2>2, <2>3, <2>6 DEF FlagsInv, LiveFlagged
  <2>8. \A g \in writeDataEnabled : fd[g] \in Fds
    BY DEF TypeInv, TypeOK, FdsGiven, Of
  <2>9. OutputFlagged'
    BY <1>1, <1>2, <2>1, <2>3, <2>8 DEF FlagsInv, OutputFlagged
  <2> QED
    BY <2>4, <2>5, <2>7, <2>9 DEF FlagsInv
<1>3. CASE ~(h \in writeDataEnabled /\ ~called /\ ~more)
  <2>1. UNCHANGED <<kind, fd, dead, readers, writers, readFds, writeFds, writeDataEnabled>>
    BY <1>3 DEF CarrierWritesAll, StopsWriting, fdVars
  <2>2. output' \subseteq writeDataEnabled'
    BY <1>1, <1>3, <2>1 DEF FlagsInv, OutputFlagged
  <2>3. Sockets' = Sockets
    BY <2>1 DEF Sockets, Of
  <2> QED
    BY <2>1, <2>2, <2>3
    DEF FlagsInv, FlagsOwned, SetsExact, LiveFlagged, OutputFlagged
<1> QED
  BY <1>2, <1>3

LEMMA CallFlags == ASSUME TypeInv, FlagsInv, Calls PROVE FlagsInv'
<1>0. PICK h \in Handlers : \/ \E works \in BOOLEAN : Connect(h, works)
                           \/ GiveUpConnector(h) \/ SignalOutputData(h)
                           \/ ProtocolEnqueueForDelete(h) \/ NewTimer(h) \/ DropTimer(h)
  BY DEF Calls
<1>1. ASSUME NEW works \in BOOLEAN, Connect(h, works) PROVE FlagsInv'
  <2> DEFINE f == LowestFree
  <2>1. kind[h] = "none" /\ f \in Fds /\ Register(h, "connector", f)
    BY <1>1, FreshProperties, LowestFreeProperties DEF Connect
  <2>2. /\ UpdateFdSets({f}) /\ readers' = readers /\ UNCHANGED <<output, writeDataEnabled>>
        /\ writers' = IF works THEN [writers EXCEPT ![f] = @ \cup {h}] ELSE writers
        /\ dead' = IF works THEN dead ELSE dead \cup {h}
    BY <1>1 DEF Connect, carrierVars
  <2> HIDE DEF f
  <2>3. /\ \A g \in Fds \ {f} : readers'[g] = readers[g] /\ writers'[g] = writers[g]
        /\ writers[f] \subseteq writers'[f] /\ writers'[f] \subseteq writers[f] \cup {h}
        /\ works => h \in writers'[f]
    BY <2>1, <2>2 DEF TypeInv, TypeOK
  <2>4. output' \subseteq writeDataEnabled' /\ h \notin writeDataEnabled'
    BY <2>1, <2>2 DEF FlagsInv, OutputFlagged, TypeInv, TypeOK, Of
  <2> QED
    BY <2>1, <2>2, <2>3, <2>4, NewFlags
<1>2. CASE GiveUpConnector(h)
  BY <1>2, EnqueueFlags DEF GiveUpConnector, carrierVars
<1>3. CASE SignalOutputData(h)
  BY <1>3, EnableFlags DEF SignalOutputData, Of
<1>4. CASE ProtocolEnqueueForDelete(h)
  BY <1>4, SameFlags DEF ProtocolEnqueueForDelete, fdVars, carrierVars
<1>5. CASE NewTimer(h)
  BY <1>5, NewTimerFlags
<1>6. CASE DropTimer(h)
  BY <1>6, EnqueueFlags DEF DropTimer, carrierVars
<1> QED
  BY <1>0, <1>1, <1>2, <1>3, <1>4, <1>5, <1>6

LEMMA TimerFlags ==
  ASSUME TypeInv, FlagsInv, NEW h \in Handlers, kind[h] = "timer", TimePeriodElapsed(h)
  PROVE  FlagsInv'
<1>1. CASE UNCHANGED <<dead, fdVars, open>>
  BY <1>1, SameFlags DEF TimePeriodElapsed, fdVars, carrierVars
<1>2. CASE EnqueueForDelete({h})
  BY <1>2, EnqueueFlags DEF TimePeriodElapsed, carrierVars
<1> QED
  BY <1>1, <1>2 DEF TimePeriodElapsed

LEMMA AcceptFlags ==
  ASSUME TypeInv, FlagsInv, NEW h \in Handlers, NEW c \in Handlers, NEW speaks \in BOOLEAN,
         AcceptEvent(h, c, speaks)
  PROVE  FlagsInv'
<1>1. UNCHANGED <<dead, orphans, closeSocket, timersMade>>
  BY DEF AcceptEvent
<1>2. CASE UNCHANGED <<kind, fd, active, fdVars, carrierVars, open>>
  BY <1>1, <1>2, SameFlags DEF fdVars, carrierVars
<1>3. CASE /\ FreshName(c) /\ Fds \ open # {}
           /\ NewCarrier(c, LowestFree, speaks)
           /\ readers' = [readers EXCEPT ![LowestFree] = @ \cup {c}]
           /\ writers' = IF speaks THEN [writers EXCEPT ![LowestFree] = @ \cup {c}]
                         ELSE writers
           /\ UpdateFdSets({LowestFree})
           /\ open' = open \cup {LowestFree}
  <2> DEFINE f == LowestFree
  <2>1. kind[c] = "none" /\ f \in Fds /\ Register(c, "carrier", f) /\ UpdateFdSets({f})
    BY <1>3, FreshProperties, LowestFreeProperties DEF NewCarrier
  <2>2. /\ output' = IF speaks THEN output \cup {c} ELSE output
        /\ writeDataEnabled' = IF speaks THEN writeDataEnabled \cup {c} ELSE writeDataEnabled
    BY <1>3 DEF NewCarrier
  <2>3. /\ readers' = [readers EXCEPT ![f] = @ \cup {c}]
        /\ writers' = IF speaks THEN [writers EXCEPT ![f] = @ \cup {c}] ELSE writers
    BY <1>3
  <2> HIDE DEF f
  <2>4. /\ \A g \in Fds \ {f} : readers'[g] = readers[g] /\ writers'[g] = writers[g]
        /\ readers'[f] = readers[f] \cup {c} /\ writers[f] \subseteq writers'[f]
        /\ writers'[f] \subseteq writers[f] \cup {c}
        /\ speaks => c \in writers'[f]
    BY <2>1, <2>3 DEF TypeInv, TypeOK
  <2>5. c \notin writeDataEnabled /\ output \subseteq writeDataEnabled
    BY <2>1 DEF FlagsInv, OutputFlagged, TypeInv, TypeOK, Of
  <2>6. /\ output' \subseteq writeDataEnabled'
        /\ writeDataEnabled' \subseteq writeDataEnabled \cup {c}
        /\ c \in writeDataEnabled' => c \in writers'[f]
    <3>1. CASE speaks
      BY <2>2, <2>4, <2>5, <3>1
    <3>2. CASE ~speaks
      BY <2>2, <2>4, <2>5, <3>2
    <3> QED
      BY <3>1, <3>2
  <2>7. readers[f] \subseteq readers'[f] /\ readers'[f] \subseteq readers[f] \cup {c}
        /\ c \in readers'[f]
    BY <2>4
  <2> QED
    BY <1>1, <2>1, <2>4, <2>6, <2>7, NewFlags
<1> QED
  BY <1>2, <1>3 DEF AcceptEvent

LEMMA ConnectorFlags ==
  ASSUME TypeInv, FlagsInv, NEW h \in Handlers, NEW c \in Handlers, NEW speaks \in BOOLEAN,
         NEW refuses \in BOOLEAN, ConnectorEvent(h, c, refuses, speaks)
  PROVE  FlagsInv'
<1> DEFINE f == fd[h]
           says == speaks /\ ~refuses
<1>1. /\ kind[c] = "none" /\ h # c /\ f \in Fds /\ Register(c, "carrier", f)
      /\ UpdateFdSets({f}) /\ dead' = dead \cup {h}
  BY FreshProperties DEF ConnectorEvent, NewCarrier, TypeInv, FdsGiven
<1>2. /\ output' = IF says THEN output \cup {c} ELSE output
      /\ writeDataEnabled' = IF says THEN writeDataEnabled \cup {c} ELSE writeDataEnabled
  BY DEF ConnectorEvent, NewCarrier
<1>3. /\ readers' = [Disabled(readers, {h}) EXCEPT ![f] = @ \cup {c}]
      /\ writers' = IF says THEN [Disabled(writers, {h}) EXCEPT ![f] = @ \cup {c}]
                    ELSE Disabled(writers, {h})
  BY DEF ConnectorEvent
<1>4. says \in BOOLEAN
  OBVIOUS
<1>5. \A g \in Fds \ {f} : h \notin readers[g] /\ h \notin writers[g]
  BY DEF FlagsInv, FlagsOwned
<1> HIDE DEF f, says
<1>6. /\ \A g \in Fds \ {f} : readers'[g] = readers[g] \ {h} /\ writers'[g] = writers[g] \ {h}
      /\ readers'[f] = (readers[f] \ {h}) \cup {c}
      /\ writers'[f] = IF says THEN (writers[f] \ {h}) \cup {c} ELSE writers[f] \ {h}
  BY <1>1, <1>3, <1>4 DEF Disabled, TypeInv, TypeOK
<1>7. \A g \in Fds \ {f} : readers[g] \ {h} = readers[g]
  BY <1>5
<1>8. \A g \in Fds \ {f} : writers[g] \ {h} = writers[g]
  BY <1>5
<1>9. c \notin writeDataEnabled /\ output \subseteq writeDataEnabled
  BY <1>1 DEF FlagsInv, OutputFlagged, TypeInv, TypeOK, Of
<1>10. /\ output' \subseteq writeDataEnabled'
       /\ writeDataEnabled' \subseteq writeDataEnabled \cup {c}
       /\ c \in writeDataEnabled' => c \in writers'[f]
  BY <1>2, <1>6, <1>9
<1>11. /\ readers'[f] \subseteq readers[f] \cup {c} /\ writers'[f] \subseteq writers[f] \cup {c}
       /\ (readers[f] \ readers'[f]) \cup (writers[f] \ writers'[f]) \subseteq dead'
       /\ c \in readers'[f]
  BY <1>1, <1>6
<1> QED
  BY <1>1, <1>6, <1>7, <1>8, <1>10, <1>11, NewFlags

LEMMA EventFlags == ASSUME TypeInv, FlagsInv, Events PROVE FlagsInv'
<1>1. ASSUME NEW h \in Handlers, NEW type \in {"read", "write"}, TimerEvent(h, type)
      PROVE  FlagsInv'
  BY <1>1, TimerFlags DEF TimerEvent
<1>2. ASSUME NEW h \in Handlers, ConnectorFails(h) PROVE FlagsInv'
  BY <1>2, EnqueueFlags DEF ConnectorFails, carrierVars
<1>3. ASSUME NEW h \in Handlers, CarrierReads(h) PROVE FlagsInv'
  <2>1. CASE UNCHANGED <<dead, fdVars, open>>
    BY <1>3, <2>1, SameFlags DEF CarrierReads, fdVars, carrierVars
  <2>2. CASE EnqueueForDelete({h})
    BY <1>3, <2>2, EnqueueFlags DEF CarrierReads, carrierVars
  <2> QED
    BY <1>3, <2>1, <2>2 DEF CarrierReads
<1>4. ASSUME NEW h \in Handlers, CarrierWriteFails(h) PROVE FlagsInv'
  BY <1>4, EnqueueFlags DEF CarrierWriteFails, carrierVars
<1>5. ASSUME NEW h \in Handlers, CarrierWritesSome(h) PROVE FlagsInv'
  BY <1>5, EnableFlags DEF CarrierWritesSome, Of
<1> QED
  BY <1>1, <1>2, <1>3, <1>4, <1>5, AcceptFlags, ConnectorFlags, WritesAllFlags DEF Events

LEMMA FlagsStep == ASSUME TypeInv, FlagsInv, [Next]_vars PROVE FlagsInv'
<1>1. CASE Selects \/ TimersDone \/ EventsDone \/ UNCHANGED vars
  <2>1. UNCHANGED <<kind, fd, dead, readers, writers, readFds, writeFds, output, writeDataEnabled>>
    BY <1>1 DEF Selects, Select, TimersDone, EventsDone, vars, fdVars, carrierVars
  <2> QED
    BY <2>1, SameFlags
<1>2. CASE DeleteDeadHandlers
  BY <1>2, DestroyFlags DEF DeleteDeadHandlers, TypeInv, TypeOK
<1>3. CASE CleanupDeadProtocols
  BY <1>3, DestroyFlags, CarriersListed DEF CleanupDeadProtocols, TypeInv, TypeOK
<1>4. ASSUME NEW h \in Handlers, ProcessTimer(h) PROVE FlagsInv'
  BY <1>4, TimerFlags DEF ProcessTimer
<1> QED
  BY <1>1, <1>2, <1>3, <1>4, CallFlags, EventFlags DEF Next, Loop

LEMMA InitFlags == ASSUME Init PROVE FlagsInv
<1>1. /\ Sockets = {Acceptor} /\ fd[Acceptor] = 1 /\ kind[Acceptor] = "acceptor" /\ 1 \in Fds
      /\ output = {} /\ writeDataEnabled = {}
  BY ConstantTypes DEF Init, Sockets, Of
<1>2. \A f \in Fds : readers[f] = (IF f = 1 THEN {Acceptor} ELSE {}) /\ writers[f] = {}
  BY DEF Init
<1>3. FlagsOwned /\ LiveFlagged /\ OutputFlagged
  BY <1>1, <1>2 DEF FlagsOwned, LiveFlagged, OutputFlagged
<1>4. SetsExact
  BY <1>1, <1>2 DEF Init, SetsExact
<1> QED
  BY <1>3, <1>4 DEF FlagsInv

\* Every handler that is not dead is watched for what it waits for, whoever
\* shares its descriptor: a carrier and an acceptor for reading, a connector for
\* writing (IOHandlerManager::UpdateFdSets).
THEOREM LiveTheorem == Spec => []LiveAreWatched
<1>1. Init => TypeInv /\ FlagsInv
  BY InitTypes, InitFlags
<1>2. TypeInv /\ FlagsInv /\ [Next]_vars => TypeInv' /\ FlagsInv'
  BY TypeStep, FlagsStep
<1>3. TypeInv /\ FlagsInv => LiveAreWatched
  <2>1. TypeInv => \A h \in Sockets : fd[h] \in Fds
    BY DEF TypeInv, FdsGiven, Sockets, Of
  <2> QED
    BY <2>1 DEF FlagsInv, SetsExact, LiveFlagged, LiveAreWatched
<1> QED
  BY <1>1, <1>2, <1>3, PTL DEF Spec

\* As long as the protocol of a live carrier has output, its socket is watched
\* for writing (ENABLE_WRITE_DATA, DISABLE_WRITE_DATA).
THEOREM OutputTheorem == Spec => []OutputIsWatched
<1>1. Init => TypeInv /\ FlagsInv
  BY InitTypes, InitFlags
<1>2. TypeInv /\ FlagsInv /\ [Next]_vars => TypeInv' /\ FlagsInv'
  BY TypeStep, FlagsStep
<1>3. TypeInv /\ FlagsInv => OutputIsWatched
  <2>1. TypeInv => \A h \in output : fd[h] \in Fds
    BY DEF TypeInv, TypeOK, FdsGiven, Of
  <2> QED
    BY <2>1 DEF FlagsInv, SetsExact, OutputFlagged, OutputIsWatched
<1> QED
  BY <1>1, <1>2, <1>3, PTL DEF Spec

(***************************************************************************)
(* Open sockets.  Two handlers share a descriptor only after a connector   *)
(* handed its socket over, in the rest of that round: the connector is     *)
(* dead and behind the walk, and if it still is to close the socket, the   *)
(* carrier's protocol is on its way out too.                               *)
(***************************************************************************)
Walked(k) ==
  \/ phase = "handlers"
  \/ phase = "events" /\ \A i \in 1 .. Len(active) : active[i] = k => at >= 2 * i + 1

Shares(k, c) ==
  /\ kind[k] = "connector" /\ kind[c] = "carrier" /\ k \in dead /\ Walked(k)
  /\ k \in closeSocket => c \in orphans /\ fd[c] \in refused

Sharing == \A h, g \in Sockets : h # g /\ fd[h] = fd[g] => Shares(h, g) \/ Shares(g, h)

SocketsOpen == \A h \in Sockets : fd[h] \notin open =>
                 phase = "protocols" /\ h \in orphans /\ fd[h] \in refused

Closes(h) == h \in dead \cap Of("connector") => h \in closeSocket
OpenOwned == \A f \in open : \E h \in Sockets : fd[h] = f /\ Closes(h)

Rounds ==
  /\ phase \in {"protocols", "select"} => dead = {}
  /\ phase = "select" => orphans = {}
  /\ readCopy \cup writeCopy \subseteq open
  /\ phase \notin {"timers", "events"} => readCopy \cup writeCopy = {}

SecondCloses ==
  /\ again \subseteq refused
  /\ \A f \in again : f \notin open /\ \A h \in Sockets : fd[h] # f
  /\ phase \notin {"protocols", "select"} => again = {}

SocketInv == Sharing /\ SocketsOpen /\ OpenOwned /\ Rounds /\ SecondCloses

\* Outside the walk and the deletion of handlers nobody shares a descriptor.
LEMMA NobodyShares ==
  ASSUME SocketInv, phase \in {"select", "timers", "protocols"},
         NEW h \in Sockets, NEW g \in Sockets, fd[h] = fd[g]
  PROVE  h = g
BY DEF SocketInv, Sharing, Shares, Walked, Rounds

\* A connector that is about to make its carrier has its descriptor to itself.
LEMMA ConnectorAlone ==
  ASSUME TypeInv, SocketInv, NEW h, kind[h] = "connector", Event(h, "write"),
         NEW g \in Sockets, g # h
  PROVE  fd[g] # fd[h]
<1>1. /\ phase = "events" /\ h \in Sockets
      /\ \E i \in 1 .. Len(active) : active[i] = h /\ at' = 2 * i + 1
  BY EventProperties DEF TypeInv, Sockets, Of
<1>2. at' > at /\ at' \in Nat /\ at \in Nat
  BY EventProperties DEF TypeInv, TypeOK
<1>3. ~Walked(h)
  BY <1>1, <1>2 DEF Walked
<1> QED
  BY <1>1, <1>3 DEF SocketInv, Sharing, Shares

\* A handler dies, or closes its socket, which nobody shares.
LEMMA DyingSockets ==
  ASSUME TypeInv, SocketInv, InHandler, at' \in Nat, at' >= at,
         UNCHANGED <<kind, fd, active, phase, readCopy, writeCopy, open, refused, again>>,
         dead \subseteq dead', orphans \subseteq orphans', closeSocket \subseteq closeSocket',
         dead' \cap Of("connector") \subseteq dead \cup closeSocket',
         \A k \in closeSocket' \ closeSocket, c \in Sockets : c # k => fd[c] # fd[k]
  PROVE  SocketInv'
<1>1. Sockets' = Sockets /\ Of("connector")' = Of("connector")
  BY DEF Sockets, Of
<1>2. at \in Nat /\ Len(active) \in Nat
  BY DEF TypeInv, TypeOK
<1>3. ASSUME NEW k, Walked(k) PROVE Walked(k)'
  BY <1>2, <1>3 DEF Walked
<1>4. Sharing'
  <2> SUFFICES ASSUME NEW h \in Sockets, NEW g \in Sockets, h # g, fd[h] = fd[g]
               PROVE  Shares(h, g)' \/ Shares(g, h)'
    BY <1>1 DEF Sharing
  <2>1. Shares(h, g) \/ Shares(g, h)
    BY DEF SocketInv, Sharing
  <2>2. h \in closeSocket' => h \in closeSocket
    OBVIOUS
  <2>3. g \in closeSocket' => g \in closeSocket
    OBVIOUS
  <2> QED
    BY <1>3, <2>1, <2>2, <2>3 DEF Shares
<1>5. SocketsOpen' /\ Rounds' /\ SecondCloses'
  BY <1>1 DEF SocketInv, SocketsOpen, Rounds, SecondCloses, InHandler
<1>6. OpenOwned'
  <2> SUFFICES ASSUME NEW f \in open PROVE \E h \in Sockets : fd[h] = f /\ Closes(h)'
    BY <1>1 DEF OpenOwned
  <2>1. PICK h \in Sockets : fd[h] = f /\ Closes(h)
    BY DEF SocketInv, OpenOwned
  <2> QED
    BY <1>1, <2>1 DEF Closes
<1> QED
  BY <1>4, <1>5, <1>6 DEF SocketInv

\* A new handler gets a descriptor that nobody uses.
LEMMA OpeningSockets ==
  ASSUME TypeInv, SocketInv, InHandler, at' \in Nat, at' >= at,
         NEW c \in Handlers, kind[c] = "none", NEW k \in {"connector", "carrier"},
         NEW f \in Fds \ open, Register(c, k, f), open' = open \cup {f},
         UNCHANGED <<phase, readCopy, writeCopy, orphans, refused, again>>,
         dead \subseteq dead', dead' \subseteq dead \cup {c},
         closeSocket \subseteq closeSocket', closeSocket' \subseteq closeSocket \cup {c},
         c \in dead' => c \in closeSocket'
  PROVE  SocketInv'
<1>1. /\ kind'[c] = k /\ fd'[c] = f
      /\ \A h \in Handlers \ {c} : kind'[h] = kind[h] /\ fd'[h] = fd[h]
  BY RegisterProperties DEF Kinds
<1>2. Sockets' = Sockets \cup {c} /\ c \notin Sockets /\ Sockets \subseteq Handlers
  BY <1>1 DEF Sockets, Of
<1>3. \A h \in Sockets : fd[h] \in open /\ fd[h] # f
  BY DEF SocketInv, SocketsOpen, InHandler
<1>4. ASSUME NEW h \in Sockets, Walked(h) PROVE Walked(h)'
  <2>1. Len(active) \in Nat /\ at \in Nat /\ h # c
    BY <1>2 DEF TypeInv, TypeOK
  <2>2. Listed /\ active' = Append(active, c)
    BY ListIsListed DEF TypeInv, Register
  <2>3. /\ Len(active') = Len(active) + 1 /\ active'[Len(active) + 1] = c
        /\ \A i \in 1 .. Len(active) : active'[i] = active[i]
    BY <2>2, AppendedList
  <2>4. \A i \in 1 .. Len(active) + 1 : i \in 1 .. Len(active) \/ i = Len(active) + 1
    BY <2>1
  <2> QED
    BY <1>4, <2>1, <2>3, <2>4 DEF Walked
<1>5. Sharing'
  <2> SUFFICES ASSUME NEW h \in Sockets', NEW g \in Sockets', h # g, fd'[h] = fd'[g]
               PROVE  Shares(h, g)' \/ Shares(g, h)'
    BY DEF Sharing
  <2>1. h # c /\ g # c /\ h \in Sockets /\ g \in Sockets
    BY <1>1, <1>2, <1>3
  <2>2. /\ kind'[h] = kind[h] /\ kind'[g] = kind[g] /\ fd[h] = fd[g]
        /\ fd'[h] = fd[h] /\ fd'[g] = fd[g]
    BY <1>1, <1>2, <2>1
  <2>3. Shares(h, g) \/ Shares(g, h)
    BY <2>1, <2>2 DEF SocketInv, Sharing
  <2> QED
    BY <1>4, <2>1, <2>2, <2>3 DEF Shares
<1>6. SocketsOpen' /\ Rounds' /\ SecondCloses'
  BY <1>1, <1>2, <1>3 DEF SocketInv, SocketsOpen, Rounds, SecondCloses, InHandler
<1>7. OpenOwned'
  <2> SUFFICES ASSUME NEW d \in open' PROVE \E h \in Sockets' : fd'[h] = d /\ Closes(h)'
    BY DEF OpenOwned
  <2>1. CASE d = f
    BY <1>1, <1>2, <2>1 DEF Closes
  <2>2. CASE d # f
    <3>1. PICK h \in Sockets : fd[h] = d /\ Closes(h)
      BY <2>2 DEF SocketInv, OpenOwned
    <3>2. h # c /\ h \in Handlers /\ kind'[h] = kind[h] /\ fd'[h] = fd[h] /\ h \in Sockets'
      BY <1>1, <1>2
    <3> QED
      BY <3>1, <3>2 DEF Closes, Of
  <2> QED
    BY <2>1, <2>2
<1> QED
  BY <1>5, <1>6, <1>7 DEF SocketInv

LEMMA NewTimerSockets ==
  ASSUME TypeInv, SocketInv, NEW c \in Handlers, NewTimer(c)
  PROVE  SocketInv'
<1>1. /\ kind[c] = "none" /\ timersMade + 1 \in Fds /\ Register(c, "timer", timersMade + 1)
      /\ UNCHANGED <<dead, orphans, phase, at, readCopy, writeCopy, open, closeSocket,
                     refused, again>>
  BY FreshProperties, ConstantTypes
  DEF NewTimer, TypeInv, TypeOK, Fds, roundVars
<1>2. /\ kind'[c] = "timer"
      /\ \A h \in Handlers \ {c} : kind'[h] = kind[h] /\ fd'[h] = fd[h]
  BY <1>1, RegisterProperties DEF Kinds
<1>3. Sockets' = Sockets /\ c \notin Sockets /\ Sockets \subseteq Handlers
  BY <1>1, <1>2 DEF Sockets, Of
<1>4. ASSUME NEW h \in Sockets, Walked(h) PROVE Walked(h)'
  <2>1. Len(active) \in Nat /\ h # c
    BY <1>3 DEF TypeInv, TypeOK
  <2>2. Listed /\ active' = Append(active, c)
    BY <1>1, ListIsListed DEF TypeInv, Register
  <2>3. /\ Len(active') = Len(active) + 1 /\ active'[Len(active) + 1] = c
        /\ \A i \in 1 .. Len(active) : active'[i] = active[i]
    BY <1>1, <2>2, AppendedList
  <2>4. \A i \in 1 .. Len(active) + 1 : i \in 1 .. Len(active) \/ i = Len(active) + 1
    BY <2>1
  <2> QED
    BY <1>1, <1>4, <2>1, <2>3, <2>4 DEF Walked
<1>5. Sharing'
  <2> SUFFICES ASSUME NEW h \in Sockets, NEW g \in Sockets, h # g, fd'[h] = fd'[g]
               PROVE  Shares(h, g)' \/ Shares(g, h)'
    BY <1>3 DEF Sharing
  <2>1. /\ kind'[h] = kind[h] /\ kind'[g] = kind[g] /\ fd[h] = fd[g]
        /\ fd'[h] = fd[h] /\ fd'[g] = fd[g]
    BY <1>2, <1>3
  <2>2. Shares(h, g) \/ Shares(g, h)
    BY <2>1 DEF SocketInv, Sharing
  <2> QED
    BY <1>1, <1>4, <2>1, <2>2 DEF Shares
<1>6. SocketsOpen' /\ Rounds' /\ SecondCloses'
  BY <1>1, <1>2, <1>3 DEF SocketInv, SocketsOpen, Rounds, SecondCloses
<1>7. OpenOwned'
  <2> SUFFICES ASSUME NEW f \in open PROVE \E h \in Sockets : fd'[h] = f /\ Closes(h)'
    BY <1>1, <1>3 DEF OpenOwned
  <2>1. PICK h \in Sockets : fd[h] = f /\ Closes(h)
    BY DEF SocketInv, OpenOwned
  <2>2. kind'[h] = kind[h] /\ fd'[h] = fd[h]
    BY <1>2, <1>3
  <2> QED
    BY <1>1, <2>1, <2>2 DEF Closes, Of
<1> QED
  BY <1>5, <1>6, <1>7 DEF SocketInv

\* The hand-over: from now on connector and carrier have the same socket.
LEMMA HandOverSockets ==
  ASSUME TypeInv, SocketInv, NEW h \in Handlers, NEW c \in Handlers, NEW speaks \in BOOLEAN,
         NEW refuses \in BOOLEAN, ConnectorEvent(h, c, refuses, speaks)
  PROVE  SocketInv'
<1>1. /\ kind[h] = "connector" /\ Event(h, "write") /\ kind[c] = "none" /\ h # c
      /\ fd[h] \in Fds /\ Register(c, "carrier", fd[h]) /\ dead' = dead \cup {h}
      /\ closeSocket' = IF refuses THEN closeSocket \cup {h} ELSE closeSocket \ {h}
      /\ orphans' = IF refuses THEN orphans \cup {c} ELSE orphans
      /\ refused' = IF refuses THEN refused \cup {fd[h]} ELSE refused
      /\ UNCHANGED open
  BY FreshProperties DEF ConnectorEvent, NewCarrier, HandedOver, TypeInv, FdsGiven
<1>2. /\ kind'[c] = "carrier" /\ fd'[c] = fd[h]
      /\ \A g \in Handlers \ {c} : kind'[g] = kind[g] /\ fd'[g] = fd[g]
  BY <1>1, RegisterProperties DEF Kinds
<1>3. Sockets' = Sockets \cup {c} /\ c \notin Sockets /\ Sockets \subseteq Handlers /\ h \in Sockets
  BY <1>1, <1>2 DEF Sockets, Of
<1>4. \A g \in Sockets : g # h => fd[g] # fd[h]
  BY <1>1, ConnectorAlone
<1>5. /\ phase = "events" /\ UNCHANGED <<phase, readCopy, writeCopy, again>>
      /\ at' > at /\ at' \in Nat /\ at \in Nat
  BY <1>1, EventProperties DEF TypeInv, TypeOK
<1>6. /\ Len(active) \in Nat /\ Len(active') = Len(active) + 1 /\ active'[Len(active) + 1] = c
      /\ \A i \in 1 .. Len(active) : active'[i] = active[i]
  <2>1. Listed /\ active' = Append(active, c)
    BY <1>1, ListIsListed DEF TypeInv, Register
  <2> QED
    BY <1>1, <2>1, AppendedList DEF Listed
<1>7. \A i \in 1 .. Len(active) + 1 : i \in 1 .. Len(active) \/ i = Len(active) + 1
  BY <1>6
<1>8. ASSUME NEW g \in Sockets, Walked(g) PROVE Walked(g)'
  BY <1>3, <1>5, <1>6, <1>7, <1>8 DEF Walked
<1>9. Walked(h)'
  <2>1. PICK i \in 1 .. Len(active) : active[i] = h /\ at' = 2 * i + 1
    BY <1>1, EventProperties DEF TypeInv
  <2>2. \A j \in 1 .. Len(active) : active[j] = h => j = i
    BY <2>1 DEF TypeInv, TypeOK, IsInjective
  <2> QED
    BY <1>1, <1>5, <1>6, <1>7, <2>1, <2>2 DEF Walked
<1>10. Sharing'
  <2> SUFFICES ASSUME NEW a \in Sockets', NEW b \in Sockets', a # b, fd'[a] = fd'[b]
               PROVE  Shares(a, b)' \/ Shares(b, a)'
    BY DEF Sharing
  <2>1. Shares(h, c)'
    BY <1>1, <1>2, <1>3, <1>9 DEF Shares
  <2>2. CASE a = c \/ b = c
    BY <1>2, <1>3, <1>4, <2>1, <2>2
  <2>3. CASE a # c /\ b # c
    <3>1. /\ a \in Sockets /\ b \in Sockets /\ fd[a] = fd[b]
          /\ kind'[a] = kind[a] /\ kind'[b] = kind[b] /\ fd'[a] = fd[a] /\ fd'[b] = fd[b]
      BY <1>2, <1>3, <2>3
    <3>2. a # h /\ b # h
      BY <1>4, <3>1
    <3>3. Shares(a, b) \/ Shares(b, a)
      BY <3>1 DEF SocketInv, Sharing
    <3> QED
      BY <1>1, <1>8, <3>1, <3>2, <3>3 DEF Shares
  <2> QED
    BY <2>2, <2>3
<1>11. SocketsOpen' /\ Rounds' /\ SecondCloses'
  BY <1>1, <1>2, <1>3, <1>5 DEF SocketInv, SocketsOpen, Rounds, SecondCloses
<1>12. OpenOwned'
  <2> SUFFICES ASSUME NEW f \in open PROVE \E g \in Sockets' : fd'[g] = f /\ Closes(g)'
    BY <1>1 DEF OpenOwned
  <2>1. CASE f = fd[h]
    BY <1>2, <1>3, <2>1 DEF Closes, Of
  <2>2. CASE f # fd[h]
    <3>1. PICK g \in Sockets : fd[g] = f /\ Closes(g)
      BY DEF SocketInv, OpenOwned
    <3>2. g # h /\ g # c /\ g \in Handlers /\ g \in Sockets' /\ kind'[g] = kind[g] /\ fd'[g] = fd[g]
      BY <1>2, <1>3, <2>2, <3>1
    <3> QED
      BY <1>1, <3>1, <3>2 DEF Closes, Of
  <2> QED
    BY <2>1, <2>2
<1> QED
  BY <1>10, <1>11, <1>12 DEF SocketInv

\* What is destroyed closes its own sockets only.
LEMMA DeleteSockets == ASSUME TypeInv, SocketInv, DeleteDeadHandlers PROVE SocketInv'
<1>1. /\ phase = "handlers" /\ phase' = "protocols" /\ UNCHANGED <<readCopy, writeCopy, at, refused>>
      /\ Destroy(dead) /\ dead \in SUBSET ToSet(active) /\ dead \subseteq Handlers
  BY DEF DeleteDeadHandlers, TypeInv, TypeOK
<1>2. /\ \A h \in Handlers \ dead : kind'[h] = kind[h] /\ fd'[h] = fd[h]
      /\ \A h \in dead : kind'[h] = "none"
  BY <1>1, DestroyTypes
<1>3. /\ dead' = {} /\ orphans' = orphans \ dead
      /\ open' = open \ FdsOf(Closers(dead)) /\ again' = again \cup ClosedAgain(dead)
  BY <1>1 DEF Destroy
<1>4. Sockets' = Sockets \ dead /\ Sockets \subseteq Handlers
  BY <1>1, <1>2 DEF Sockets, Of
<1>5. ASSUME NEW h \in Sockets \ dead, NEW g \in Sockets \ dead, fd[h] = fd[g] PROVE h = g
  BY <1>5 DEF SocketInv, Sharing, Shares
<1>6. Sharing'
  BY <1>2, <1>4, <1>5 DEF Sharing
<1>12. ASSUME NEW g \in Closers(dead)
      PROVE  /\ g \in dead /\ g \in Sockets /\ fd[g] \in open
             /\ g \in closeSocket => kind[g] = "connector"
             /\ kind[g] = "connector" => g \in closeSocket
  <2>1. /\ g \in dead /\ (kind[g] \in {"carrier", "acceptor"} \/ g \in closeSocket)
        /\ closeSocket \subseteq Of("connector")
    BY DEF Closers, TypeInv, TypeOK
  <2>2. g \in Sockets
    BY <1>1, <2>1 DEF Sockets, Of
  <2> QED
    BY <1>1, <2>1, <2>2 DEF SocketInv, SocketsOpen, Of
<1>7. SocketsOpen'
  <2> SUFFICES ASSUME NEW h \in Sockets \ dead, fd[h] \notin open'
               PROVE  h \in orphans' /\ fd[h] \in refused
    BY <1>1, <1>2, <1>4 DEF SocketsOpen
  <2>1. fd[h] \in open
    BY <1>1 DEF SocketInv, SocketsOpen
  <2>2. PICK g \in Closers(dead) : fd[g] = fd[h]
    BY <1>3, <2>1 DEF FdsOf
  <2>3. Shares(g, h) /\ g \in closeSocket
    BY <1>12, <2>2 DEF SocketInv, Sharing, Shares
  <2> QED
    BY <1>3, <2>3 DEF Shares
<1>13. SecondCloses'
  <2>1. ASSUME NEW f \in ClosedAgain(dead)
        PROVE  f \in refused /\ f \notin open' /\ \A h \in Sockets \ dead : fd[h] # f
    <3>1. PICK g \in Closers(dead), k \in Closers(dead) : f = fd[g] /\ fd[k] = fd[g] /\ k # g
      BY <1>12 DEF ClosedAgain
    <3>2. f \notin open'
      BY <1>3, <3>1 DEF FdsOf
    <3>3. \/ Shares(g, k) /\ g \in closeSocket
          \/ Shares(k, g) /\ k \in closeSocket
      BY <1>12, <3>1 DEF SocketInv, Sharing, Shares
    <3>4. ASSUME NEW h \in Sockets \ dead, fd[h] = f PROVE FALSE
      <4>1. h # g /\ h # k
        BY <1>12, <3>1
      <4>2. Shares(g, h) /\ Shares(k, h)
        BY <1>12, <3>1, <3>4, <4>1 DEF SocketInv, Sharing, Shares
      <4> QED
        BY <3>3, <4>2 DEF Shares
    <3> QED
      BY <3>1, <3>2, <3>3, <3>4 DEF Shares
  <2>2. again = {}
    BY <1>1 DEF SocketInv, SecondCloses
  <2> QED
    BY <1>1, <1>2, <1>3, <1>4, <2>1, <2>2 DEF SecondCloses
<1>8. OpenOwned'
  <2> SUFFICES ASSUME NEW f \in open' PROVE \E h \in Sockets' : fd'[h] = f /\ Closes(h)'
    BY DEF OpenOwned
  <2>1. PICK h \in Sockets : fd[h] = f /\ Closes(h)
    BY <1>3 DEF SocketInv, OpenOwned
  <2>2. h \notin dead
    <3>1. SUFFICES ASSUME h \in dead PROVE FALSE
      OBVIOUS
    <3>2. kind[h] \in {"carrier", "acceptor", "connector"} /\ h \in Handlers
      BY <1>4 DEF Sockets, Of, TypeInv, TypeOK, Kinds
    <3>3. kind[h] \in {"carrier", "acceptor"} \/ h \in closeSocket
      BY <2>1, <3>1, <3>2 DEF Closes, Of
    <3> QED
      BY <1>3, <2>1, <3>1, <3>3 DEF FdsOf, Closers
  <2> QED
    BY <1>2, <1>3, <1>4, <2>1, <2>2 DEF Closes
<1>9. Rounds'
  BY <1>1, <1>3 DEF SocketInv, Rounds
<1> QED
  BY <1>6, <1>7, <1>8, <1>9, <1>13 DEF SocketInv

LEMMA CleanupSockets == ASSUME TypeInv, SocketInv, CleanupDeadProtocols PROVE SocketInv'
<1>1. /\ phase = "protocols" /\ phase' = "select" /\ UNCHANGED <<readCopy, writeCopy, at, refused>>
      /\ Destroy(orphans) /\ orphans \in SUBSET ToSet(active) /\ orphans \subseteq Of("carrier")
  BY CarriersListed DEF CleanupDeadProtocols, TypeInv, TypeOK
<1>2. /\ \A h \in Handlers \ orphans : kind'[h] = kind[h] /\ fd'[h] = fd[h]
      /\ \A h \in orphans : kind'[h] = "none"
  BY <1>1, DestroyTypes
<1>3. closeSocket \subseteq Of("connector")
  BY DEF TypeInv, TypeOK
<1>4. /\ dead' = {} /\ orphans' = {}
      /\ open' = open \ FdsOf(orphans) /\ again' = again \cup ClosedAgain(orphans)
      /\ Closers(orphans) = orphans
  <2>1. Closers(orphans) = orphans
    BY <1>1 DEF Closers, Of
  <2> QED
    BY <1>1, <2>1 DEF Destroy, SocketInv, Rounds
<1>5. Sockets' = Sockets \ orphans /\ Sockets \subseteq Handlers /\ orphans \subseteq Sockets
  BY <1>1, <1>2 DEF Sockets, Of
<1>6. \A h, g \in Sockets : fd[h] = fd[g] => h = g
  BY <1>1, NobodyShares
<1>7. Sharing'
  BY <1>2, <1>5, <1>6 DEF Sharing
<1>8. SocketsOpen'
  <2> SUFFICES ASSUME NEW h \in Sockets \ orphans PROVE fd[h] \in open'
    BY <1>2, <1>5 DEF SocketsOpen
  <2> QED
    BY <1>4, <1>5, <1>6 DEF SocketInv, SocketsOpen, FdsOf
<1>9. OpenOwned'
  <2> SUFFICES ASSUME NEW f \in open' PROVE \E h \in Sockets' : fd'[h] = f /\ Closes(h)'
    BY DEF OpenOwned
  <2>1. PICK h \in Sockets : fd[h] = f
    BY <1>4 DEF SocketInv, OpenOwned
  <2>2. h \notin orphans
    BY <1>4, <2>1 DEF FdsOf
  <2> QED
    BY <1>2, <1>4, <1>5, <2>1, <2>2 DEF Closes
<1>10. Rounds'
  BY <1>1, <1>4 DEF SocketInv, Rounds
<1>11. SecondCloses'
  <2>1. ASSUME NEW f \in ClosedAgain(orphans)
        PROVE  f \in refused /\ f \notin open' /\ \A h \in Sockets \ orphans : fd[h] # f
    <3>1. PICK g \in orphans : f = fd[g] /\ (f \notin open \/ \E k \in orphans \ {g} : fd[k] = f)
      BY <1>4 DEF ClosedAgain
    <3>2. f \notin open
      BY <1>5, <1>6, <3>1
    <3>3. f \in refused
      BY <1>5, <3>1, <3>2 DEF SocketInv, SocketsOpen
    <3> QED
      BY <1>4, <1>5, <1>6, <3>1, <3>2, <3>3
  <2>2. ASSUME NEW f \in again
        PROVE  f \in refused /\ f \notin open' /\ \A h \in Sockets \ orphans : fd[h] # f
    BY <1>4 DEF SocketInv, SecondCloses
  <2> QED
    BY <1>1, <1>2, <1>4, <1>5, <2>1, <2>2 DEF SecondCloses
<1> QED
  BY <1>7, <1>8, <1>9, <1>10, <1>11 DEF SocketInv

\* Only open sockets are watched while no socket is being closed.
LEMMA WatchedAreOpen ==
  ASSUME FlagsInv, SocketInv, phase # "protocols"
  PROVE  readFds \cup writeFds \subseteq open
<1> SUFFICES ASSUME NEW f \in readFds \cup writeFds PROVE f \in open
  OBVIOUS
<1>1. f \in Fds /\ readers[f] \cup writers[f] # {}
  BY DEF FlagsInv, SetsExact
<1>2. PICK h \in readers[f] \cup writers[f] : h \in Sockets /\ fd[h] = f
  BY <1>1 DEF FlagsInv, FlagsOwned
<1> QED
  BY <1>2 DEF SocketInv, SocketsOpen

\* The loop goes on, and no handler is made or dies.
LEMMA LoopSockets ==
  ASSUME TypeInv, FlagsInv, SocketInv, Selects \/ TimersDone \/ EventsDone
  PROVE  SocketInv'
<1>1. /\ UNCHANGED <<kind, fd, active, dead, orphans, open, closeSocket>>
      /\ phase \in {"select", "timers", "events"} /\ phase' \in {"timers", "events", "handlers"}
      /\ phase' \in {"timers", "events"} => phase \in {"select", "timers"}
      /\ readCopy' \cup writeCopy' \subseteq readFds \cup writeFds
         \/ readCopy' \cup writeCopy' \subseteq readCopy \cup writeCopy
      /\ phase' = "handlers" => readCopy' \cup writeCopy' = {}
      /\ phase = "select" => refused' = {} /\ again' = {}
      /\ phase # "select" => UNCHANGED <<refused, again>>
  BY DEF Selects, Select, TimersDone, EventsDone
<1>2. Sockets' = Sockets
  BY <1>1 DEF Sockets, Of
<1>3. Sharing'
  <2> SUFFICES ASSUME NEW h \in Sockets, NEW g \in Sockets, h # g, fd[h] = fd[g]
               PROVE  Shares(h, g)' \/ Shares(g, h)'
    BY <1>1, <1>2 DEF Sharing
  <2>1. phase \notin {"select", "timers"}
    BY NobodyShares
  <2>2. phase' = "handlers"
    BY <1>1, <2>1
  <2>3. Shares(h, g) \/ Shares(g, h)
    BY DEF SocketInv, Sharing
  <2> QED
    BY <1>1, <2>2, <2>3 DEF Shares, Walked
<1>4. SocketsOpen'
  BY <1>1, <1>2 DEF SocketInv, SocketsOpen
<1>5. OpenOwned'
  BY <1>1, <1>2 DEF SocketInv, OpenOwned, Closes, Of
<1>6. Rounds'
  <2>1. readFds \cup writeFds \subseteq open
    BY <1>1, WatchedAreOpen
  <2> QED
    BY <1>1, <2>1 DEF SocketInv, Rounds
<1>7. SecondCloses'
  <2>1. again' = {}
    BY <1>1 DEF SocketInv, SecondCloses
  <2> QED
    BY <2>1 DEF SecondCloses
<1> QED
  BY <1>3, <1>4, <1>5, <1>6, <1>7 DEF SocketInv

LEMMA CallSockets == ASSUME TypeInv, SocketInv, Calls PROVE SocketInv'
<1>0. PICK h \in Handlers : \/ \E works \in BOOLEAN : Connect(h, works)
                           \/ GiveUpConnector(h) \/ SignalOutputData(h)
                           \/ ProtocolEnqueueForDelete(h) \/ NewTimer(h) \/ DropTimer(h)
  BY DEF Calls
<1>1. at \in Nat
  BY DEF TypeInv, TypeOK
<1>2. ASSUME NEW works \in BOOLEAN, Connect(h, works) PROVE SocketInv'
  <2>1. kind[h] = "none" /\ LowestFree \in Fds \ open /\ Register(h, "connector", LowestFree)
    BY <1>2, FreshProperties, LowestFreeProperties DEF Connect
  <2>2. /\ InHandler /\ UNCHANGED <<orphans, phase, at, readCopy, writeCopy, refused, again>>
        /\ open' = open \cup {LowestFree}
        /\ closeSocket' = IF works THEN closeSocket ELSE closeSocket \cup {h}
        /\ dead' = IF works THEN dead ELSE dead \cup {h}
    BY <1>2 DEF Connect, roundVars
  <2>3. h \notin dead
    BY <2>1 DEF TypeInv, TypeOK, Of
  <2>4. /\ dead \subseteq dead' /\ dead' \subseteq dead \cup {h}
        /\ closeSocket \subseteq closeSocket' /\ closeSocket' \subseteq closeSocket \cup {h}
        /\ h \in dead' => h \in closeSocket'
    BY <2>2, <2>3
  <2> QED
    BY <1>1, <2>1, <2>2, <2>4, OpeningSockets
<1>3. CASE GiveUpConnector(h)
  <2>1. /\ kind[h] = "connector" /\ closeSocket' = closeSocket \cup {h} /\ dead' = dead \cup {h}
        /\ InHandler /\ UNCHANGED <<kind, fd, active, phase, at, readCopy, writeCopy, open, orphans,
                                  refused, again>>
    BY <1>3 DEF GiveUpConnector, EnqueueForDelete, roundVars
  <2>2. ASSUME NEW c \in Sockets, c # h PROVE fd[c] # fd[h]
    <3>1. h \in Sockets
      BY <2>1 DEF Sockets, Of
    <3>2. \A x \in Handlers : kind[x] = "carrier" => fd[x] # fd[h]
      BY <1>3 DEF GiveUpConnector, Of
    <3>3. c \in Handlers
      BY DEF Sockets
    <3> QED
      BY <2>1, <2>2, <3>1, <3>2, <3>3 DEF SocketInv, Sharing, Shares
  <2> QED
    BY <1>1, <2>1, <2>2, DyingSockets
<1>4. CASE SignalOutputData(h)
  BY <1>1, <1>4, DyingSockets DEF SignalOutputData, roundVars, TypeInv, TypeOK
<1>5. CASE ProtocolEnqueueForDelete(h)
  BY <1>1, <1>5, DyingSockets DEF ProtocolEnqueueForDelete, roundVars
<1>6. CASE NewTimer(h)
  BY <1>6, NewTimerSockets
<1>7. CASE DropTimer(h)
  BY <1>1, <1>7, DyingSockets DEF DropTimer, EnqueueForDelete, roundVars, Of
<1> QED
  BY <1>0, <1>2, <1>3, <1>4, <1>5, <1>6, <1>7

LEMMA EventSockets == ASSUME TypeInv, SocketInv, Events PROVE SocketInv'
<1>1. ASSUME NEW h, NEW type, Event(h, type)
      PROVE  /\ InHandler /\ UNCHANGED <<phase, readCopy, writeCopy, again>>
             /\ at' \in Nat /\ at' >= at /\ h \in Handlers
  BY <1>1, EventProperties DEF TypeInv, TypeOK, InHandler
<1>2. ASSUME NEW h, NEW type, Event(h, type), kind[h] # "connector",
             UNCHANGED <<kind, fd, active, open, orphans, closeSocket, refused>>,
             dead' = dead \/ dead' = dead \cup {h}
      PROVE  SocketInv'
  BY <1>1, <1>2, DyingSockets DEF Of
<1>3. ASSUME NEW h \in Handlers, NEW type \in {"read", "write"}, TimerEvent(h, type)
      PROVE  SocketInv'
  BY <1>2, <1>3 DEF TimerEvent, TimePeriodElapsed, EnqueueForDelete
<1>4. ASSUME NEW h \in Handlers, NEW c \in Handlers, NEW speaks \in BOOLEAN,
             AcceptEvent(h, c, speaks)
      PROVE  SocketInv'
  <2>1. /\ UNCHANGED <<dead, orphans, closeSocket, refused>> /\ Event(h, "read") /\ kind[h] = "acceptor"
    BY <1>4 DEF AcceptEvent
  <2>2. CASE UNCHANGED <<kind, fd, active, fdVars, carrierVars, open>>
    BY <1>2, <2>1, <2>2
  <2>3. CASE /\ FreshName(c) /\ Fds \ open # {}
             /\ NewCarrier(c, LowestFree, speaks) /\ open' = open \cup {LowestFree}
    <3>1. kind[c] = "none" /\ LowestFree \in Fds \ open /\ Register(c, "carrier", LowestFree)
      BY <2>3, FreshProperties, LowestFreeProperties DEF NewCarrier
    <3>2. c \notin dead
      BY <3>1 DEF TypeInv, TypeOK, Of
    <3> QED
      BY <1>1, <2>1, <2>3, <3>1, <3>2, OpeningSockets
  <2> QED
    BY <1>4, <2>2, <2>3 DEF AcceptEvent
<1>5. ASSUME NEW h \in Handlers, ConnectorFails(h) PROVE SocketInv'
  <2>1. /\ kind[h] = "connector" /\ Event(h, "write") /\ dead' = dead \cup {h}
        /\ closeSocket' = closeSocket \cup {h} /\ UNCHANGED <<kind, fd, active, open, orphans, refused>>
    BY <1>5 DEF ConnectorFails, EnqueueForDelete
  <2>2. \A c \in Sockets : c # h => fd[c] # fd[h]
    BY <2>1, ConnectorAlone
  <2> QED
    BY <1>1, <2>1, <2>2, DyingSockets
<1>6. ASSUME NEW h \in Handlers, CarrierReads(h) PROVE SocketInv'
  BY <1>2, <1>6 DEF CarrierReads, EnqueueForDelete
<1>7. ASSUME NEW h \in Handlers, CarrierWriteFails(h) PROVE SocketInv'
  BY <1>2, <1>7 DEF CarrierWriteFails, EnqueueForDelete
<1>8. ASSUME NEW h \in Handlers, CarrierWritesSome(h) PROVE SocketInv'
  BY <1>2, <1>8 DEF CarrierWritesSome
<1>9. ASSUME NEW h \in Handlers, NEW called \in BOOLEAN, NEW more \in BOOLEAN,
             CarrierWritesAll(h, called, more)
      PROVE  SocketInv'
  BY <1>2, <1>9 DEF CarrierWritesAll
<1> QED
  BY <1>3, <1>4, <1>5, <1>6, <1>7, <1>8, <1>9, HandOverSockets DEF Events

LEMMA SocketStep == ASSUME TypeInv, FlagsInv, SocketInv, [Next]_vars PROVE SocketInv'
<1>1. ASSUME NEW h \in Handlers, ProcessTimer(h) PROVE SocketInv'
  <2>1. InHandler /\ at \in Nat /\ kind[h] = "timer"
    BY <1>1 DEF ProcessTimer, InHandler, TypeInv, TypeOK
  <2>2. /\ UNCHANGED <<kind, fd, active, phase, at, readCopy, writeCopy, open, orphans, closeSocket,
                       refused, again>>
        /\ dead' = dead \/ dead' = dead \cup {h}
    BY <1>1 DEF ProcessTimer, TimePeriodElapsed, EnqueueForDelete, roundVars
  <2>3. dead' \cap Of("connector") \subseteq dead
    BY <2>1, <2>2 DEF Of
  <2> QED
    BY <2>1, <2>2, <2>3, DyingSockets
<1>2. CASE UNCHANGED vars
  BY <1>2
  DEF vars, fdVars, roundVars, carrierVars, SocketInv, Sharing, Shares, Walked, SocketsOpen,
      OpenOwned, Closes, Rounds, SecondCloses, Sockets, Of
<1> QED
  BY <1>1, <1>2, CallSockets, EventSockets, LoopSockets, DeleteSockets, CleanupSockets
  DEF Next, Loop

\* select is only asked for sockets that are open and stay open until the walk
\* over the handlers is done, no socket stays open without a handler that will
\* close it, and no handler's socket is closed by another one: a number is closed
\* a second time by the carrier of a refused chain only, when nobody has it
\* (~TCPConnector, ~TCPCarrier, TCPConnector::OnEvent).
THEOREM SocketTheorem == Spec => []SocketsExact
<1>1. Init => TypeInv /\ FlagsInv /\ SocketInv
  <2> SUFFICES ASSUME Init PROVE SocketInv
    BY InitTypes, InitFlags
  <2>1. /\ Sockets = {Acceptor} /\ fd[Acceptor] = 1 /\ open = {1}
        /\ dead = {} /\ orphans = {} /\ readCopy = {} /\ writeCopy = {} /\ again = {}
    BY ConstantTypes DEF Init, Sockets, Of
  <2> QED
    BY <2>1 DEF SocketInv, Sharing, SocketsOpen, OpenOwned, Closes, Rounds, SecondCloses
<1>2. TypeInv /\ FlagsInv /\ SocketInv /\ [Next]_vars => TypeInv' /\ FlagsInv' /\ SocketInv'
  BY TypeStep, FlagsStep, SocketStep
<1>3. TypeInv /\ FlagsInv /\ SocketInv => SocketsExact
  <2> SUFFICES ASSUME TypeInv, FlagsInv, SocketInv PROVE SocketsExact
    OBVIOUS
  <2>1. OnlyOpenSockets
    BY WatchedAreOpen DEF OnlyOpenSockets, SocketInv, Rounds
  <2>2. SocketsOwned
    BY DEF SocketsOwned, SocketInv, OpenOwned, Closes, Sharing, Shares
  <2>3. ClosedOnce
    <3>1. orphans \subseteq Of("carrier")
      BY DEF TypeInv, TypeOK
    <3> QED
      BY <3>1 DEF ClosedOnce, SocketInv, SecondCloses, SocketsOpen, FdsOf, Of
  <2> QED
    BY <2>1, <2>2, <2>3 DEF SocketsExact
<1> QED
  BY <1>1, <1>2, <1>3, PTL DEF Spec
=============================================================================
