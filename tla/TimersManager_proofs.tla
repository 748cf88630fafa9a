------------------------ MODULE TimersManager_proofs ------------------------
(***************************************************************************)
(* Proofs about the wheel of timers, for any periods, any number of timers *)
(* and any pauses: whatever is added, removed or rebuilt, each timer keeps *)
(* the slots of one rest modulo its period, and so fires once per period.  *)
(***************************************************************************)
EXTENDS TimersManager, FiniteSetTheorems, WellFoundedInduction, TLAPS

(***************************************************************************)
(* Arithmetic                                                              *)
(***************************************************************************)
\* Division with rest.
LEMMA DivMod ==
  ASSUME NEW x \in Int, NEW p \in Nat \ {0}
  PROVE  /\ x % p \in 0..(p - 1)
         /\ \E q \in Int : x = q * p + (x % p)
<1>1. x % p \in 0..(p - 1)
  OBVIOUS
<1>2. x \div p \in Int /\ x = (x \div p) * p + (x % p)
  OBVIOUS
<1> QED
  BY <1>1, <1>2

LEMMA Rest ==
  ASSUME NEW p \in Nat \ {0}, NEW q \in Int, NEW r \in 0..(p - 1)
  PROVE  (q * p + r) % p = r
OBVIOUS

LEMMA Multiples ==
  ASSUME NEW x \in Int, NEW p \in Nat \ {0}
  PROVE  Divides(p, x) <=> \E q \in Int : x = q * p
<1>1. ASSUME Divides(p, x) PROVE \E q \in Int : x = q * p
  <2>1. PICK q \in Int : x = q * p + (x % p)
    BY DivMod
  <2>2. x = q * p
    BY <1>1, <2>1 DEF Divides
  <2> QED
    BY <2>2
<1>2. ASSUME NEW q \in Int, x = q * p PROVE Divides(p, x)
  <2>1. (q * p + 0) % p = 0
    BY Rest
  <2>2. q * p + 0 = x
    BY <1>2
  <2> QED
    BY <2>1, <2>2 DEF Divides
<1> QED
  BY <1>1, <1>2

\* Numbers with the same rest.
LEMMA SameRest ==
  ASSUME NEW x \in Int, NEW y \in Int, NEW p \in Nat \ {0}
  PROVE  x % p = y % p <=> Divides(p, x - y)
<1>1. PICK a \in Int : x = a * p + (x % p)
  BY DivMod
<1>2. PICK b \in Int : y = b * p + (y % p)
  BY DivMod
<1>3. ASSUME x % p = y % p PROVE Divides(p, x - y)
  <2>1. x - y = (a - b) * p
    BY <1>1, <1>2, <1>3
  <2> QED
    BY <2>1, Multiples
<1>4. ASSUME Divides(p, x - y) PROVE x % p = y % p
  <2>1. PICK q \in Int : x - y = q * p
    BY <1>4, Multiples
  <2>2. x = (b + q) * p + (y % p)
    BY <1>2, <2>1
  <2>3. y % p \in 0..(p - 1)
    BY DivMod
  <2>4. ((b + q) * p + (y % p)) % p = y % p
    BY <2>3, Rest
  <2> QED
    BY <2>2, <2>4
<1> QED
  BY <1>3, <1>4

\* Multiples of one number.
LEMMA Combined ==
  ASSUME NEW x \in Int, NEW y \in Int, NEW p \in Nat \ {0},
         Divides(p, x), Divides(p, y), NEW k \in Int
  PROVE  Divides(p, x - k * y) /\ Divides(p, x + k * y)
<1>1. PICK a \in Int : x = a * p
  BY Multiples
<1>2. PICK b \in Int : y = b * p
  BY Multiples
<1>3. k * y = (k * b) * p /\ k * b \in Int
  BY <1>2
<1>4. x - k * y = (a - k * b) * p /\ x + k * y = (a + k * b) * p
  BY <1>1, <1>3
<1>5. a - k * b \in Int /\ a + k * b \in Int /\ x - k * y \in Int /\ x + k * y \in Int
  BY <1>3
<1> QED
  BY <1>4, <1>5, Multiples

LEMMA Through ==
  ASSUME NEW n \in Nat \ {0}, NEW p \in Nat \ {0}, NEW x \in Int,
         Divides(p, n), Divides(n, x)
  PROVE  Divides(p, x)
<1>1. PICK a \in Int : n = a * p
  BY Multiples
<1>2. PICK b \in Int : x = b * n
  BY Multiples
<1>3. x = (b * a) * p /\ b * a \in Int
  BY <1>1, <1>2
<1> QED
  BY <1>3, Multiples

\* A multiple that is smaller than the number is zero.
LEMMA SmallMultiple ==
  ASSUME NEW p \in Nat \ {0}, NEW x \in Int, -p < x, x < p, Divides(p, x)
  PROVE  x = 0
<1>1. PICK a \in Int : x = a * p
  BY Multiples
<1>2. CASE a = 0
  BY <1>1, <1>2
<1>3. CASE a > 0
  BY <1>1, <1>3
<1>4. CASE a < 0
  BY <1>1, <1>4
<1> QED
  BY <1>2, <1>3, <1>4

\* Slots of a wheel whose length is a multiple of p.
LEMMA RestOfSlot ==
  ASSUME NEW n \in Nat \ {0}, NEW p \in Nat \ {0}, NEW x \in Int, Divides(p, n)
  PROVE  x % n \in 0..(n - 1) /\ (x % n) % p = x % p
<1>1. x % n \in 0..(n - 1)
  BY DivMod
<1>2. PICK q \in Int : x = q * n + (x % n)
  BY DivMod
<1>3. x - (x % n) = q * n /\ x - (x % n) \in Int /\ x % n \in Int
  BY <1>1, <1>2
<1>4. Divides(n, x - (x % n))
  BY <1>3, Multiples
<1>5. Divides(p, x - (x % n))
  BY <1>3, <1>4, Through
<1> QED
  BY <1>1, <1>3, <1>5, SameRest

LEMMA RestOfSum ==
  ASSUME NEW x \in Int, NEW y \in Int, NEW p \in Nat \ {0}, x % p = y % p, NEW k \in Int
  PROVE  (x + k) % p = (y + k) % p
<1>1. Divides(p, x - y)
  BY SameRest
<1>2. (x + k) - (y + k) = x - y /\ x + k \in Int /\ y + k \in Int
  OBVIOUS
<1>3. Divides(p, (x + k) - (y + k))
  BY <1>1, <1>2, Zenon
<1> QED
  BY <1>2, <1>3, SameRest

LEMMA OnceAround ==
  ASSUME NEW c \in Int, NEW p \in Nat \ {0}, NEW a \in 0..(p - 1)
  PROVE  /\ \E k \in 0..(p - 1) : (c + k) % p = a
         /\ \A k, l \in 0..(p - 1) : (c + k) % p = a /\ (c + l) % p = a => k = l
<1>1. \E k \in 0..(p - 1) : (c + k) % p = a
  <2>0. a - c \in Int
    OBVIOUS
  <2>1. (a - c) % p \in 0..(p - 1)
    BY <2>0, DivMod
  <2>2. PICK q \in Int : a - c = q * p + ((a - c) % p)
    BY <2>0, DivMod
  <2>3. c + ((a - c) % p) = (-q) * p + a
    BY <2>1, <2>2
  <2>4. ((-q) * p + a) % p = a
    BY Rest
  <2> QED
    BY <2>1, <2>3, <2>4
<1>2. ASSUME NEW k \in 0..(p - 1), NEW l \in 0..(p - 1), (c + k) % p = a, (c + l) % p = a
      PROVE  k = l
  <2>1. Divides(p, (c + k) - (c + l))
    BY <1>2, SameRest
  <2>2. (c + k) - (c + l) = k - l /\ k - l \in Int /\ -p < k - l /\ k - l < p
    OBVIOUS
  <2>3. k - l = 0
    BY <2>1, <2>2, SmallMultiple
  <2> QED
    BY <2>3
<1> QED
  BY <1>1, <1>2

\* A timer gets every p-th slot.
LEMMA SlotsTaken ==
  ASSUME NEW n \in Nat \ {0}, NEW p \in Nat \ {0}, Divides(p, n), NEW start \in 0..(n - 1)
  PROVE  SlotsOf(start, p, n) = {s \in 0..(n - 1) : s % p = start % p}
<1>1. ASSUME NEW k \in 0..(n - 1)
      PROVE  (start + k * p) % n \in 0..(n - 1) /\ ((start + k * p) % n) % p = start % p
  <2> DEFINE x == start + k * p
  <2>1. x \in Int /\ x - start \in Int /\ x - start = k * p /\ k \in Int /\ start \in Int
    OBVIOUS
  <2> HIDE DEF x
  <2>2. Divides(p, x - start)
    BY <2>1, Multiples
  <2>3. x % p = start % p
    BY <2>1, <2>2, SameRest
  <2>4. x % n \in 0..(n - 1) /\ (x % n) % p = start % p
    BY <2>1, <2>3, RestOfSlot
  <2> QED
    BY <2>4 DEF x
<1>2. ASSUME NEW s \in 0..(n - 1), s % p = start % p
      PROVE  \E k \in 0..(n - 1) : s = (start + k * p) % n
  <2>1. s - start \in Int /\ s \in Int /\ start \in Int
    OBVIOUS
  <2>2. PICK j \in Int : s - start = j * p
    BY <1>2, <2>1, SameRest, Multiples
  <2>3. PICK m \in Int : n = m * p
    <3>1. n \in Int
      OBVIOUS
    <3> QED
      BY <3>1, Multiples
  <2>4. CASE j >= 0
    <3>1. j <= j * p /\ j * p < n
      BY <2>2, <2>4
    <3>2. j \in 0..(n - 1) /\ start + j * p = 0 * n + s
      BY <2>2, <2>4, <3>1
    <3>3. (0 * n + s) % n = s
      BY Rest
    <3> QED
      BY <3>2, <3>3
  <2>5. CASE j < 0
    <3>1. -n < j * p
      BY <2>2
    <3>2. (j + m) * p > 0
      BY <2>3, <3>1
    <3>3. j + m >= 1
      BY <3>2
    <3>4. m <= n
      <4>1. m > 0
        BY <2>3
      <4> QED
        BY <2>3, <4>1
    <3>5. j + m \in 0..(n - 1) /\ start + (j + m) * p = 1 * n + s
      BY <2>2, <2>3, <2>5, <3>3, <3>4
    <3>6. (1 * n + s) % n = s
      BY Rest
    <3> QED
      BY <3>5, <3>6
  <2> QED
    BY <2>1, <2>2, <2>4, <2>5
<1> DEFINE mine == {s \in 0..(n - 1) : s % p = start % p}
<1>3. ASSUME NEW s \in SlotsOf(start, p, n) PROVE s \in mine
  <2>1. PICK k \in 0..(n - 1) : s = (start + k * p) % n
    BY DEF SlotsOf
  <2> QED
    BY <1>1, <2>1
<1>4. ASSUME NEW s \in mine PROVE s \in SlotsOf(start, p, n)
  BY <1>2 DEF SlotsOf
<1> QED
  BY <1>3, <1>4, Zenon

-----------------------------------------------------------------------------
(***************************************************************************)
(* The length of the wheel                                                 *)
(***************************************************************************)
LEMMA SmallestNumber ==
  ASSUME NEW S \in SUBSET Nat, S # {}
  PROVE  Min(S) \in S /\ \A y \in S : Min(S) <= y
<1> DEFINE below == OpToRel(<, Nat)
<1>1. IsWellFoundedOn(below, Nat)
  BY NatLessThanWellFounded
<1> HIDE DEF below
<1>2. PICK x \in S : \A y \in S : ~(<<y, x>> \in below)
  BY <1>1, WFMin
<1>3. ASSUME NEW y \in S PROVE x <= y
  <2>1. x \in Nat /\ y \in Nat
    OBVIOUS
  <2>2. ~(<<y, x>> \in below)
    BY <1>2
  <2> QED
    BY <2>1, <2>2 DEF below, OpToRel
<1> QED
  BY <1>3 DEF Min

LEMMA LeastCommon ==
  ASSUME NEW ps \in Seq(Periods)
  PROVE  /\ LCM(ps) \in 1..IndexCycle
         /\ \A i \in DOMAIN ps : ps[i] \in Nat \ {0} /\ Divides(ps[i], LCM(ps))
         /\ \A m \in Nat : (\A i \in DOMAIN ps : Divides(ps[i], m)) => Divides(LCM(ps), m)
<1>1. \A i \in DOMAIN ps : ps[i] \in Nat \ {0} /\ Divides(ps[i], IndexCycle)
  <2>1. \A i \in DOMAIN ps : ps[i] \in Periods
    OBVIOUS
  <2> QED
    BY <2>1, TimersAssumption DEF Divides
<1>2. IndexCycle \in CommonMultiples(ps)
  BY <1>1, TimersAssumption DEF CommonMultiples
<1>3. CommonMultiples(ps) \in SUBSET Nat
  BY TimersAssumption DEF CommonMultiples
<1>4. LCM(ps) \in CommonMultiples(ps) /\ \A y \in CommonMultiples(ps) : LCM(ps) <= y
  BY <1>2, <1>3, SmallestNumber DEF LCM
<1> DEFINE l == LCM(ps)
<1>5. l \in 1..IndexCycle /\ \A i \in DOMAIN ps : Divides(ps[i], l)
  BY <1>4 DEF CommonMultiples
<1>6. \A y \in CommonMultiples(ps) : l <= y
  BY <1>4
<1> HIDE DEF l
<1>7. IndexCycle \in Nat /\ l \in Nat \ {0} /\ l \in Int
  BY <1>5, TimersAssumption
<1>8. ASSUME NEW m \in Nat, \A i \in DOMAIN ps : Divides(ps[i], m)
      PROVE  Divides(l, m)
  <2>0. m \in Int
    OBVIOUS
  <2>1. m % l \in 0..(l - 1)
    BY <1>7, <2>0, DivMod
  <2>2. PICK q \in Int : m = q * l + (m % l)
    BY <1>7, <2>0, DivMod
  <2>3. ASSUME NEW i \in DOMAIN ps PROVE Divides(ps[i], m % l)
    <3>1. Divides(ps[i], m - q * l)
      BY <1>1, <1>5, <1>7, <1>8, <2>0, Combined
    <3>2. m - q * l = m % l
      BY <1>7, <2>0, <2>1, <2>2
    <3> QED
      BY <3>1, <3>2
  <2>4. CASE m % l = 0
    BY <2>4 DEF Divides
  <2>5. CASE m % l # 0
    <3>1. m % l \in 1..IndexCycle
      BY <1>5, <1>7, <2>1, <2>5
    <3>2. m % l \in CommonMultiples(ps)
      BY <2>3, <3>1 DEF CommonMultiples
    <3> QED
      BY <1>6, <1>7, <2>1, <3>2
  <2> QED
    BY <2>4, <2>5
<1> QED
  BY <1>1, <1>5, <1>8 DEF l

LEMMA LengthOf ==
  ASSUME NEW n \in Nat
  PROVE  Cardinality(0..(n - 1)) = n /\ IsFiniteSet(0..(n - 1))
<1>1. 0 \in Int /\ n - 1 \in Int
  OBVIOUS
<1>2. /\ IsFiniteSet(0..(n - 1))
      /\ Cardinality(0..(n - 1)) = IF 0 > n - 1 THEN 0 ELSE (n - 1) - 0 + 1
  BY <1>1, FS_Interval, Zenon
<1> QED
  BY <1>2


-----------------------------------------------------------------------------
(***************************************************************************)
(* The countdown of a timer                                                *)
(***************************************************************************)
\* The timer sits in the slots with rest a.
HasRest(sl, t, p, a) == \A s \in DOMAIN sl : t \in sl[s] <=> s % p = a

Countdown(sl, c, t) ==
  Min({k \in 0..(Cardinality(DOMAIN sl) - 1) :
         t \in sl[(c + k) % Cardinality(DOMAIN sl)]})

LEMMA CountdownOf ==
  ASSUME NEW n \in Nat \ {0}, NEW sl, DOMAIN sl = 0..(n - 1),
         NEW p \in Nat \ {0}, Divides(p, n), NEW c \in Int, NEW t,
         NEW a \in 0..(p - 1), HasRest(sl, t, p, a)
  PROVE  /\ Countdown(sl, c, t) \in 0..(p - 1)
         /\ \A k \in 0..(p - 1) : (c + k) % p = a <=> k = Countdown(sl, c, t)
<1> DEFINE K == {k \in 0..(n - 1) : t \in sl[(c + k) % n]}
<1>1. Cardinality(DOMAIN sl) = n
  BY LengthOf
<1>2. Countdown(sl, c, t) = Min(K)
  BY <1>1, Zenon DEF Countdown
<1>3. ASSUME NEW k \in 0..(n - 1)
      PROVE  k \in K <=> (c + k) % p = a
  <2>1. c + k \in Int
    OBVIOUS
  <2>2. (c + k) % n \in 0..(n - 1) /\ ((c + k) % n) % p = (c + k) % p
    BY <2>1, RestOfSlot
  <2>3. t \in sl[(c + k) % n] <=> ((c + k) % n) % p = a
    BY <2>2, Zenon DEF HasRest
  <2> QED
    BY <2>2, <2>3
<1>4. p <= n
  <2>1. n \in Int
    OBVIOUS
  <2>2. PICK q \in Int : n = q * p
    BY <2>1, Multiples
  <2>3. q >= 1
    BY <2>2
  <2> QED
    BY <2>2, <2>3
<1>5. PICK k0 \in 0..(p - 1) : (c + k0) % p = a
  BY OnceAround
<1>6. k0 \in K
  BY <1>3, <1>4, <1>5
<1>7. K \in SUBSET Nat
  OBVIOUS
<1>8. Min(K) \in K /\ Min(K) <= k0
  BY <1>6, <1>7, SmallestNumber
<1>9. Min(K) \in 0..(n - 1)
  BY <1>8
<1>10. (c + Min(K)) % p = a
  BY <1>3, <1>8, <1>9
<1> DEFINE m == Min(K)
<1>11. m \in 0..(p - 1) /\ (c + m) % p = a
  BY <1>8, <1>9, <1>10
<1> HIDE DEF m
<1>12. ASSUME NEW k \in 0..(p - 1), (c + k) % p = a PROVE k = m
  <2>1. \A i, j \in 0..(p - 1) : (c + i) % p = a /\ (c + j) % p = a => i = j
    BY OnceAround, Zenon
  <2> QED
    BY <1>11, <1>12, <2>1, Zenon
<1> QED
  BY <1>2, <1>11, <1>12 DEF m

\* A timer is due when it sits in the slot under the hand.
LEMMA DueNow ==
  ASSUME NEW n \in Nat \ {0}, NEW sl, DOMAIN sl = 0..(n - 1),
         NEW p \in Nat \ {0}, Divides(p, n), NEW c \in Int, NEW t,
         NEW a \in 0..(p - 1), HasRest(sl, t, p, a)
  PROVE  t \in sl[c % n] <=> Countdown(sl, c, t) = 0
<1>1. c % n \in 0..(n - 1) /\ (c % n) % p = c % p
  BY RestOfSlot
<1>2. t \in sl[c % n] <=> c % p = a
  BY <1>1, Zenon DEF HasRest
<1>3. 0 \in 0..(p - 1) /\ c + 0 = c
  OBVIOUS
<1>4. (c + 0) % p = a <=> 0 = Countdown(sl, c, t)
  BY <1>3, CountdownOf
<1> QED
  BY <1>2, <1>3, <1>4

\* When the hand moves on, every countdown goes down by one or starts over.
LEMMA OneLess ==
  ASSUME NEW n \in Nat \ {0}, NEW sl, DOMAIN sl = 0..(n - 1),
         NEW p \in Nat \ {0}, Divides(p, n), NEW c \in Int, NEW t,
         NEW a \in 0..(p - 1), HasRest(sl, t, p, a),
         NEW N \in Nat \ {0}, Divides(p, N)
  PROVE  Countdown(sl, (c + 1) % N, t) =
           IF Countdown(sl, c, t) = 0 THEN p - 1 ELSE Countdown(sl, c, t) - 1
<1> DEFINE d == Countdown(sl, c, t)
           e == IF d = 0 THEN p - 1 ELSE d - 1
           x == (c + 1) % N
           y == c + 1
<1>1. d \in 0..(p - 1) /\ (c + d) % p = a
  <2>1. /\ Countdown(sl, c, t) \in 0..(p - 1)
        /\ \A k \in 0..(p - 1) : (c + k) % p = a <=> k = Countdown(sl, c, t)
    BY CountdownOf
  <2> QED
    BY <2>1, Zenon
<1>2. y \in Int
  OBVIOUS
<1>3. x \in 0..(N - 1) /\ x % p = y % p
  BY <1>2, RestOfSlot
<1>0. y = c + 1
  OBVIOUS
<1> HIDE DEF d, x, y
<1>4. x \in Int
  BY <1>3
<1>5. e \in 0..(p - 1) /\ e \in Int /\ y + e \in Int /\ c + d \in Int
  BY <1>0, <1>1
<1>6. (x + e) % p = (y + e) % p
  <2>1. ASSUME NEW k \in Int PROVE (x + k) % p = (y + k) % p
    BY <1>2, <1>3, <1>4, RestOfSum
  <2>2. e \in Int
    BY <1>5
  <2> QED
    BY <2>1, <2>2
<1>7. (y + e) % p = (c + d) % p
  <2>1. (y + e) - (c + d) = (IF d = 0 THEN 1 ELSE 0) * p
    BY <1>0, <1>1
  <2>2. Divides(p, (y + e) - (c + d))
    <3>1. (y + e) - (c + d) \in Int
      BY <1>5
    <3>2. (IF d = 0 THEN 1 ELSE 0) \in Int
      OBVIOUS
    <3> QED
      BY <2>1, <3>1, <3>2, Multiples
  <2> QED
    BY <1>5, <2>2, SameRest
<1>8. (x + e) % p = a
  BY <1>1, <1>6, <1>7
<1>9. e = Countdown(sl, x, t)
  BY <1>4, <1>5, <1>8, CountdownOf
<1> QED
  BY <1>9 DEF d, x

-----------------------------------------------------------------------------
(***************************************************************************)
(* The invariant                                                           *)
(***************************************************************************)
\* The wheel is as long as the periods used so far need it.
Length == SlotsCount = IF periodsVector = <<>> THEN 0 ELSE LCM(periodsVector)

\* Every timer has the slots of one rest.
Spread == \A t \in Timers :
            /\ periodOf[t] \in Range(periodsVector)
            /\ \E a \in 0..(periodOf[t] - 1) : HasRest(slots, t, periodOf[t], a)

\* No slot holds a timer that was removed.
Owned == \A s \in DOMAIN slots : slots[s] \subseteq Timers

\* The walk has called the timers of the slot under the hand up to the cursor.
Walk == /\ fired = IF SlotsCount = 0 THEN {} ELSE {t \in CurrentSlot : t <= cursor}
        /\ owed = 0 => cursor = 0 /\ ~calling
        /\ owed > 0 => SlotsCount > 0
        /\ cursor <= lastId

WheelInv == TypeOK /\ Length /\ Spread /\ Owned /\ Walk

\* The wheel has slots 0 to n - 1, and every period in use divides n.
LEMMA WheelLength ==
  ASSUME WheelInv
  PROVE  /\ SlotsCount \in Nat /\ DOMAIN slots = 0..(SlotsCount - 1)
         /\ slots \in [0..(SlotsCount - 1) -> SUBSET Ids]
         /\ periodsVector \in Seq(Periods)
         /\ periodsVector # <<>> => SlotsCount = LCM(periodsVector) /\ SlotsCount \in Nat \ {0}
         /\ periodsVector = <<>> => SlotsCount = 0 /\ Timers = {}
<1>1. periodsVector \in Seq(Periods) /\ slots \in [0..(SlotsCount - 1) -> SUBSET Ids]
  BY DEF WheelInv, TypeOK
<1>2. LCM(periodsVector) \in 1..IndexCycle
  BY <1>1, LeastCommon
<1>3. LCM(periodsVector) \in Nat \ {0}
  BY <1>2, TimersAssumption
<1>4. ASSUME periodsVector = <<>> PROVE Timers = {}
  <2>1. Range(periodsVector) = {}
    BY <1>4 DEF Range
  <2> QED
    BY <2>1 DEF WheelInv, Spread
<1>5. SlotsCount = IF periodsVector = <<>> THEN 0 ELSE LCM(periodsVector)
  BY DEF WheelInv, Length
<1> HIDE DEF SlotsCount
<1>6. SlotsCount \in Nat
  BY <1>3, <1>5
<1>7. DOMAIN slots = 0..(SlotsCount - 1)
  BY <1>1
<1> QED
  BY <1>1, <1>3, <1>4, <1>5, <1>6, <1>7

LEMMA TimerOnWheel ==
  ASSUME WheelInv, NEW t \in Timers
  PROVE  /\ SlotsCount \in Nat \ {0} /\ DOMAIN slots = 0..(SlotsCount - 1)
         /\ periodOf[t] \in Nat \ {0} /\ periodOf[t] \in Periods
         /\ Divides(periodOf[t], SlotsCount)
         /\ Divides(periodOf[t], IndexCycle)
         /\ \E a \in 0..(periodOf[t] - 1) : HasRest(slots, t, periodOf[t], a)
<1>1. periodsVector # <<>>
  BY WheelLength
<1>2. /\ SlotsCount \in Nat \ {0} /\ DOMAIN slots = 0..(SlotsCount - 1)
      /\ SlotsCount = LCM(periodsVector) /\ periodsVector \in Seq(Periods)
  BY <1>1, WheelLength
<1>3. periodOf[t] \in Periods
  BY DEF WheelInv, TypeOK
<1>4. periodOf[t] \in Nat \ {0} /\ Divides(periodOf[t], IndexCycle)
  BY <1>3, TimersAssumption DEF Divides
<1>5. PICK i \in DOMAIN periodsVector : periodOf[t] = periodsVector[i]
  BY DEF WheelInv, Spread, Range
<1>6. Divides(periodOf[t], SlotsCount)
  BY <1>2, <1>5, LeastCommon
<1>7. \E a \in 0..(periodOf[t] - 1) : HasRest(slots, t, periodOf[t], a)
  BY DEF WheelInv, Spread
<1> QED
  BY <1>2, <1>3, <1>4, <1>6, <1>7

LEMMA HandOnWheel ==
  ASSUME WheelInv, SlotsCount # 0
  PROVE  /\ currentSlotIndex \in Int /\ currentSlotIndex % SlotsCount \in DOMAIN slots
         /\ CurrentSlot \subseteq Timers /\ CurrentSlot \subseteq 1..lastId
<1>1. SlotsCount \in Nat \ {0} /\ DOMAIN slots = 0..(SlotsCount - 1)
  BY WheelLength
<1>2. currentSlotIndex \in Int
  BY TimersAssumption DEF WheelInv, TypeOK
<1>3. currentSlotIndex % SlotsCount \in 0..(SlotsCount - 1)
  BY <1>1, <1>2, DivMod
<1>4. CurrentSlot \subseteq Timers
  BY <1>1, <1>3 DEF WheelInv, Owned, CurrentSlot
<1> QED
  BY <1>1, <1>2, <1>3, <1>4 DEF WheelInv, TypeOK

-----------------------------------------------------------------------------
(***************************************************************************)
(* The invariant holds                                                     *)
(***************************************************************************)
\* The wheel on which AddTimer puts a timer: the old slots over and over.
LEMMA NewWheel ==
  ASSUME WheelInv, NEW ps \in Seq(Periods), ps # <<>>,
         Range(periodsVector) \subseteq Range(ps)
  PROVE  /\ WheelFor(ps) \in [0..(LCM(ps) - 1) -> SUBSET Ids]
         /\ SlotsCount # 0 => Divides(SlotsCount, LCM(ps))
         /\ \A s \in 0..(LCM(ps) - 1) :
              WheelFor(ps)[s] = IF SlotsCount = 0 THEN {} ELSE slots[s % SlotsCount]
<1> DEFINE n == SlotsCount
           N == LCM(ps)
<1>1. N \in Nat \ {0}
  <2>1. N \in 1..IndexCycle
    BY LeastCommon
  <2> QED
    BY <2>1, TimersAssumption
<1>2. n \in Nat /\ slots \in [0..(n - 1) -> SUBSET Ids]
  BY WheelLength
<1>3. n # 0 => Divides(n, N)
  <2>1. SUFFICES ASSUME n # 0 PROVE Divides(n, N)
    OBVIOUS
  <2>2. n = LCM(periodsVector) /\ periodsVector \in Seq(Periods)
    BY <2>1, WheelLength
  <2>3. ASSUME NEW i \in DOMAIN periodsVector PROVE Divides(periodsVector[i], N)
    <3>1. PICK j \in DOMAIN ps : periodsVector[i] = ps[j]
      BY DEF Range
    <3> QED
      BY <3>1, LeastCommon
  <2>4. N \in Nat
    BY <1>1
  <2> HIDE DEF N, n
  <2> QED
    BY <2>2, <2>3, <2>4, LeastCommon
<1> HIDE DEF n, N
<1>4. ASSUME NEW s \in 0..(N - 1), n # 0 PROVE s % n \in 0..(n - 1)
  <2>1. s \in Int /\ n \in Nat \ {0}
    BY <1>1, <1>2, <1>4
  <2> QED
    BY <2>1, DivMod
<1>5. CASE N = n
  <2>1. WheelFor(ps) = slots
    BY <1>5 DEF WheelFor, N, n
  <2>2. ASSUME NEW s \in 0..(N - 1) PROVE slots[s] = slots[s % n]
    <3>1. n \in Nat \ {0} /\ s \in 0..(n - 1)
      BY <1>1, <1>5
    <3>2. (0 * n + s) % n = s
      BY <3>1, Rest
    <3>3. 0 * n + s = s
      BY <3>1
    <3> QED
      BY <3>2, <3>3
  <2> QED
    BY <1>1, <1>2, <1>3, <1>5, <2>1, <2>2 DEF N, n
<1>6. CASE N # n
  <2>1. WheelFor(ps) = [s \in 0..(N - 1) |-> IF n = 0 THEN {} ELSE slots[s % n]]
    BY <1>6 DEF WheelFor, Rebuilt, N, n
  <2>2. ASSUME NEW s \in 0..(N - 1)
        PROVE  (IF n = 0 THEN {} ELSE slots[s % n]) \in SUBSET Ids
    BY <1>2, <1>4
  <2> QED
    BY <1>3, <2>1, <2>2 DEF N, n
<1> QED
  BY <1>5, <1>6

\* There is a slot to start from.
LEMMA Start ==
  ASSUME NEW n \in Nat \ {0}, NEW wheel \in [0..(n - 1) -> SUBSET Ids]
  PROVE  StartIndex(wheel) \in 0..(n - 1)
<1> DEFINE load == {Cardinality(wheel[s]) : s \in 0..(n - 1)}
           light == {s \in DOMAIN wheel : \A r \in DOMAIN wheel :
                       Cardinality(wheel[s]) <= Cardinality(wheel[r])}
<1>1. ASSUME NEW s \in 0..(n - 1) PROVE Cardinality(wheel[s]) \in Nat
  <2>1. IsFiniteSet(1..MaxTimers)
    <3>1. 1 \in Int /\ MaxTimers \in Int
      BY TimersAssumption
    <3> QED
      BY <3>1, FS_Interval
  <2>2. wheel[s] \subseteq 1..MaxTimers
    BY DEF Ids
  <2> QED
    BY <2>1, <2>2, FS_Subset, FS_CardinalityType
<1>2. load \in SUBSET Nat /\ load # {}
  <2>1. 0 \in 0..(n - 1)
    OBVIOUS
  <2> QED
    BY <1>1, <2>1
<1>3. Min(load) \in load /\ \A y \in load : Min(load) <= y
  BY <1>2, SmallestNumber
<1>4. PICK s \in 0..(n - 1) : Min(load) = Cardinality(wheel[s])
  BY <1>3
<1>5. s \in light
  BY <1>3, <1>4
<1>6. light \in SUBSET Nat /\ light \subseteq 0..(n - 1)
  OBVIOUS
<1>7. Min(light) \in light
  BY <1>5, <1>6, SmallestNumber
<1> QED
  BY <1>6, <1>7 DEF StartIndex

LEMMA WheelInit ==
  TMInit => WheelInv
<1> SUFFICES ASSUME TMInit PROVE WheelInv
  OBVIOUS
<1> USE DEF TMInit
<1>1. SlotsCount = 0
  <2>1. DOMAIN slots = {}
    OBVIOUS
  <2> QED
    BY <2>1, FS_EmptySet DEF SlotsCount
<1>2. TypeOK
  <2>1. slots \in [0..(0 - 1) -> SUBSET Ids]
    OBVIOUS
  <2>2. periodsVector \in Seq(Periods)
    OBVIOUS
  <2>3. Timers = {}
    BY DEF Timers
  <2>4. /\ currentSlotIndex \in 0..(IndexCycle - 1) /\ owed \in Nat /\ cursor \in 0..MaxTimers
        /\ lastId \in 0..MaxTimers /\ fired = {}
    BY TimersAssumption
  <2>5. calling \in BOOLEAN
    BY Zenon
  <2> QED
    BY <1>1, <2>1, <2>2, <2>3, <2>4, <2>5, Zenon DEF TypeOK
<1>3. Length
  BY <1>1 DEF Length
<1>4. Spread /\ Owned
  BY DEF Spread, Owned, Timers
<1>5. Walk
  BY <1>1 DEF Walk
<1> QED
  BY <1>2, <1>3, <1>4, <1>5 DEF WheelInv

\* What AddTimer does to the wheel: the new timer gets the slots of one rest,
\* the others keep the slots they had, over and over.
LEMMA Added ==
  ASSUME WheelInv, NEW p \in Periods, AddTimer(p)
  PROVE  /\ periodsVector' \in Seq(Periods) /\ periodsVector' # <<>>
         /\ p \in Range(periodsVector') /\ Range(periodsVector) \subseteq Range(periodsVector')
         /\ SlotsCount' = LCM(periodsVector') /\ SlotsCount' \in Nat \ {0}
         /\ slots' \in [0..(SlotsCount' - 1) -> SUBSET Ids]
         /\ SlotsCount # 0 => Divides(SlotsCount, SlotsCount')
         /\ \A s \in 0..(SlotsCount' - 1), t \in Ids \ {lastId'} :
              t \in slots'[s] <=> SlotsCount # 0 /\ t \in slots[s % SlotsCount]
         /\ \E a \in 0..(p - 1) : HasRest(slots', lastId', p, a)
<1> DEFINE id == lastId + 1
           ps == IF p \in Range(periodsVector) THEN periodsVector ELSE Append(periodsVector, p)
           wheel == WheelFor(ps)
           N == LCM(ps)
           start == StartIndex(wheel)
           mine == SlotsOf(start, p, Cardinality(DOMAIN wheel))
<1>1. /\ id \in Ids /\ lastId' = id /\ periodsVector' = ps
      /\ slots' = [s \in DOMAIN wheel |-> IF s \in mine THEN wheel[s] \cup {id} ELSE wheel[s]]
  BY DEF AddTimer
<1>2. ps \in Seq(Periods) /\ ps # <<>> /\ p \in Range(ps)
      /\ Range(periodsVector) \subseteq Range(ps)
  <2>1. periodsVector \in Seq(Periods)
    BY WheelLength
  <2>2. CASE p \in Range(periodsVector)
    <3>1. ps = periodsVector
      BY <2>2
    <3>2. periodsVector # <<>>
      BY <2>2 DEF Range
    <3> QED
      BY <2>1, <2>2, <3>1, <3>2
  <2>3. CASE p \notin Range(periodsVector)
    <3>1. ps = Append(periodsVector, p)
      BY <2>3
    <3>2. /\ ps \in Seq(Periods) /\ Len(ps) = Len(periodsVector) + 1
          /\ Len(periodsVector) \in Nat /\ DOMAIN ps = 1..Len(ps)
          /\ DOMAIN periodsVector = 1..Len(periodsVector)
          /\ ps[Len(ps)] = p
          /\ \A i \in 1..Len(periodsVector) : ps[i] = periodsVector[i]
      BY <2>1, <3>1
    <3> HIDE DEF ps
    <3>3. p \in Range(ps)
      BY <3>2 DEF Range
    <3>4. \A i \in DOMAIN periodsVector : i \in DOMAIN ps /\ ps[i] = periodsVector[i]
      BY <3>2
    <3>5. Range(periodsVector) \subseteq Range(ps)
      BY <3>4 DEF Range
    <3>6. ps # <<>>
      BY <3>2
    <3> QED
      BY <3>2, <3>3, <3>5, <3>6
  <2> QED
    BY <2>2, <2>3
<1> HIDE DEF ps
<1>3. /\ wheel \in [0..(N - 1) -> SUBSET Ids]
      /\ SlotsCount # 0 => Divides(SlotsCount, N)
      /\ \A s \in 0..(N - 1) :
           wheel[s] = IF SlotsCount = 0 THEN {} ELSE slots[s % SlotsCount]
  BY <1>2, NewWheel
<1>4. N \in Nat \ {0}
  <2>1. N \in 1..IndexCycle
    BY <1>2, LeastCommon
  <2> QED
    BY <2>1, TimersAssumption
<1>5. p \in Nat \ {0} /\ Divides(p, N)
  <2>1. PICK i \in DOMAIN ps : p = ps[i]
    BY <1>2 DEF Range
  <2> QED
    BY <1>2, <2>1, LeastCommon
<1> HIDE DEF N, wheel
<1>6. DOMAIN wheel = 0..(N - 1) /\ Cardinality(DOMAIN wheel) = N
  BY <1>3, <1>4, LengthOf
<1>7. start \in 0..(N - 1)
  BY <1>3, <1>4, Start
<1> HIDE DEF start
<1>8. mine = {s \in 0..(N - 1) : s % p = start % p}
  BY <1>4, <1>5, <1>6, <1>7, SlotsTaken
<1> HIDE DEF mine
<1>9. DOMAIN slots' = 0..(N - 1) /\ SlotsCount' = N
  BY <1>1, <1>4, <1>6, LengthOf DEF SlotsCount
<1>10. ASSUME NEW s \in 0..(N - 1)
       PROVE  slots'[s] = IF s \in mine THEN wheel[s] \cup {id} ELSE wheel[s]
  BY <1>1, <1>6
<1>11. slots' \in [0..(N - 1) -> SUBSET Ids]
  <2>1. ASSUME NEW s \in 0..(N - 1)
        PROVE  (IF s \in mine THEN wheel[s] \cup {id} ELSE wheel[s]) \in SUBSET Ids
    BY <1>1, <1>3
  <2> QED
    BY <1>1, <1>6, <2>1
<1>12. ASSUME NEW s \in 0..(N - 1), NEW t \in Ids \ {id}
       PROVE  t \in slots'[s] <=> SlotsCount # 0 /\ t \in slots[s % SlotsCount]
  <2>1. t \in slots'[s] <=> t \in wheel[s]
    BY <1>10
  <2> QED
    BY <1>3, <2>1
<1>13. HasRest(slots', id, p, start % p)
  <2>1. ASSUME NEW s \in 0..(N - 1) PROVE id \notin wheel[s]
    <3>1. ASSUME SlotsCount # 0 PROVE id \notin slots[s % SlotsCount]
      <4>1. s \in Int /\ SlotsCount \in Nat \ {0} /\ DOMAIN slots = 0..(SlotsCount - 1)
        BY <1>4, <3>1, WheelLength
      <4>2. s % SlotsCount \in DOMAIN slots
        BY <4>1, DivMod
      <4>3. slots[s % SlotsCount] \subseteq 1..lastId /\ lastId \in Int
        <5>1. slots[s % SlotsCount] \subseteq Timers
          BY <4>2, Zenon DEF WheelInv, Owned
        <5>2. Timers \subseteq 1..lastId /\ lastId \in 0..MaxTimers
          BY DEF WheelInv, TypeOK
        <5>3. lastId \in Int
          BY <5>2, TimersAssumption
        <5> QED
          BY <5>1, <5>2, <5>3, Zenon
      <4> QED
        BY <4>3
    <3> QED
      BY <1>3, <3>1
  <2>2. ASSUME NEW s \in 0..(N - 1) PROVE id \in slots'[s] <=> s % p = start % p
    BY <1>8, <1>10, <2>1
  <2> QED
    BY <1>9, <2>2 DEF HasRest
<1>14. start % p \in 0..(p - 1)
  <2>1. start \in Int
    BY <1>4, <1>7
  <2> QED
    BY <1>5, <2>1, DivMod
<1>15. lastId' = id /\ periodsVector' = ps /\ SlotsCount' = LCM(periodsVector')
  BY <1>1, <1>9 DEF N
<1> HIDE DEF id
<1> QED
  BY <1>2, <1>3, <1>4, <1>9, <1>11, <1>12, <1>13, <1>14, <1>15

\* A timer keeps its rest when others come and go.
LEMMA KeepsRest ==
  ASSUME WheelInv, NEW p \in Periods, AddTimer(p), NEW t \in Timers,
         NEW a \in 0..(periodOf[t] - 1), HasRest(slots, t, periodOf[t], a)
  PROVE  HasRest(slots', t, periodOf[t], a)
<1>1. /\ SlotsCount \in Nat \ {0} /\ DOMAIN slots = 0..(SlotsCount - 1)
      /\ periodOf[t] \in Nat \ {0} /\ Divides(periodOf[t], SlotsCount)
  BY TimerOnWheel
<1>2. t \in Ids \ {lastId'}
  BY TimersAssumption DEF WheelInv, TypeOK, AddTimer, Ids
<1>3. DOMAIN slots' = 0..(SlotsCount' - 1) /\ SlotsCount' \in Nat \ {0}
  BY Added
<1>4. ASSUME NEW s \in 0..(SlotsCount' - 1)
      PROVE  t \in slots'[s] <=> s % periodOf[t] = a
  <2>1. t \in slots'[s] <=> t \in slots[s % SlotsCount]
    BY <1>1, <1>2, Added
  <2>2. s \in Int
    BY <1>3
  <2>3. s % SlotsCount \in DOMAIN slots /\ (s % SlotsCount) % periodOf[t] = s % periodOf[t]
    BY <1>1, <2>2, RestOfSlot
  <2> QED
    BY <2>1, <2>3 DEF HasRest
<1> QED
  BY <1>3, <1>4 DEF HasRest

LEMMA AddTimerKeeps ==
  ASSUME WheelInv, NEW p \in Periods, AddTimer(p)
  PROVE  WheelInv'
<1>1. /\ lastId' = lastId + 1 /\ lastId' \in Ids
      /\ periodOf' = [t \in Timers \cup {lastId'} |-> IF t = lastId' THEN p ELSE periodOf[t]]
      /\ UNCHANGED walkVars
  BY DEF AddTimer
<1>2. /\ Timers \subseteq 1..lastId /\ lastId \in 0..MaxTimers
      /\ \A t \in Timers : periodOf[t] \in Periods
      /\ cursor \in 0..MaxTimers /\ cursor <= lastId
  BY DEF WheelInv, TypeOK, Walk
<1>3. /\ Timers' = Timers \cup {lastId'} /\ lastId' \notin Timers
      /\ periodOf'[lastId'] = p /\ \A t \in Timers : periodOf'[t] = periodOf[t]
  <2>1. lastId' \notin Timers
    BY <1>1, <1>2, TimersAssumption
  <2> QED
    BY <1>1, <2>1 DEF Timers
<1>4. TypeOK'
  <2>1. Timers' \subseteq 1..lastId' /\ lastId' \in 0..MaxTimers
    BY <1>1, <1>2, <1>3, TimersAssumption DEF Ids
  <2>2. \A t \in Timers' : periodOf'[t] \in Periods
    BY <1>2, <1>3
  <2>3. slots' \in [0..(SlotsCount' - 1) -> SUBSET Ids] /\ periodsVector' \in Seq(Periods)
    BY Added
  <2>4. /\ currentSlotIndex' \in 0..(IndexCycle - 1) /\ owed' \in Nat
        /\ cursor' \in 0..MaxTimers /\ calling' \in BOOLEAN /\ fired' \subseteq Timers'
    BY <1>1, <1>3 DEF WheelInv, TypeOK, walkVars
  <2> QED
    BY <2>1, <2>2, <2>3, <2>4 DEF TypeOK, Ids
<1>5. Length'
  <2>1. SlotsCount' = LCM(periodsVector') /\ periodsVector' # <<>>
    BY Added
  <2>2. Length' = (SlotsCount' = IF periodsVector' = <<>> THEN 0 ELSE LCM(periodsVector'))
    BY DEF Length
  <2> QED
    BY <2>1, <2>2
<1>6. Spread'
  <2>1. ASSUME NEW t \in Timers
        PROVE  /\ periodOf'[t] \in Range(periodsVector')
               /\ \E a \in 0..(periodOf'[t] - 1) : HasRest(slots', t, periodOf'[t], a)
    <3>1. PICK a \in 0..(periodOf[t] - 1) : HasRest(slots, t, periodOf[t], a)
      BY TimerOnWheel
    <3>2. HasRest(slots', t, periodOf[t], a)
      BY <3>1, KeepsRest
    <3>3. periodOf[t] \in Range(periodsVector) /\ Range(periodsVector) \subseteq Range(periodsVector')
      BY Added DEF WheelInv, Spread
    <3> QED
      BY <1>3, <3>2, <3>3
  <2>2. /\ periodOf'[lastId'] \in Range(periodsVector')
        /\ \E a \in 0..(periodOf'[lastId'] - 1) :
             HasRest(slots', lastId', periodOf'[lastId'], a)
    BY <1>3, Added
  <2> QED
    BY <1>3, <2>1, <2>2, Zenon DEF Spread
<1>7. /\ SlotsCount' \in Nat \ {0} /\ DOMAIN slots' = 0..(SlotsCount' - 1)
      /\ \A s \in DOMAIN slots', t \in Ids \ {lastId'} :
           t \in slots'[s] <=> SlotsCount # 0 /\ t \in slots[s % SlotsCount]
      /\ \A s \in DOMAIN slots' : slots'[s] \subseteq Ids
  BY Added
<1>8. ASSUME SlotsCount # 0, NEW s \in DOMAIN slots'
      PROVE  s % SlotsCount \in DOMAIN slots
  <2>1. s \in Int /\ SlotsCount \in Nat \ {0} /\ DOMAIN slots = 0..(SlotsCount - 1)
    BY <1>7, <1>8, WheelLength
  <2> QED
    BY <2>1, DivMod
<1>9. Owned'
  <2>1. ASSUME NEW s \in DOMAIN slots', NEW t \in slots'[s], t # lastId'
        PROVE  t \in Timers
    <3>1. SlotsCount # 0 /\ t \in slots[s % SlotsCount]
      BY <1>7, <2>1
    <3> QED
      BY <1>8, <3>1 DEF WheelInv, Owned
  <2> QED
    BY <1>3, <2>1 DEF Owned
<1>10. Walk'
  <2>1. fired = {t \in CurrentSlot' : t <= cursor}
    <3>1. currentSlotIndex \in Int /\ currentSlotIndex' = currentSlotIndex
      BY <1>1, TimersAssumption DEF WheelInv, TypeOK, walkVars
    <3> DEFINE r == currentSlotIndex % SlotsCount'
    <3>2. r \in DOMAIN slots' /\ CurrentSlot' = slots'[r]
      <4>1. r \in 0..(SlotsCount' - 1)
        BY <1>7, <3>1, DivMod
      <4> QED
        BY <1>7, <3>1, <4>1 DEF CurrentSlot
    <3>3. SlotsCount # 0 => r % SlotsCount = currentSlotIndex % SlotsCount
      <4>1. SUFFICES ASSUME SlotsCount # 0
                     PROVE  r % SlotsCount = currentSlotIndex % SlotsCount
        OBVIOUS
      <4>2. SlotsCount \in Nat \ {0} /\ Divides(SlotsCount, SlotsCount')
        BY <4>1, Added, WheelLength
      <4> QED
        BY <1>7, <3>1, <4>2, RestOfSlot
    <3> HIDE DEF r
    <3>4. ASSUME NEW t \in Ids \ {lastId'}
          PROVE  t \in CurrentSlot' <=> SlotsCount # 0 /\ t \in CurrentSlot
      BY <1>7, <3>2, <3>3 DEF CurrentSlot
    <3>5. ~(lastId' <= cursor)
      BY <1>1, <1>2, TimersAssumption
    <3>6. fired = IF SlotsCount = 0 THEN {} ELSE {t \in CurrentSlot : t <= cursor}
      BY DEF WheelInv, Walk
    <3>7. CurrentSlot' \subseteq Ids
      BY <1>7, <3>2
    <3>8. SlotsCount # 0 => CurrentSlot \subseteq Ids \ {lastId'}
      BY <1>1, <1>2, HandOnWheel, TimersAssumption DEF Ids
    <3>9. ASSUME NEW t PROVE t \in fired <=> t \in CurrentSlot' /\ t <= cursor
      <4>1. CASE t \in Ids \ {lastId'}
        BY <3>4, <3>6, <4>1
      <4>2. CASE t = lastId'
        BY <3>5, <3>6, <3>8, <4>2
      <4>3. CASE t \notin Ids
        BY <3>6, <3>7, <3>8, <4>3
      <4> QED
        BY <4>1, <4>2, <4>3
    <3> QED
      BY <3>9
  <2>2. fired' = fired /\ cursor' = cursor /\ owed' = owed /\ calling' = calling
    BY <1>1 DEF walkVars
  <2>3. /\ owed = 0 => cursor = 0 /\ ~calling
        /\ cursor <= lastId
    BY DEF WheelInv, Walk
  <2>4. cursor <= lastId' /\ SlotsCount' > 0 /\ SlotsCount' # 0
    BY <1>1, <1>2, <1>7, TimersAssumption
  <2> QED
    BY <2>1, <2>2, <2>3, <2>4 DEF Walk
<1> QED
  BY <1>4, <1>5, <1>6, <1>9, <1>10 DEF WheelInv

LEMMA RemoveTimerKeeps ==
  ASSUME WheelInv, NEW id \in Ids, RemoveTimer(id)
  PROVE  WheelInv'
<1>1. /\ id \in Timers /\ fired' = fired \ {id} /\ slots' = Without(id)
      /\ periodOf' = Restrict(periodOf, Timers \ {id})
      /\ UNCHANGED <<periodsVector, currentSlotIndex, owed, cursor, calling, lastId>>
  BY DEF RemoveTimer
<1>2. SlotsCount \in Nat \ {0} /\ DOMAIN slots = 0..(SlotsCount - 1)
  BY <1>1, TimerOnWheel
<1>3. /\ DOMAIN slots' = DOMAIN slots /\ SlotsCount' = SlotsCount
      /\ \A s \in DOMAIN slots : slots'[s] = slots[s] \ {id}
  BY <1>1 DEF Without, SlotsCount
<1>4. Timers' = Timers \ {id} /\ \A t \in Timers' : periodOf'[t] = periodOf[t]
  BY <1>1 DEF Timers, Restrict
<1>5. TypeOK'
  <2>1. slots' \in [0..(SlotsCount' - 1) -> SUBSET Ids]
    <3>1. \A s \in DOMAIN slots : slots[s] \ {id} \in SUBSET Ids
      BY DEF WheelInv, TypeOK
    <3> QED
      BY <1>1, <1>2, <1>3, <3>1 DEF Without
  <2>2. Timers' \subseteq 1..lastId' /\ (\A t \in Timers' : periodOf'[t] \in Periods)
        /\ fired' \subseteq Timers'
    BY <1>1, <1>4 DEF WheelInv, TypeOK
  <2>3. /\ periodsVector' \in Seq(Periods) /\ currentSlotIndex' \in 0..(IndexCycle - 1)
        /\ owed' \in Nat /\ cursor' \in 0..MaxTimers /\ calling' \in BOOLEAN
        /\ lastId' \in 0..MaxTimers
    BY <1>1 DEF WheelInv, TypeOK
  <2> QED
    BY <2>1, <2>2, <2>3 DEF TypeOK, Ids
<1>6. Length'
  BY <1>1, <1>3 DEF WheelInv, Length
<1>7. Spread'
  <2>1. ASSUME NEW t \in Timers'
        PROVE  /\ periodOf'[t] \in Range(periodsVector')
               /\ \E a \in 0..(periodOf'[t] - 1) : HasRest(slots', t, periodOf'[t], a)
    <3>1. t \in Timers /\ t # id /\ periodOf'[t] = periodOf[t]
      BY <1>4, <2>1
    <3>2. PICK a \in 0..(periodOf[t] - 1) : HasRest(slots, t, periodOf[t], a)
      BY <3>1, TimerOnWheel
    <3>3. HasRest(slots', t, periodOf[t], a)
      BY <1>3, <3>1, <3>2 DEF HasRest
    <3> QED
      BY <1>1, <3>1, <3>2, <3>3 DEF WheelInv, Spread
  <2> QED
    BY <2>1, Zenon DEF Spread
<1>8. Owned'
  BY <1>3, <1>4 DEF WheelInv, Owned
<1>9. Walk'
  <2>1. CurrentSlot' = CurrentSlot \ {id}
    <3>1. currentSlotIndex % SlotsCount \in DOMAIN slots
      BY <1>2, HandOnWheel
    <3> QED
      BY <1>1, <1>3, <3>1 DEF CurrentSlot
  <2>2. fired = {t \in CurrentSlot : t <= cursor}
    BY <1>2 DEF WheelInv, Walk
  <2>3. fired' = {t \in CurrentSlot' : t <= cursor}
    BY <1>1, <2>1, <2>2
  <2>4. SlotsCount' # 0 /\ SlotsCount' > 0
    BY <1>2, <1>3
  <2> QED
    BY <1>1, <2>3, <2>4 DEF WheelInv, Walk
<1> QED
  BY <1>5, <1>6, <1>7, <1>8, <1>9 DEF WheelInv

LEMMA ProcessTimerKeeps ==
  ASSUME WheelInv, ProcessTimer
  PROVE  /\ WheelInv'
         /\ cursor' \in Timers \ fired /\ cursor' \in CurrentSlot
<1>1. /\ owed > 0 /\ ~calling /\ Ahead # {} /\ cursor' = Min(Ahead) /\ calling' = TRUE
      /\ fired' = fired \cup {cursor'}
      /\ UNCHANGED <<slots, periodsVector, periodOf, currentSlotIndex, owed, lastId>>
  BY DEF ProcessTimer, wheelVars
<1>2. SlotsCount > 0 /\ SlotsCount # 0 /\ SlotsCount \in Nat
  BY <1>1, WheelLength DEF WheelInv, Walk
<1>3. CurrentSlot \subseteq Timers /\ CurrentSlot \subseteq 1..lastId
  BY <1>2, HandOnWheel
<1>4. lastId \in Int /\ cursor \in Int /\ lastId \in 0..MaxTimers
  BY TimersAssumption DEF WheelInv, TypeOK
<1>5. Ahead \in SUBSET Nat
  <2>1. 1..lastId \subseteq Nat
    BY <1>4
  <2> QED
    BY <1>3, <2>1 DEF Ahead
<1>6. cursor' \in Ahead /\ \A y \in Ahead : cursor' <= y
  BY <1>1, <1>5, SmallestNumber
<1>7. cursor' \in CurrentSlot /\ cursor' > cursor /\ cursor' \in 1..lastId
  BY <1>3, <1>6 DEF Ahead
<1>8. fired = {t \in CurrentSlot : t <= cursor}
  BY <1>2 DEF WheelInv, Walk
<1>9. SlotsCount' = SlotsCount /\ CurrentSlot' = CurrentSlot /\ Timers' = Timers
  BY <1>1 DEF SlotsCount, CurrentSlot, Timers
<1>10. fired' = {t \in CurrentSlot' : t <= cursor'}
  <2>1. ASSUME NEW t \in CurrentSlot, t <= cursor' PROVE t \in fired \cup {cursor'}
    <3>1. t \in Int /\ cursor' \in Int
      BY <1>3, <1>4, <1>7
    <3>2. CASE t <= cursor
      BY <1>8, <3>2
    <3>3. CASE ~(t <= cursor)
      <4>1. t \in Ahead
        BY <1>4, <3>1, <3>3 DEF Ahead
      <4> QED
        BY <1>6, <2>1, <3>1, <4>1
    <3> QED
      BY <3>2, <3>3
  <2>2. ASSUME NEW t \in fired \cup {cursor'} PROVE t \in CurrentSlot /\ t <= cursor'
    <3>1. \A x \in CurrentSlot : x \in Int
      BY <1>3, <1>4
    <3> QED
      BY <1>4, <1>7, <1>8, <2>2, <3>1
  <2> QED
    BY <1>1, <1>9, <2>1, <2>2, Zenon
<1>11. TypeOK'
  <2>1. cursor' \in 0..MaxTimers
    BY <1>4, <1>7, TimersAssumption
  <2>2. calling' \in BOOLEAN
    BY <1>1, Zenon
  <2>3. fired' \subseteq Timers'
    BY <1>3, <1>9, <1>10
  <2>4. /\ slots' \in [0..(SlotsCount' - 1) -> SUBSET Ids]
        /\ periodsVector' \in Seq(Periods)
        /\ Timers' \subseteq 1..lastId' /\ \A t \in Timers' : periodOf'[t] \in Periods
        /\ currentSlotIndex' \in 0..(IndexCycle - 1)
        /\ owed' \in Nat /\ lastId' \in 0..MaxTimers
    BY <1>1, <1>9 DEF WheelInv, TypeOK
  <2> QED
    BY <2>1, <2>2, <2>3, <2>4 DEF TypeOK, Ids
<1>12. Length' /\ Spread' /\ Owned'
  BY <1>1, <1>9 DEF WheelInv, Length, Spread, Owned
<1>13. Walk'
  <2>1. ~(owed' = 0) /\ SlotsCount' # 0 /\ SlotsCount' > 0 /\ cursor' <= lastId'
    BY <1>1, <1>2, <1>4, <1>7, <1>9
  <2> QED
    BY <1>10, <2>1 DEF Walk
<1>14. cursor' \notin fired
  BY <1>4, <1>7, <1>8
<1> QED
  BY <1>3, <1>7, <1>11, <1>12, <1>13, <1>14 DEF WheelInv

LEMMA NextSlotKeeps ==
  ASSUME WheelInv, NextSlot
  PROVE  /\ WheelInv'
         /\ SlotsCount # 0 /\ fired = CurrentSlot
<1>1. /\ owed > 0 /\ ~calling /\ Ahead = {} /\ owed' = owed - 1 /\ cursor' = 0
      /\ currentSlotIndex' = (currentSlotIndex + 1) % IndexCycle /\ fired' = {}
      /\ UNCHANGED <<slots, periodsVector, periodOf, calling, lastId>>
  BY DEF NextSlot, NextIndex, wheelVars
<1>2. SlotsCount > 0 /\ SlotsCount # 0 /\ SlotsCount \in Nat
  BY <1>1, WheelLength DEF WheelInv, Walk
<1>3. CurrentSlot \subseteq 1..lastId
  BY <1>2, HandOnWheel
<1>4. lastId \in Int /\ cursor \in Int /\ lastId \in 0..MaxTimers
  BY TimersAssumption DEF WheelInv, TypeOK
<1>5. fired = CurrentSlot
  <2>1. fired = {t \in CurrentSlot : t <= cursor}
    BY <1>2 DEF WheelInv, Walk
  <2>2. \A t \in CurrentSlot : t <= cursor
    BY <1>1, <1>3, <1>4 DEF Ahead
  <2> QED
    BY <2>1, <2>2
<1>6. SlotsCount' = SlotsCount /\ Timers' = Timers
  BY <1>1 DEF SlotsCount, Timers
<1>7. currentSlotIndex' \in 0..(IndexCycle - 1)
  <2>1. currentSlotIndex + 1 \in Int
    BY TimersAssumption DEF WheelInv, TypeOK
  <2> QED
    BY <1>1, <2>1, DivMod, TimersAssumption
<1>8. TypeOK'
  <2>1. cursor' \in 0..MaxTimers /\ owed' \in Nat /\ fired' \subseteq Timers'
    BY <1>1, TimersAssumption DEF WheelInv, TypeOK
  <2>2. /\ slots' \in [0..(SlotsCount' - 1) -> SUBSET Ids]
        /\ periodsVector' \in Seq(Periods)
        /\ Timers' \subseteq 1..lastId' /\ (\A t \in Timers' : periodOf'[t] \in Periods)
        /\ calling' \in BOOLEAN /\ lastId' \in 0..MaxTimers
    BY <1>1, <1>6 DEF WheelInv, TypeOK
  <2> QED
    BY <1>7, <2>1, <2>2 DEF TypeOK, Ids
<1>9. Length' /\ Spread' /\ Owned'
  BY <1>1, <1>6 DEF WheelInv, Length, Spread, Owned
<1>10. Walk'
  <2>1. CurrentSlot' \subseteq 1..lastId'
    <3>1. SlotsCount' \in Nat \ {0} /\ DOMAIN slots' = 0..(SlotsCount' - 1)
      BY <1>1, <1>2, <1>6, WheelLength
    <3>2. currentSlotIndex' \in Int
      BY <1>7, TimersAssumption
    <3>3. currentSlotIndex' % SlotsCount' \in DOMAIN slots'
      BY <3>1, <3>2, DivMod
    <3>4. CurrentSlot' \subseteq Timers'
      BY <1>9, <3>3 DEF Owned, CurrentSlot
    <3> QED
      BY <1>8, <3>4 DEF TypeOK
  <2>2. {t \in CurrentSlot' : t <= 0} = {}
    <3>1. \A t \in 1..lastId' : ~(t <= 0)
      BY <1>1, <1>4
    <3> QED
      BY <2>1, <3>1
  <2> QED
    BY <1>1, <1>2, <1>4, <1>6, <2>2 DEF Walk
<1> QED
  BY <1>2, <1>5, <1>8, <1>9, <1>10 DEF WheelInv

LEMMA WheelStep ==
  WheelInv /\ [TMNext]_tmVars => WheelInv'
<1> SUFFICES ASSUME WheelInv, [TMNext]_tmVars PROVE WheelInv'
  OBVIOUS
<1>1. ASSUME NEW p \in Periods, AddTimer(p) PROVE WheelInv'
  BY <1>1, AddTimerKeeps
<1>2. ASSUME NEW id \in Ids, RemoveTimer(id) PROVE WheelInv'
  BY <1>2, RemoveTimerKeeps
<1>3. ASSUME UNCHANGED <<wheelVars, currentSlotIndex, cursor, lastId, fired>>,
             owed' \in Nat, calling' \in BOOLEAN,
             owed' = 0 => cursor = 0 /\ ~calling',
             owed' > 0 => SlotsCount > 0
      PROVE  WheelInv'
  <2>1. /\ SlotsCount' = SlotsCount /\ Timers' = Timers
        /\ (SlotsCount # 0 => CurrentSlot' = CurrentSlot)
    BY <1>3 DEF SlotsCount, Timers, CurrentSlot, wheelVars
  <2>2. TypeOK'
    BY <1>3, <2>1 DEF WheelInv, TypeOK, wheelVars, Ids
  <2>3. Length' /\ Spread' /\ Owned'
    BY <1>3, <2>1 DEF WheelInv, Length, Spread, Owned, wheelVars
  <2>4. Walk'
    BY <1>3, <2>1 DEF WheelInv, Walk
  <2> QED
    BY <2>2, <2>3, <2>4 DEF WheelInv
<1>4. ASSUME NEW delta \in Deltas, TimeElapsed(delta) PROVE WheelInv'
  <2>1. owed' \in Nat /\ owed' # 0 /\ SlotsCount > 0
    <3>1. delta \in Int /\ delta > 0 /\ owed' = IF delta > BurstLimit THEN 1 ELSE delta
      BY <1>4, TimersAssumption DEF TimeElapsed, Burst
    <3>2. SlotsCount # 0 /\ SlotsCount \in Nat
      BY <1>4, WheelLength DEF TimeElapsed
    <3> QED
      BY <3>1, <3>2
  <2>2. UNCHANGED <<wheelVars, currentSlotIndex, cursor, lastId, fired>> /\ calling' = calling
    BY <1>4 DEF TimeElapsed
  <2>3. calling' \in BOOLEAN
    BY <2>2 DEF WheelInv, TypeOK
  <2> QED
    BY <1>3, <2>1, <2>2, <2>3
<1>5. CASE ProcessTimer
  BY <1>5, ProcessTimerKeeps
<1>6. CASE CallReturns
  <2>1. calling' = FALSE /\ UNCHANGED <<wheelVars, currentSlotIndex, owed, cursor, lastId, fired>>
    BY <1>6 DEF CallReturns
  <2>2. calling' \in BOOLEAN /\ ~calling'
    BY <2>1, Zenon
  <2>3. owed' \in Nat /\ (owed' = 0 => cursor = 0) /\ (owed' > 0 => SlotsCount > 0)
    BY <2>1 DEF WheelInv, TypeOK, Walk
  <2> QED
    BY <1>3, <2>1, <2>2, <2>3
<1>7. CASE NextSlot
  BY <1>7, NextSlotKeeps
<1>8. CASE UNCHANGED tmVars
  <2>1. UNCHANGED <<wheelVars, currentSlotIndex, cursor, lastId, fired>>
        /\ owed' = owed /\ calling' = calling
    BY <1>8 DEF tmVars, walkVars
  <2>2. /\ owed \in Nat /\ calling \in BOOLEAN /\ (owed > 0 => SlotsCount > 0)
        /\ (owed = 0 => cursor = 0 /\ ~calling)
    BY DEF WheelInv, TypeOK, Walk
  <2> QED
    BY <1>3, <2>1, <2>2
<1> QED
  BY <1>1, <1>2, <1>4, <1>5, <1>6, <1>7, <1>8, Zenon DEF TMNext

\* Through every rebuilt wheel each timer sits in every slot that is a
\* multiple of its period away from its first one and in no other, and the
\* walk has called exactly the timers of the slot up to its cursor
\* (AddTimer, RemoveTimer, TimeElapsed).
THEOREM WheelTheorem == TMSpec => []WheelInv
BY WheelInit, WheelStep, PTL DEF TMSpec

\* Every variable of the wheel stays in its domain.
THEOREM TimersTyped == TMSpec => []TypeOK
<1>1. WheelInv => TypeOK
  BY DEF WheelInv
<1> QED
  BY <1>1, WheelTheorem, PTL

-----------------------------------------------------------------------------
(***************************************************************************)
(* The wheel implements the countdowns                                     *)
(***************************************************************************)
LEMMA DueIs ==
  ASSUME NEW t
  PROVE  /\ DueIn(t) = Countdown(slots, currentSlotIndex, t)
         /\ DueIn(t)' = Countdown(slots', currentSlotIndex', t)
BY Zenon DEF DueIn, Countdown, SlotsCount

\* What a step does to the countdowns.
Registers == \E t \in Ids, p \in Periods, d \in 0..(IndexCycle - 1) : Countdowns!Register(t, p, d)
Cancels == \E t \in Ids : Countdowns!Cancel(t)
Fires == \E t \in Ids : Countdowns!Fire(t)
Moves == Registers \/ Cancels \/ Fires \/ Countdowns!Tick \/ UNCHANGED Countdowns!timerVars

LEMMA AddTimerRegisters ==
  ASSUME WheelInv, NEW p \in Periods, AddTimer(p)
  PROVE  Registers
<1> SUFFICES ASSUME NEW id, id = lastId' PROVE Registers
  OBVIOUS
<1> DEFINE d == DueIn(id)'
<1>1. /\ id = lastId + 1 /\ id \in Ids /\ fired' = fired /\ currentSlotIndex' = currentSlotIndex
      /\ periodOf' = [t \in Timers \cup {id} |-> IF t = id THEN p ELSE periodOf[t]]
  BY DEF AddTimer, walkVars
<1>2. id \notin Timers /\ Timers' = Timers \cup {id}
  <2>1. id \notin Timers
    BY <1>1, TimersAssumption DEF WheelInv, TypeOK
  <2> QED
    BY <1>1, <2>1 DEF Timers
<1>3. currentSlotIndex \in Int
  BY TimersAssumption DEF WheelInv, TypeOK
<1>4. p \in Nat \ {0} /\ Divides(p, IndexCycle) /\ IndexCycle \in Nat \ {0}
  BY TimersAssumption DEF Divides
<1>5. /\ SlotsCount' \in Nat \ {0} /\ DOMAIN slots' = 0..(SlotsCount' - 1)
      /\ periodsVector' \in Seq(Periods) /\ p \in Range(periodsVector')
      /\ SlotsCount' = LCM(periodsVector')
  BY Added
<1>6. d \in 0..(p - 1)
  <2>1. PICK a \in 0..(p - 1) : HasRest(slots', id, p, a)
    BY Added
  <2>2. Divides(p, SlotsCount')
    <3>1. PICK i \in DOMAIN periodsVector' : p = periodsVector'[i]
      BY <1>5 DEF Range
    <3> QED
      BY <1>5, <3>1, LeastCommon
  <2>3. d = Countdown(slots', currentSlotIndex, id)
    BY <1>1, DueIs
  <2> HIDE DEF d
  <2> QED
    BY <1>3, <1>4, <1>5, <2>1, <2>2, <2>3, CountdownOf
<1>7. d \in 0..(IndexCycle - 1) /\ d < p
  <2>1. p <= IndexCycle
    <3>1. IndexCycle \in Int
      BY <1>4
    <3>2. PICK q \in Int : IndexCycle = q * p
      BY <1>4, <3>1, Multiples
    <3>3. q >= 1
      BY <1>4, <3>2
    <3> QED
      BY <1>4, <3>2, <3>3
  <2> HIDE DEF d
  <2> QED
    BY <1>4, <1>6, <2>1
<1>8. ASSUME NEW t \in Timers PROVE DueIn(t)' = DueIn(t)
  <2> DEFINE q == periodOf[t]
  <2>1. /\ SlotsCount \in Nat \ {0} /\ DOMAIN slots = 0..(SlotsCount - 1)
        /\ q \in Nat \ {0} /\ Divides(q, SlotsCount)
    BY TimerOnWheel
  <2>2. PICK a \in 0..(q - 1) : HasRest(slots, t, q, a)
    BY TimerOnWheel
  <2>3. HasRest(slots', t, q, a)
    BY <2>2, KeepsRest
  <2>4. Divides(SlotsCount, SlotsCount')
    BY <2>1, Added
  <2>5. Divides(q, SlotsCount')
    <3>1. SlotsCount' \in Int
      BY <1>5
    <3> QED
      BY <2>1, <2>4, <3>1, Through
  <2> HIDE DEF q
  <2> DEFINE k == Countdown(slots, currentSlotIndex, t)
             l == Countdown(slots', currentSlotIndex, t)
  <2>6. k \in 0..(q - 1) /\ \A x \in 0..(q - 1) : (currentSlotIndex + x) % q = a <=> x = k
    BY <1>3, <2>1, <2>2, CountdownOf
  <2>7. l \in 0..(q - 1) /\ \A x \in 0..(q - 1) : (currentSlotIndex + x) % q = a <=> x = l
    BY <1>3, <1>5, <2>1, <2>3, <2>5, CountdownOf
  <2> HIDE DEF k, l
  <2>8. k = l
    BY <2>6, <2>7, Zenon
  <2> QED
    BY <1>1, <2>8, DueIs DEF k, l
<1>9. Countdowns!Register(id, p, d)
  <2>1. id \notin DOMAIN [t \in Timers |-> DueIn(t)]
    BY <1>2
  <2>2. [t \in Timers |-> DueIn(t)]' =
          [x \in Timers \cup {id} |-> IF x = id THEN d ELSE [t \in Timers |-> DueIn(t)][x]]
    <3>1. [t \in Timers |-> DueIn(t)]' = [x \in Timers' |-> DueIn(x)']
      OBVIOUS
    <3>2. \A x \in Timers' :
            DueIn(x)' = IF x = id THEN d ELSE [t \in Timers |-> DueIn(t)][x]
      BY <1>2, <1>8
    <3> QED
      BY <1>2, <3>1, <3>2
  <2> QED
    BY <1>1, <1>7, <2>1, <2>2 DEF Countdowns!Register, Countdowns!Registered
<1> QED
  BY <1>1, <1>7, <1>9 DEF Registers

LEMMA RemoveTimerCancels ==
  ASSUME WheelInv, NEW id \in Ids, RemoveTimer(id)
  PROVE  Cancels
<1>1. /\ id \in Timers /\ fired' = fired \ {id} /\ slots' = Without(id)
      /\ periodOf' = [x \in Timers \ {id} |-> periodOf[x]]
      /\ currentSlotIndex' = currentSlotIndex
  BY DEF RemoveTimer, Restrict
<1>2. Timers' = Timers \ {id}
  BY <1>1 DEF Timers
<1>3. currentSlotIndex \in Int
  BY TimersAssumption DEF WheelInv, TypeOK
<1>4. ASSUME NEW t \in Timers \ {id} PROVE DueIn(t)' = DueIn(t)
  <2> DEFINE q == periodOf[t]
  <2>1. /\ SlotsCount \in Nat \ {0} /\ DOMAIN slots = 0..(SlotsCount - 1)
        /\ q \in Nat \ {0} /\ Divides(q, SlotsCount)
    BY TimerOnWheel
  <2>2. PICK a \in 0..(q - 1) : HasRest(slots, t, q, a)
    BY TimerOnWheel
  <2>3. DOMAIN slots' = 0..(SlotsCount - 1)
    BY <1>1, <2>1 DEF Without
  <2>4. HasRest(slots', t, q, a)
    <3>1. \A s \in DOMAIN slots : slots'[s] = slots[s] \ {id}
      BY <1>1 DEF Without
    <3> QED
      BY <2>1, <2>2, <2>3, <3>1 DEF HasRest
  <2> HIDE DEF q
  <2> DEFINE k == Countdown(slots, currentSlotIndex, t)
             l == Countdown(slots', currentSlotIndex, t)
  <2>5. k \in 0..(q - 1) /\ \A x \in 0..(q - 1) : (currentSlotIndex + x) % q = a <=> x = k
    BY <1>3, <2>1, <2>2, CountdownOf
  <2>6. l \in 0..(q - 1) /\ \A x \in 0..(q - 1) : (currentSlotIndex + x) % q = a <=> x = l
    BY <1>3, <2>1, <2>3, <2>4, CountdownOf
  <2> HIDE DEF k, l
  <2>7. k = l
    BY <2>5, <2>6, Zenon
  <2> QED
    BY <1>1, <2>7, DueIs DEF k, l
<1>5. Countdowns!Cancel(id)
  <2>1. [t \in Timers |-> DueIn(t)]' = [x \in Timers \ {id} |-> [t \in Timers |-> DueIn(t)][x]]
    <3>1. [t \in Timers |-> DueIn(t)]' = [x \in Timers' |-> DueIn(x)']
      OBVIOUS
    <3>2. \A x \in Timers' : DueIn(x)' = [t \in Timers |-> DueIn(t)][x]
      BY <1>2, <1>4
    <3> QED
      BY <1>2, <3>1, <3>2
  <2> QED
    BY <1>1, <2>1 DEF Countdowns!Cancel, Countdowns!Registered
<1> QED
  BY <1>5 DEF Cancels

\* The timer sits in the slot under the hand exactly when its countdown is at 0.
LEMMA UnderTheHand ==
  ASSUME WheelInv, NEW t \in Timers
  PROVE  t \in CurrentSlot <=> DueIn(t) = 0
<1>1. /\ SlotsCount \in Nat \ {0} /\ DOMAIN slots = 0..(SlotsCount - 1)
      /\ periodOf[t] \in Nat \ {0} /\ Divides(periodOf[t], SlotsCount)
  BY TimerOnWheel
<1>2. PICK a \in 0..(periodOf[t] - 1) : HasRest(slots, t, periodOf[t], a)
  BY TimerOnWheel
<1>3. currentSlotIndex \in Int
  BY TimersAssumption DEF WheelInv, TypeOK
<1>4. t \in slots[currentSlotIndex % SlotsCount] <=> Countdown(slots, currentSlotIndex, t) = 0
  BY <1>1, <1>2, <1>3, DueNow
<1> QED
  BY <1>4, DueIs DEF CurrentSlot

LEMMA ProcessTimerFires ==
  ASSUME WheelInv, ProcessTimer
  PROVE  Fires
<1> SUFFICES ASSUME NEW t, t = cursor' PROVE Fires
  OBVIOUS
<1>1. t \in Timers \ fired /\ t \in CurrentSlot
  BY ProcessTimerKeeps
<1>2. DueIn(t) = 0
  BY <1>1, UnderTheHand
<1>3. /\ fired' = fired \cup {t}
      /\ UNCHANGED <<slots, currentSlotIndex, periodOf>>
  BY DEF ProcessTimer, wheelVars
<1>4. [x \in Timers |-> DueIn(x)]' = [x \in Timers |-> DueIn(x)]
  BY <1>3 DEF Timers, DueIn, SlotsCount
<1>5. Countdowns!Fire(t)
  BY <1>1, <1>2, <1>3, <1>4 DEF Countdowns!Fire, Countdowns!Registered
<1>6. t \in Ids
  BY <1>1, TimersAssumption DEF WheelInv, TypeOK, Ids
<1> QED
  BY <1>5, <1>6 DEF Fires

LEMMA NextSlotTicks ==
  ASSUME WheelInv, NextSlot
  PROVE  Countdowns!Tick
<1>1. /\ currentSlotIndex' = (currentSlotIndex + 1) % IndexCycle /\ fired' = {}
      /\ UNCHANGED <<slots, periodOf>>
  BY DEF NextSlot, NextIndex, wheelVars
<1>2. SlotsCount # 0 /\ fired = CurrentSlot
  BY NextSlotKeeps
<1>3. fired = {t \in Timers : DueIn(t) = 0}
  <2>1. CurrentSlot \subseteq Timers
    BY <1>2, HandOnWheel
  <2> QED
    BY <1>2, <2>1, UnderTheHand
<1>4. ASSUME NEW t \in Timers
      PROVE  DueIn(t)' = IF DueIn(t) = 0 THEN periodOf[t] - 1 ELSE DueIn(t) - 1
  <2> DEFINE q == periodOf[t]
             n == SlotsCount
  <2>1. /\ n \in Nat \ {0} /\ DOMAIN slots = 0..(n - 1)
        /\ q \in Nat \ {0} /\ Divides(q, n) /\ Divides(q, IndexCycle)
    BY TimerOnWheel
  <2>2. PICK a \in 0..(q - 1) : HasRest(slots, t, q, a)
    BY TimerOnWheel
  <2>3. currentSlotIndex \in Int /\ IndexCycle \in Nat \ {0}
    BY TimersAssumption DEF WheelInv, TypeOK
  <2> HIDE DEF q, n
  <2>4. Countdown(slots, (currentSlotIndex + 1) % IndexCycle, t) =
          IF Countdown(slots, currentSlotIndex, t) = 0
          THEN q - 1 ELSE Countdown(slots, currentSlotIndex, t) - 1
    BY <2>1, <2>2, <2>3, OneLess
  <2> QED
    BY <1>1, <2>4, DueIs DEF q
<1>5. Timers' = Timers
  BY <1>1 DEF Timers
<1>6. [t \in Timers |-> DueIn(t)]' =
        [t \in Timers |-> IF DueIn(t) = 0 THEN periodOf[t] - 1 ELSE DueIn(t) - 1]
  BY <1>4, <1>5
<1> QED
  BY <1>1, <1>3, <1>6 DEF Countdowns!Tick, Countdowns!Registered

\* Every step of the wheel is a step of the countdowns or none
\* (AddTimer, RemoveTimer, TimeElapsed).
THEOREM CountdownTheorem == TMSpec => ImplementsCountdowns
<1>1. ASSUME WheelInv, [TMNext]_tmVars PROVE [Moves]_tmVars
  <2>1. ASSUME NEW p \in Periods, AddTimer(p) PROVE Moves
    BY <2>1, AddTimerRegisters, <1>1 DEF Moves
  <2>2. ASSUME NEW id \in Ids, RemoveTimer(id) PROVE Moves
    BY <2>2, RemoveTimerCancels, <1>1 DEF Moves
  <2>3. ASSUME slots' = slots, periodOf' = periodOf, currentSlotIndex' = currentSlotIndex,
               fired' = fired
        PROVE  UNCHANGED Countdowns!timerVars
    <3>1. [t \in Timers |-> DueIn(t)]' = [t \in Timers |-> DueIn(t)]
      BY <2>3 DEF Timers, DueIn, SlotsCount
    <3> QED
      BY <2>3, <3>1 DEF Countdowns!timerVars
  <2>4. ASSUME NEW delta \in Deltas, TimeElapsed(delta) PROVE Moves
    BY <2>3, <2>4 DEF TimeElapsed, wheelVars, Moves
  <2>5. ASSUME ProcessTimer PROVE Moves
    BY <2>5, ProcessTimerFires, <1>1 DEF Moves
  <2>6. ASSUME CallReturns PROVE Moves
    BY <2>3, <2>6 DEF CallReturns, wheelVars, Moves
  <2>7. ASSUME NextSlot PROVE Moves
    BY <2>7, NextSlotTicks, <1>1 DEF Moves
  <2>8. TMNext => Moves
    BY <2>1, <2>2, <2>4, <2>5, <2>6, <2>7, Zenon DEF TMNext
  <2> QED
    BY <1>1, <2>8
<1>2. [Moves]_tmVars => [ \/ \E t \in Ids : \/ \E p \in Periods, d \in 0..(IndexCycle - 1) :
                                                Countdowns!Register(t, p, d)
                                           \/ Countdowns!Cancel(t)
                                           \/ Countdowns!Fire(t)
                         \/ Countdowns!Tick
                         \/ UNCHANGED Countdowns!timerVars ]_tmVars
  BY Zenon DEF Moves, Registers, Cancels, Fires
<1>3. WheelInv /\ [TMNext]_tmVars =>
        [ \/ \E t \in Ids : \/ \E p \in Periods, d \in 0..(IndexCycle - 1) :
                                 Countdowns!Register(t, p, d)
                            \/ Countdowns!Cancel(t)
                            \/ Countdowns!Fire(t)
          \/ Countdowns!Tick
          \/ UNCHANGED Countdowns!timerVars ]_tmVars
  BY <1>1, <1>2
<1> QED
  BY <1>3, WheelTheorem, PTL DEF TMSpec, ImplementsCountdowns

=============================================================================
