------------------------ MODULE ProtocolStack_proofs ------------------------
(***************************************************************************)
(* Proofs about protocol stacks, for any number of protocols and any chain *)
(* length: links and carriers stay mutual, the two maps of ProtocolManager *)
(* stay exact, no half stack survives, and shutdown leaves nothing.        *)
(***************************************************************************)
EXTENDS ProtocolStack, TLAPS

(***************************************************************************)
(* The inductive invariant.  Links stay mutual because new protocols are   *)
(* really new.  A carrier deleted by ~TCPProtocol is not on the dead list  *)
(* because the loop empties that list before it deletes any protocol.      *)
(***************************************************************************)
Fresh == \A p \in Pid : p > lastId => p \notin live \cup handlers

HandlersFirst == phase \in {"protocols", "last protocols"} => deadHandlers = {}

GoingDown ==
  /\ phase \in {"last protocols", "last handlers", "stopped"} => active = {}
  /\ phase \in {"last handlers", "stopped"} => live = {}
  /\ phase = "last handlers" => deadHandlers = handlers
  /\ phase = "stopped" => handlers = {}

StackInv == /\ TypeOK /\ LinksMutual /\ EachInOneMap /\ CarriersMutual
            /\ NoHeadless /\ InputHasReceiver /\ Fresh /\ HandlersFirst /\ GoingDown

LEMMA InitInv == StackInit => StackInv
<1> SUFFICES ASSUME StackInit PROVE StackInv
  OBVIOUS
<1> USE StackAssumption DEF StackInit
<1>1. TypeOK
  BY DEF TypeOK, Phases, None
<1>2. LinksMutual /\ EachInOneMap /\ CarriersMutual
  BY DEF LinksMutual, EachInOneMap, CarriersMutual
<1>3. NoHeadless /\ InputHasReceiver
  BY DEF NoHeadless, InputHasReceiver
<1>4. Fresh /\ HandlersFirst /\ GoingDown
  BY DEF Fresh, HandlersFirst, GoingDown
<1> QED
  BY <1>1, <1>2, <1>3, <1>4 DEF StackInv

\* Protocols are numbered from 1, so None is not one of them.
LEMMA PidFacts == Pid \subseteq Nat /\ None \notin Pid /\ (\A p \in Pid : p >= 1 /\ p <= MaxProtocols)
BY StackAssumption DEF Pid, None

\* A new chain, of which the protocols in doomed are given up at once: links stay
\* mutual and the maps exact.
LEMMA ChainProperties ==
  ASSUME StackInv, NEW first \in Nat, NEW last \in Nat,
         first > lastId, last <= MaxProtocols, NEW doomed \in SUBSET (first..last),
         Chain(first, last, doomed)
  PROVE  /\ far' \in [Pid -> Pid \cup {None}] /\ near' \in [Pid -> Pid \cup {None}]
         /\ live' \subseteq Pid /\ active' \subseteq Pid /\ dead' \subseteq Pid
         /\ LinksMutual' /\ EachInOneMap'
<1> USE PidFacts, StackAssumption DEF StackInv, TypeOK, Chain
<1> DEFINE new == first..last
<1>1. new \subseteq Pid /\ new \cap live = {}
  BY DEF Fresh, Pid
<1>2. \A p \in new : far[p] = None /\ near[p] = None
  BY <1>1 DEF LinksMutual
<1>3. far' \in [Pid -> Pid \cup {None}]
  BY DEF Pid
<1>4. near' \in [Pid -> Pid \cup {None}]
  BY DEF Pid
<1>5. live' \subseteq Pid /\ active' \subseteq Pid /\ dead' \subseteq Pid
  BY <1>1
<1>6. LinksMutual'
  <2> SUFFICES ASSUME NEW p \in Pid
               PROVE  /\ far'[p] # None => p \in live' /\ far'[p] \in live' /\ near'[far'[p]] = p
                      /\ near'[p] # None => p \in live' /\ near'[p] \in live' /\ far'[near'[p]] = p
    BY DEF LinksMutual
  <2>1. CASE p \in new
    BY <2>1, <1>1, <1>2 DEF Pid
  <2>2. CASE p \notin new
    <3>1. far'[p] = far[p] /\ near'[p] = near[p]
      BY <2>2
    <3>2. \A q \in live : q \in Pid /\ near'[q] = near[q] /\ far'[q] = far[q]
      <4> SUFFICES ASSUME NEW q \in live
                   PROVE  q \in Pid /\ near'[q] = near[q] /\ far'[q] = far[q]
        OBVIOUS
      <4>1. q \in Pid /\ q \notin first..last
        BY <1>1
      <4> QED
        BY <4>1
    <3>3. live \subseteq live'
      OBVIOUS
    <3> QED
      BY <3>1, <3>2, <3>3 DEF LinksMutual
  <2> QED
    BY <2>1, <2>2
<1>7. EachInOneMap'
  BY <1>1 DEF EachInOneMap
<1> QED
  BY <1>3, <1>4, <1>5, <1>6, <1>7

\* Enqueueing members of the maps moves them from one map to the other.
LEMMA EnqueueProperties ==
  ASSUME StackInv, NEW ps \in SUBSET live, Enqueue(ps)
  PROVE  /\ active' \subseteq Pid /\ dead' \subseteq Pid /\ dead \subseteq dead'
         /\ active' \cup dead' = live /\ active' \cap dead' = {}
         /\ active' \subseteq active
BY DEF StackInv, TypeOK, EachInOneMap, Enqueue

\* A new protocol q is not linked to anything yet.
LEMMA NewProtocol ==
  ASSUME StackInv, lastId < MaxProtocols
  PROVE  /\ lastId + 1 \in Pid /\ lastId + 1 \notin live \cup handlers
         /\ lastId + 1 \notin carried \cup bound \cup deadHandlers
         /\ far[lastId + 1] = None /\ near[lastId + 1] = None
         /\ \A p \in Pid : far[p] # lastId + 1 /\ near[p] # lastId + 1
<1> USE PidFacts, StackAssumption DEF StackInv
<1>1. lastId + 1 \in Pid /\ lastId + 1 > lastId
  BY DEF TypeOK, Pid
<1>2. lastId + 1 \notin live \cup handlers
  BY <1>1 DEF Fresh
<1>3. lastId + 1 \notin carried \cup bound \cup deadHandlers
  BY <1>2 DEF CarriersMutual
<1>4. far[lastId + 1] = None /\ near[lastId + 1] = None
  BY <1>1, <1>2 DEF LinksMutual
<1>5. \A p \in Pid : far[p] # lastId + 1 /\ near[p] # lastId + 1
  BY <1>1, <1>2 DEF LinksMutual
<1> QED
  BY <1>1, <1>2, <1>3, <1>4, <1>5

\* Outside shutdown and outside the cleanup of protocols the last two parts of
\* the invariant hold trivially.
LEMMA InEvents ==
  ASSUME phase' = "events"
  PROVE  HandlersFirst' /\ GoingDown'
BY DEF HandlersFirst, GoingDown

-----------------------------------------------------------------------------
(***************************************************************************)
(* The actions, one lemma for each group                                   *)
(***************************************************************************)
LEMMA CreateStackInv ==
  ASSUME StackInv, NEW n \in 1..MaxChain, CreateStack(n)
  PROVE  StackInv'
<1> USE PidFacts, StackAssumption DEF CreateStack
<1> DEFINE first == lastId + 1
           last == lastId + n
<1>1. lastId \in Nat /\ first \in Nat /\ last \in Nat /\ first > lastId /\ last <= MaxProtocols
      /\ first <= last /\ first \in Pid /\ n \in Nat
  BY DEF StackInv, TypeOK, Pid
<1>2. /\ far' \in [Pid -> Pid \cup {None}] /\ near' \in [Pid -> Pid \cup {None}]
      /\ live' \subseteq Pid /\ active' \subseteq Pid /\ dead' \subseteq Pid
      /\ LinksMutual' /\ EachInOneMap'
  <2>1. {} \in SUBSET (first..last) /\ Chain(first, last, {})
    OBVIOUS
  <2> HIDE DEF first, last, CreateStack
  <2> QED
    BY <1>1, <2>1, ChainProperties
<1>3. TypeOK'
  BY <1>1, <1>2 DEF StackInv, TypeOK, Carry
<1>4. CarriersMutual'
  <2>1. first \in live'
    BY <1>1 DEF Chain
  <2> QED
    BY <2>1 DEF StackInv, CarriersMutual, Carry, Chain
<1>5. NoHeadless'
  <2> SUFFICES ASSUME NEW p \in live', far'[p] = None, p \notin carried'
               PROVE  p \in dead'
    BY DEF NoHeadless
  <2>1. CASE p \in first..last
    <3>1. p \in Pid /\ p # first
      BY <2>1, <1>2 DEF Carry
    <3>2. far'[p] = p - 1 /\ p - 1 # None
      BY <2>1, <3>1, <1>1 DEF Chain, None
    <3> QED
      BY <3>2
  <2>2. CASE p \notin first..last
    <3>1. p \in live /\ p \in Pid /\ far'[p] = far[p] /\ p \notin carried
      BY <2>2, <1>1, <1>2 DEF Chain, Carry
    <3> QED
      BY <3>1 DEF StackInv, NoHeadless, Chain
  <2> QED
    BY <2>1, <2>2
<1>6. InputHasReceiver'
  <2> SUFFICES ASSUME NEW p \in carried' \ timers'
               PROVE  near'[p] # None \/ p \in dead'
    BY DEF InputHasReceiver
  <2>1. CASE p = first
    <3>1. n > 1 /\ p \in first..(last - 1)
      BY <2>1, <1>1
    <3> QED
      BY <2>1, <3>1, <1>1 DEF Chain, None
  <2>2. CASE p # first
    <3>1. p \in carried \ timers /\ p \in Pid /\ p \in live
      BY <2>2, <1>1 DEF Carry, StackInv, TypeOK, CarriersMutual
    <3>2. p \notin first..last
      BY <3>1, <1>1 DEF StackInv, Fresh
    <3>3. near'[p] = near[p]
      BY <3>1, <3>2, <1>1 DEF Chain
    <3> QED
      BY <3>1, <3>3 DEF StackInv, InputHasReceiver, Chain
  <2> QED
    BY <2>1, <2>2
<1>7. Fresh'
  <2>1. \A p \in Pid : p > last => p \notin live \cup handlers /\ p \notin first..last
    BY <1>1 DEF StackInv, Fresh
  <2> QED
    BY <2>1, <1>1 DEF Fresh, Chain, Carry
<1> QED
  BY <1>2, <1>3, <1>4, <1>5, <1>6, <1>7, InEvents DEF StackInv

LEMMA OpenSocketInv ==
  ASSUME StackInv, OpenSocket
  PROVE  StackInv'
<1> USE PidFacts, StackAssumption, NewProtocol DEF OpenSocket
<1>1. TypeOK'
  BY DEF StackInv, TypeOK
<1>2. LinksMutual' /\ EachInOneMap'
  BY DEF StackInv, LinksMutual, EachInOneMap
<1>3. CarriersMutual'
  BY DEF StackInv, CarriersMutual
<1>4. NoHeadless' /\ InputHasReceiver'
  BY DEF StackInv, NoHeadless, InputHasReceiver
<1>5. Fresh'
  BY DEF StackInv, TypeOK, Fresh
<1> QED
  BY <1>1, <1>2, <1>3, <1>4, <1>5, InEvents DEF StackInv

LEMMA CreateStackFailsInv ==
  ASSUME StackInv, NEW n \in 1..MaxChain, CreateStackFails(n)
  PROVE  StackInv'
<1> USE PidFacts, StackAssumption DEF CreateStackFails, handlerVars
<1> DEFINE first == lastId + 2
           last == lastId + n
<1>1. lastId \in Nat /\ first \in Nat /\ last \in Nat /\ first > lastId /\ last <= MaxProtocols
      /\ first <= last /\ first \in Pid /\ n \in Nat
  BY DEF StackInv, TypeOK, Pid
<1>2. /\ far' \in [Pid -> Pid \cup {None}] /\ near' \in [Pid -> Pid \cup {None}]
      /\ live' \subseteq Pid /\ active' \subseteq Pid /\ dead' \subseteq Pid
      /\ LinksMutual' /\ EachInOneMap'
  <2>1. {first} \in SUBSET (first..last) /\ Chain(first, last, {first})
    BY <1>1
  <2> HIDE DEF first, last, CreateStackFails
  <2> QED
    BY <1>1, <2>1, ChainProperties
<1>3. TypeOK'
  BY <1>1, <1>2 DEF StackInv, TypeOK
<1>4. CarriersMutual'
  BY DEF StackInv, CarriersMutual, Chain
<1>5. NoHeadless'
  <2> SUFFICES ASSUME NEW p \in live', far'[p] = None, p \notin carried'
               PROVE  p \in dead'
    BY DEF NoHeadless
  <2>1. CASE p = first
    BY <2>1 DEF Chain
  <2>2. CASE p # first /\ p \in first..last
    <3>1. p \in Pid /\ far'[p] = p - 1 /\ p - 1 # None
      BY <2>2, <1>1, <1>2 DEF Chain, None
    <3> QED
      BY <3>1
  <2>3. CASE p \notin first..last
    <3>1. p \in live /\ p \in Pid /\ far'[p] = far[p]
      BY <2>3, <1>1, <1>2 DEF Chain
    <3> QED
      BY <3>1 DEF StackInv, NoHeadless, Chain
  <2> QED
    BY <2>1, <2>2, <2>3
<1>6. InputHasReceiver'
  <2> SUFFICES ASSUME NEW p \in carried \ timers
               PROVE  near'[p] # None \/ p \in dead'
    BY DEF InputHasReceiver
  <2>1. p \in Pid /\ p \notin first..last
    BY <1>1 DEF StackInv, TypeOK, CarriersMutual, Fresh
  <2>2. near'[p] = near[p]
    BY <2>1, <1>1 DEF Chain
  <2> QED
    BY <2>2 DEF StackInv, InputHasReceiver, Chain
<1>7. Fresh'
  <2>1. \A p \in Pid : p > last => p \notin live \cup handlers /\ p \notin first..last
    BY <1>1 DEF StackInv, Fresh
  <2> QED
    BY <2>1, <1>1 DEF Fresh, Chain
<1> QED
  BY <1>2, <1>3, <1>4, <1>5, <1>6, <1>7, InEvents DEF StackInv

LEMMA ConnectorFailsInv ==
  ASSUME StackInv, NEW n \in 1..MaxChain, ConnectorFails(n)
  PROVE  StackInv'
<1> USE PidFacts, StackAssumption DEF ConnectorFails, Orphan
<1> DEFINE first == lastId + 1
           last == lastId + n - 1
<1>1. lastId \in Nat /\ first \in Nat /\ last \in Nat /\ first > lastId /\ last <= MaxProtocols
      /\ first <= last /\ first \in Pid /\ n \in Nat
  BY DEF StackInv, TypeOK, Pid
<1>2. /\ far' \in [Pid -> Pid \cup {None}] /\ near' \in [Pid -> Pid \cup {None}]
      /\ live' \subseteq Pid /\ active' \subseteq Pid /\ dead' \subseteq Pid
      /\ LinksMutual' /\ EachInOneMap'
  <2>1. {last} \in SUBSET (first..last) /\ Chain(first, last, {last})
    BY <1>1
  <2> HIDE DEF first, last, ConnectorFails
  <2> QED
    BY <1>1, <2>1, ChainProperties
<1>3. TypeOK'
  BY <1>1, <1>2 DEF StackInv, TypeOK, Carry
<1>4. CarriersMutual'
  <2>1. first \in live'
    BY <1>1 DEF Chain
  <2> QED
    BY <2>1 DEF StackInv, CarriersMutual, Carry, Chain
<1>5. NoHeadless'
  <2> SUFFICES ASSUME NEW p \in live', far'[p] = None, p \notin carried'
               PROVE  p \in dead'
    BY DEF NoHeadless
  <2>1. CASE p \in first..last
    <3>1. p \in Pid /\ p # first
      BY <2>1, <1>2 DEF Carry
    <3>2. far'[p] = p - 1 /\ p - 1 # None
      BY <2>1, <3>1, <1>1 DEF Chain, None
    <3> QED
      BY <3>2
  <2>2. CASE p \notin first..last
    <3>1. p \in live /\ p \in Pid /\ far'[p] = far[p] /\ p \notin carried
      BY <2>2, <1>1, <1>2 DEF Chain, Carry
    <3> QED
      BY <3>1 DEF StackInv, NoHeadless, Chain
  <2> QED
    BY <2>1, <2>2
<1>6. InputHasReceiver'
  <2> SUFFICES ASSUME NEW p \in carried' \ timers'
               PROVE  near'[p] # None \/ p \in dead'
    BY DEF InputHasReceiver
  <2>1. CASE p = first /\ first = last
    BY <2>1 DEF Chain
  <2>2. CASE p = first /\ first # last
    BY <2>2, <1>1 DEF Chain, None
  <2>3. CASE p # first
    <3>1. p \in carried \ timers /\ p \in Pid /\ p \in live
      BY <2>3, <1>1 DEF Carry, StackInv, TypeOK, CarriersMutual
    <3>2. p \notin first..last
      BY <3>1, <1>1 DEF StackInv, Fresh
    <3>3. near'[p] = near[p]
      BY <3>1, <3>2, <1>1 DEF Chain
    <3> QED
      BY <3>1, <3>3 DEF StackInv, InputHasReceiver, Chain
  <2> QED
    BY <2>1, <2>2, <2>3
<1>7. Fresh'
  <2>1. \A p \in Pid : p > lastId + n => p \notin live \cup handlers /\ p \notin first..last
    BY <1>1 DEF StackInv, Fresh
  <2> QED
    BY <2>1, <1>1 DEF Fresh, Chain, Carry
<1> QED
  BY <1>2, <1>3, <1>4, <1>5, <1>6, <1>7, InEvents DEF StackInv

LEMMA AddNearInv ==
  ASSUME StackInv, NEW p \in Pid, AddNear(p)
  PROVE  StackInv'
<1> USE PidFacts, StackAssumption DEF AddNear, handlerVars
<1> DEFINE q == lastId + 1
<1>0. lastId < MaxProtocols /\ p \in live /\ p # q
  BY NewProtocol DEF StackInv, TypeOK, EachInOneMap
<1>1. TypeOK'
  BY <1>0, NewProtocol DEF StackInv, TypeOK
<1>2. LinksMutual'
  BY <1>0, NewProtocol DEF StackInv, TypeOK, LinksMutual
<1>3. EachInOneMap' /\ CarriersMutual'
  BY <1>0, NewProtocol DEF StackInv, EachInOneMap, CarriersMutual
<1>4. NoHeadless'
  BY <1>0, NewProtocol DEF StackInv, TypeOK, NoHeadless
<1>5. InputHasReceiver'
  BY <1>0, NewProtocol DEF StackInv, TypeOK, InputHasReceiver
<1>6. Fresh'
  BY <1>0, NewProtocol DEF StackInv, TypeOK, Fresh
<1> QED
  BY <1>1, <1>2, <1>3, <1>4, <1>5, <1>6, InEvents DEF StackInv

LEMMA RebindInv ==
  ASSUME StackInv, NEW p \in Pid, Rebind(p)
  PROVE  StackInv'
<1> USE PidFacts, StackAssumption DEF Rebind, FarOfReplaced, handlerVars
<1> DEFINE q == lastId + 1
           f == far[p]
<1>0. /\ lastId < MaxProtocols /\ p \in live /\ p # q
      /\ f \in live /\ f \in Pid /\ f # q /\ f # p /\ near[f] = p /\ p \notin dead
  BY NewProtocol DEF StackInv, TypeOK, EachInOneMap, LinksMutual
<1>1. TypeOK'
  BY <1>0, NewProtocol DEF StackInv, TypeOK
<1>2. LinksMutual'
  <2> SUFFICES ASSUME NEW r \in Pid
               PROVE  /\ far'[r] # None => r \in live' /\ far'[r] \in live' /\ near'[far'[r]] = r
                      /\ near'[r] # None => r \in live' /\ near'[r] \in live' /\ far'[near'[r]] = r
    BY DEF LinksMutual
  <2>1. q \in Pid /\ live' = live \cup {q} /\ q \notin live
    BY <1>0, NewProtocol
  <2>2. /\ far'[q] = f /\ far'[p] = None /\ near'[f] = q /\ near'[q] = None /\ near'[p] = None
        /\ \A x \in Pid \ {q, p} : far'[x] = far[x]
        /\ \A x \in Pid \ {f} : near'[x] = near[x]
    BY <1>0, <2>1, NewProtocol DEF StackInv, TypeOK
  <2>3. CASE r \in {p, q}
    BY <1>0, <2>1, <2>2, <2>3
  <2>4. CASE r \notin {p, q}
    <3>1. far[r] # None => far[r] \in live /\ r \in live /\ near[far[r]] = r
      BY DEF StackInv, LinksMutual
    <3>2. near[r] # None => near[r] \in live /\ r \in live /\ far[near[r]] = r
      BY DEF StackInv, LinksMutual
    <3>3. live \subseteq Pid
      BY DEF StackInv, TypeOK
    <3>4. far'[r] # None => far'[r] \in live' /\ r \in live' /\ near'[far'[r]] = r
      BY <1>0, <2>1, <2>2, <2>4, <3>1, <3>3
    <3>5. near'[r] # None => near'[r] \in live' /\ r \in live' /\ far'[near'[r]] = r
      BY <1>0, <2>1, <2>2, <2>4, <3>2, <3>3
    <3> QED
      BY <3>4, <3>5
  <2> QED
    BY <2>3, <2>4
<1>3. EachInOneMap' /\ CarriersMutual'
  BY <1>0, NewProtocol DEF StackInv, EachInOneMap, CarriersMutual
<1>4. NoHeadless'
  BY <1>0, NewProtocol DEF StackInv, TypeOK, NoHeadless
<1>5. InputHasReceiver'
  BY <1>0, NewProtocol DEF StackInv, TypeOK, InputHasReceiver
<1>6. Fresh'
  BY <1>0, NewProtocol DEF StackInv, TypeOK, Fresh
<1> QED
  BY <1>1, <1>2, <1>3, <1>4, <1>5, <1>6, InEvents DEF StackInv

LEMMA InsertFarInv ==
  ASSUME StackInv, NEW p \in Pid, InsertFar(p)
  PROVE  StackInv'
<1> USE PidFacts, StackAssumption DEF InsertFar, handlerVars
<1> DEFINE q == lastId + 1
           f == far[p]
<1>0. /\ lastId < MaxProtocols /\ p \in live /\ p # q
      /\ f \in live /\ f \in Pid /\ f # q /\ near[f] = p
  BY NewProtocol DEF StackInv, TypeOK, EachInOneMap, LinksMutual
<1>1. TypeOK'
  BY <1>0, NewProtocol DEF StackInv, TypeOK
<1>2. LinksMutual'
  <2> SUFFICES ASSUME NEW r \in Pid
               PROVE  /\ far'[r] # None => r \in live' /\ far'[r] \in live' /\ near'[far'[r]] = r
                      /\ near'[r] # None => r \in live' /\ near'[r] \in live' /\ far'[near'[r]] = r
    BY DEF LinksMutual
  <2>1. q \in Pid /\ live' = live \cup {q} /\ q \notin live
    BY <1>0, NewProtocol
  <2>2. /\ far'[q] = f /\ far'[p] = q /\ near'[f] = q /\ near'[q] = p
        /\ \A x \in Pid \ {q, p} : far'[x] = far[x]
        /\ \A x \in Pid \ {f, q} : near'[x] = near[x]
    BY <1>0, <2>1, NewProtocol DEF StackInv, TypeOK
  <2>3. \A x \in live : near[x] = p => x = f
    BY <1>0 DEF StackInv, TypeOK, LinksMutual
  <2>4. far[r] # None => far[r] \in live /\ r \in live /\ near[far[r]] = r
    BY DEF StackInv, LinksMutual
  <2>5. near[r] # None => near[r] \in live /\ r \in live /\ far[near[r]] = r
    BY DEF StackInv, LinksMutual
  <2>6. live \subseteq Pid
    BY DEF StackInv, TypeOK
  <2>7. far'[r] # None => far'[r] \in live' /\ r \in live' /\ near'[far'[r]] = r
    <3>1. CASE r \in {q, p}
      BY <1>0, <2>1, <2>2, <2>6, <3>1
    <3>2. CASE r \notin {q, p}
      BY <1>0, <2>1, <2>2, <2>4, <2>6, <3>2
    <3> QED
      BY <3>1, <3>2
  <2>8. near'[r] # None => near'[r] \in live' /\ r \in live' /\ far'[near'[r]] = r
    BY <1>0, <2>1, <2>2, <2>3, <2>5, <2>6
  <2> QED
    BY <2>7, <2>8
<1>3. EachInOneMap' /\ CarriersMutual'
  BY <1>0, NewProtocol DEF StackInv, EachInOneMap, CarriersMutual
<1>4. NoHeadless'
  BY <1>0, NewProtocol DEF StackInv, TypeOK, NoHeadless
<1>5. InputHasReceiver'
  BY <1>0, NewProtocol DEF StackInv, TypeOK, InputHasReceiver
<1>6. Fresh'
  BY <1>0, NewProtocol DEF StackInv, TypeOK, Fresh
<1> QED
  BY <1>1, <1>2, <1>3, <1>4, <1>5, <1>6, InEvents DEF StackInv

\* Steps that only enqueue protocols for delete.
LEMMA OnlyEnqueued ==
  ASSUME StackInv, NEW ps \in SUBSET live, Enqueue(ps), phase \in {"events", "protocols"},
         graceful' \subseteq Pid, lastId' \in Nat, lastId <= lastId', lastId' <= MaxProtocols,
         UNCHANGED <<live, far, near, timers, handlerVars, phase>>
  PROVE  StackInv'
<1> USE EnqueueProperties DEF handlerVars
<1>1. TypeOK'
  BY DEF StackInv, TypeOK
<1>2. LinksMutual' /\ EachInOneMap' /\ CarriersMutual'
  BY DEF StackInv, LinksMutual, EachInOneMap, CarriersMutual
<1>3. NoHeadless' /\ InputHasReceiver'
  BY DEF StackInv, NoHeadless, InputHasReceiver
<1>4. Fresh'
  BY PidFacts DEF StackInv, TypeOK, Fresh
<1>5. HandlersFirst' /\ GoingDown'
  BY DEF StackInv, HandlersFirst, GoingDown
<1> QED
  BY <1>1, <1>2, <1>3, <1>4, <1>5 DEF StackInv

LEMMA EnqueueStepsInv ==
  ASSUME StackInv, NEW p \in Pid,
         EnqueueForDelete(p) \/ GracefullyEnqueueForDelete(p) \/ OutputSent(p) \/ AddNearFails(p)
  PROVE  StackInv'
<1> USE PidFacts, StackAssumption
<1>0. /\ live \subseteq Pid /\ graceful \subseteq Pid /\ lastId \in Nat /\ lastId <= MaxProtocols
      /\ bound \subseteq live /\ active \subseteq live /\ Stack(p) \subseteq live
  BY DEF StackInv, TypeOK, CarriersMutual, EachInOneMap, Stack
<1>1. CASE EnqueueForDelete(p)
  <2>1. {p} \in SUBSET live
    BY <1>1 DEF EnqueueForDelete
  <2> QED
    BY <1>0, <1>1, <2>1, OnlyEnqueued DEF EnqueueForDelete
<1>2. CASE OutputSent(p)
  <2>1. {p} \in SUBSET live
    BY <1>0, <1>2 DEF OutputSent
  <2> QED
    BY <1>0, <1>2, <2>1, OnlyEnqueued DEF OutputSent
<1>3. CASE AddNearFails(p)
  <2>1. {p} \in SUBSET live /\ Enqueue({p}) /\ phase \in {"events", "protocols"}
    BY <1>0, <1>3 DEF AddNearFails, Enqueue
  <2> QED
    BY <1>0, <1>3, <2>1, OnlyEnqueued DEF AddNearFails
<1>4. CASE GracefullyEnqueueForDelete(p)
  <2>1. \E ps \in SUBSET live : Enqueue(ps)
    <3>1. CASE UNCHANGED <<active, dead>>
      <4>1. {} \in SUBSET live /\ Enqueue({})
        BY <3>1 DEF Enqueue
      <4> QED
        BY <4>1
    <3>2. CASE Enqueue({q \in Stack(p) : near[q] = None})
      BY <1>0, <3>2
    <3> QED
      BY <1>4, <3>1, <3>2 DEF GracefullyEnqueueForDelete
  <2>2. graceful' \subseteq Pid /\ phase \in {"events", "protocols"}
    BY <1>0, <1>4 DEF GracefullyEnqueueForDelete
  <2>3. lastId' = lastId /\ UNCHANGED <<live, far, near, timers, handlerVars, phase>>
    BY <1>4 DEF GracefullyEnqueueForDelete
  <2> QED
    BY <1>0, <2>1, <2>2, <2>3, OnlyEnqueued
<1> QED
  BY <1>1, <1>2, <1>3, <1>4

LEMMA HandlerFailsInv ==
  ASSUME StackInv, NEW h \in Pid, HandlerFails(h)
  PROVE  StackInv'
<1> USE DEF HandlerFails, protocolVars
<1>1. TypeOK' /\ CarriersMutual'
  BY DEF StackInv, TypeOK, CarriersMutual
<1>2. LinksMutual' /\ EachInOneMap' /\ NoHeadless' /\ InputHasReceiver' /\ Fresh'
  BY DEF StackInv, LinksMutual, EachInOneMap, NoHeadless, InputHasReceiver, Fresh
<1> QED
  BY <1>1, <1>2, InEvents DEF StackInv

\* The steps of the loop that delete nothing.
LEMMA PhasesInv ==
  ASSUME StackInv, PulseReturns \/ DeadHandlersDone \/ CleanupDone
  PROVE  StackInv'
<1> USE DEF protocolVars, handlerVars, PulseReturns, DeadHandlersDone, CleanupDone, ToClose,
            AfterEvents
<1>1. UNCHANGED protocolVars /\ UNCHANGED <<carried, handlers, bound>>
  OBVIOUS
<1>2. phase' \in Phases
  BY DEF Phases
<1>3. deadHandlers' = deadHandlers \/ deadHandlers' = deadHandlers \cup handlers
  OBVIOUS
<1>4. TypeOK' /\ CarriersMutual'
  BY <1>1, <1>2, <1>3 DEF StackInv, TypeOK, CarriersMutual
<1>5. LinksMutual' /\ EachInOneMap' /\ NoHeadless' /\ InputHasReceiver' /\ Fresh'
  BY <1>1 DEF StackInv, LinksMutual, EachInOneMap, NoHeadless, InputHasReceiver, Fresh
<1>6. HandlersFirst'
  BY DEF StackInv, HandlersFirst
<1>7. GoingDown'
  <2>1. CASE PulseReturns
    BY <2>1 DEF GoingDown
  <2>2. CASE DeadHandlersDone
    BY <2>2 DEF StackInv, GoingDown
  <2>3. CASE CleanupDone
    <3>1. phase = "last protocols" => active' = {} /\ live' = {} /\ deadHandlers' = handlers'
      BY <2>3 DEF StackInv, GoingDown, EachInOneMap, CarriersMutual
    <3> QED
      BY <2>3, <3>1 DEF GoingDown
  <2> QED
    BY <2>1, <2>2, <2>3
<1> QED
  BY <1>4, <1>5, <1>6, <1>7 DEF StackInv

LEMMA DeleteDeadHandlerInv ==
  ASSUME StackInv, NEW h \in Pid, DeleteDeadHandler(h)
  PROVE  StackInv'
<1> USE DEF DeleteDeadHandler, Uncarried
<1>0. {h} \cap bound \in SUBSET live /\ Enqueue({h} \cap bound)
  BY DEF StackInv, CarriersMutual
<1> USE <1>0, EnqueueProperties
<1>1. TypeOK'
  BY DEF StackInv, TypeOK
<1>2. LinksMutual' /\ EachInOneMap' /\ Fresh'
  BY DEF StackInv, LinksMutual, EachInOneMap, Fresh
<1>3. CarriersMutual'
  BY DEF StackInv, CarriersMutual
<1>4. NoHeadless'
  BY DEF StackInv, NoHeadless, CarriersMutual, Enqueue
<1>5. InputHasReceiver'
  BY DEF StackInv, InputHasReceiver
<1>6. HandlersFirst' /\ GoingDown'
  BY DEF StackInv, HandlersFirst, GoingDown
<1> QED
  BY <1>1, <1>2, <1>3, <1>4, <1>5, <1>6 DEF StackInv

LEMMA CleanupDeadProtocolInv ==
  ASSUME StackInv, NEW p \in Pid, CleanupDeadProtocol(p)
  PROVE  StackInv'
<1> USE PidFacts DEF CleanupDeadProtocol, Unlinked, Neighbours
<1>0. /\ p \in live /\ live \subseteq Pid /\ deadHandlers = {}
      /\ far[p] # None => far[p] \in live
      /\ near[p] # None => near[p] \in live
  <2>1. p \in live /\ live \subseteq Pid
    BY DEF StackInv, TypeOK, EachInOneMap
  <2>2. deadHandlers = {}
    BY DEF StackInv, HandlersFirst
  <2>3. (far[p] # None => far[p] \in live) /\ (near[p] # None => near[p] \in live)
    BY DEF StackInv, LinksMutual
  <2> QED
    BY <2>1, <2>2, <2>3
<1>1. TypeOK'
  <2>1. far' \in [Pid -> Pid \cup {None}] /\ near' \in [Pid -> Pid \cup {None}]
    BY DEF StackInv, TypeOK
  <2>2. /\ live' \subseteq Pid /\ active' \subseteq Pid /\ dead' \subseteq Pid
        /\ graceful' \subseteq Pid /\ timers' \subseteq Pid
    BY <1>0 DEF StackInv, TypeOK
  <2>3. /\ carried' \subseteq Pid /\ handlers' \subseteq Pid /\ bound' \subseteq Pid
        /\ deadHandlers' \subseteq Pid
        /\ lastId' \in Nat /\ lastId' <= MaxProtocols /\ phase' \in Phases
    BY <1>0 DEF StackInv, TypeOK
  <2> QED
    BY <2>1, <2>2, <2>3 DEF TypeOK
<1>2. LinksMutual'
  <2> SUFFICES ASSUME NEW r \in Pid
               PROVE  /\ far'[r] # None => r \in live' /\ far'[r] \in live' /\ near'[far'[r]] = r
                      /\ near'[r] # None => r \in live' /\ near'[r] \in live' /\ far'[near'[r]] = r
    BY DEF LinksMutual
  <2>1. far'[r] # None => r \in live' /\ far'[r] \in live' /\ near'[far'[r]] = r
    BY <1>0 DEF StackInv, LinksMutual
  <2>2. near'[r] # None => r \in live' /\ near'[r] \in live' /\ far'[near'[r]] = r
    BY <1>0 DEF StackInv, LinksMutual
  <2> QED
    BY <2>1, <2>2
<1>3. EachInOneMap'
  BY <1>0 DEF StackInv, EachInOneMap
<1>4. CarriersMutual'
  BY <1>0 DEF StackInv, CarriersMutual
<1>5. NoHeadless'
  <2> SUFFICES ASSUME NEW r \in live', far'[r] = None, r \notin carried'
               PROVE  r \in dead'
    BY DEF NoHeadless
  <2>1. r \in live /\ r # p /\ r \in Pid /\ r \notin carried
    BY <1>0
  <2>2. CASE far[r] = p
    BY <2>1, <2>2 DEF StackInv, LinksMutual
  <2>3. CASE far[r] # p
    BY <2>1, <2>3 DEF StackInv, NoHeadless
  <2> QED
    BY <2>2, <2>3
<1>6. InputHasReceiver'
  <2> SUFFICES ASSUME NEW r \in carried' \ timers', near'[r] = None
               PROVE  r \in dead'
    BY DEF InputHasReceiver
  <2>1. r \in carried \ timers /\ r # p /\ r \in Pid
    BY DEF StackInv, TypeOK
  <2>2. CASE near[r] = p
    BY <2>1, <2>2 DEF StackInv, LinksMutual
  <2>3. CASE near[r] # p
    BY <2>1, <2>3 DEF StackInv, InputHasReceiver
  <2> QED
    BY <2>2, <2>3
<1>7. Fresh' /\ HandlersFirst'
  BY DEF StackInv, Fresh, HandlersFirst
<1>8. GoingDown'
  BY DEF StackInv, GoingDown
<1> QED
  BY <1>1, <1>2, <1>3, <1>4, <1>5, <1>6, <1>7, <1>8 DEF StackInv

LEMMA ShutdownInv ==
  ASSUME StackInv, Shutdown
  PROVE  StackInv'
<1> USE DEF Shutdown, handlerVars
<1>0. active \in SUBSET live /\ Enqueue(active) /\ active' = {}
  BY DEF StackInv, EachInOneMap, Enqueue
<1> USE <1>0, EnqueueProperties
<1>1. TypeOK'
  BY DEF StackInv, TypeOK, Phases
<1>2. LinksMutual' /\ EachInOneMap' /\ CarriersMutual'
  BY DEF StackInv, LinksMutual, EachInOneMap, CarriersMutual
<1>3. NoHeadless' /\ InputHasReceiver' /\ Fresh'
  BY DEF StackInv, NoHeadless, InputHasReceiver, Fresh
<1>4. HandlersFirst' /\ GoingDown'
  BY DEF StackInv, HandlersFirst, GoingDown
<1> QED
  BY <1>1, <1>2, <1>3, <1>4 DEF StackInv

\* Every step preserves the invariant.
LEMMA StepInv == StackInv /\ [StackNext]_stackVars => StackInv'
<1> SUFFICES ASSUME StackInv, [StackNext]_stackVars
             PROVE  StackInv'
  OBVIOUS
<1>1. CASE Events
  BY <1>1, OpenSocketInv, CreateStackInv, CreateStackFailsInv, ConnectorFailsInv, AddNearInv,
     RebindInv, InsertFarInv, EnqueueStepsInv, HandlerFailsInv DEF Events
<1>2. CASE Loop
  BY <1>2, PhasesInv, DeleteDeadHandlerInv, CleanupDeadProtocolInv DEF Loop
<1>3. CASE Shutdown
  BY <1>3, ShutdownInv
<1>4. CASE UNCHANGED stackVars
  BY <1>4 DEF stackVars, protocolVars, handlerVars, StackInv, TypeOK, LinksMutual,
     EachInOneMap, CarriersMutual, NoHeadless, InputHasReceiver, Fresh, HandlersFirst, GoingDown
<1> QED
  BY <1>1, <1>2, <1>3, <1>4 DEF StackNext

-----------------------------------------------------------------------------
(***************************************************************************)
(* Theorems                                                                *)
(***************************************************************************)

\* The invariant holds in every behaviour of the protocol stacks.
THEOREM StackInvariant == StackSpec => []StackInv
BY InitInv, StepInv, PTL DEF StackSpec

\* Every variable keeps its type, for every number of protocols.
THEOREM StackTyped == StackSpec => []TypeOK
<1>1. StackInv => TypeOK
  BY DEF StackInv
<1> QED
  BY <1>1, StackInvariant, PTL

\* Links between protocols, and between protocols and carriers, are mutual and
\* never dangle, and ProtocolManager's maps hold exactly the existing protocols.
THEOREM NoDanglingPointers == StackSpec => []NoDangling
<1>1. StackInv => NoDangling
  BY DEF StackInv, NoDangling
<1> QED
  BY <1>1, StackInvariant, PTL

\* A stack without carrier and a socket without receiver are on their way out.
THEOREM NoHalfStacks == StackSpec => []WholeStacksOnly
<1>1. StackInv => WholeStacksOnly
  BY DEF StackInv, WholeStacksOnly
<1> QED
  BY <1>1, StackInvariant, PTL

\* After shutdown no protocol and no handler is left.
THEOREM ShutdownComplete == StackSpec => []NothingLeft
<1>1. StackInv => NothingLeft
  BY DEF StackInv, GoingDown, NothingLeft
<1> QED
  BY <1>1, StackInvariant, PTL
=============================================================================
