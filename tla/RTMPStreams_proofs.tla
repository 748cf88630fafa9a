------------------------- MODULE RTMPStreams_proofs -------------------------
(***************************************************************************)
(* Proofs about the streams of the RTMP connections, for any number of     *)
(* connections, streams, names and channels: links are exact, no file is   *)
(* read for nobody, a player waits in vain in one case only, and channels  *)
(* come back.                                                              *)
(***************************************************************************)
EXTENDS RTMPStreams, FiniteSetTheorems, WellFoundedInduction, TLAPS

-----------------------------------------------------------------------------
(***************************************************************************)
(* Streams are told apart by their places.                                 *)
(***************************************************************************)
LEMMA Places ==
  \A c, d \in Conns, s, r \in Ids :
    /\ InNet(c, s) \in InStreams /\ InFile(c, s) \in InStreams /\ Mux \in InStreams
    /\ OutNet(c, s) \in OutStreams /\ OutFile(c, s) \in OutStreams
    /\ InNet(c, s) # InFile(d, r) /\ Mux # InNet(c, s) /\ Mux # InFile(c, s)
    /\ OutNet(c, s) # OutFile(d, r)
    /\ InNet(c, s) = InNet(d, r) <=> c = d /\ s = r
    /\ InFile(c, s) = InFile(d, r) <=> c = d /\ s = r
    /\ OutNet(c, s) = OutNet(d, r) <=> c = d /\ s = r
    /\ OutFile(c, s) = OutFile(d, r) <=> c = d /\ s = r
    /\ NoStream # InNet(c, s) /\ NoStream # InFile(c, s) /\ NoStream # Mux
<1> SUFFICES ASSUME NEW c \in Conns, NEW s \in Ids, NEW d \in Conns, NEW r \in Ids
             PROVE  /\ InNet(c, s) \in InStreams /\ InFile(c, s) \in InStreams /\ Mux \in InStreams
                    /\ OutNet(c, s) \in OutStreams /\ OutFile(c, s) \in OutStreams
                    /\ InNet(c, s) # InFile(d, r) /\ Mux # InNet(c, s) /\ Mux # InFile(c, s)
                    /\ OutNet(c, s) # OutFile(d, r)
                    /\ InNet(c, s) = InNet(d, r) <=> c = d /\ s = r
                    /\ InFile(c, s) = InFile(d, r) <=> c = d /\ s = r
                    /\ OutNet(c, s) = OutNet(d, r) <=> c = d /\ s = r
                    /\ OutFile(c, s) = OutFile(d, r) <=> c = d /\ s = r
                    /\ NoStream # InNet(c, s) /\ NoStream # InFile(c, s) /\ NoStream # Mux
  OBVIOUS
<1> USE DEF InNet, InFile, OutNet, OutFile, Mux
<1>1. InNet(c, s) \in InStreams /\ InFile(c, s) \in InStreams /\ Mux \in InStreams
  BY DEF InStreams
<1>2. OutNet(c, s) \in OutStreams /\ OutFile(c, s) \in OutStreams
  BY DEF OutStreams
<1>3. Mux # InNet(c, s) /\ Mux # InFile(c, s)
  OBVIOUS
<1>4. InNet(c, s) # InFile(d, r) /\ OutNet(c, s) # OutFile(d, r)
  OBVIOUS
<1>5. /\ InNet(c, s) = InNet(d, r) <=> c = d /\ s = r
      /\ InFile(c, s) = InFile(d, r) <=> c = d /\ s = r
      /\ OutNet(c, s) = OutNet(d, r) <=> c = d /\ s = r
      /\ OutFile(c, s) = OutFile(d, r) <=> c = d /\ s = r
  OBVIOUS
<1>6. NoStream # InNet(c, s) /\ NoStream # InFile(c, s) /\ NoStream # Mux
  BY <1>1, NullAssumption
<1> QED
  BY <1>1, <1>2, <1>3, <1>4, <1>5, <1>6

\* Every outbound stream is a player or an FLV file.
LEMMA OutCases ==
  ASSUME NEW o \in OutStreams
  PROVE  \E c \in Conns, s \in Ids : o = OutNet(c, s) \/ o = OutFile(c, s)
BY DEF OutStreams

-----------------------------------------------------------------------------
(***************************************************************************)
(* What the operations on the table of links do, said of the feeders only: *)
(* when the table is mutual, the lists follow.                             *)
(***************************************************************************)
LEMMA LinkedExact ==
  ASSUME NEW L \in Links, Mutual(L), NEW i \in InStreams, NEW O \in SUBSET OutStreams,
         \A o \in O : L.feeder[o] = NoStream
  PROVE  /\ Linked(L, i, O) \in Links /\ Mutual(Linked(L, i, O))
         /\ \A o \in OutStreams : Linked(L, i, O).feeder[o] = IF o \in O THEN i ELSE L.feeder[o]
<1> DEFINE K == Linked(L, i, O)
<1>1. K \in Links
  BY DEF Links, Linked
<1>2. \A o \in OutStreams : K.feeder[o] = IF o \in O THEN i ELSE L.feeder[o]
  BY DEF Linked, IsLinked
<1>3. \A j \in InStreams : K.feeds[j] = IF j = i THEN L.feeds[j] \cup O ELSE L.feeds[j]
  BY DEF Linked, Links
<1>4. Mutual(K)
  <2> SUFFICES ASSUME NEW j \in InStreams, NEW o \in OutStreams
               PROVE  o \in K.feeds[j] <=> K.feeder[o] = j
    BY DEF Mutual
  <2>1. o \in L.feeds[j] <=> L.feeder[o] = j
    BY DEF Mutual
  <2>2. o \in O => L.feeder[o] = NoStream /\ NoStream # j
    BY NullAssumption
  <2> QED
    BY <1>2, <1>3, <2>1, <2>2
<1> QED
  BY <1>1, <1>2, <1>4

LEMMA DeletedExact ==
  ASSUME NEW L \in Links, Mutual(L), NEW I \in SUBSET InStreams, NEW O \in SUBSET OutStreams
  PROVE  /\ Deleted(L, I, O) \in Links /\ Mutual(Deleted(L, I, O))
         /\ \A o \in OutStreams : Deleted(L, I, O).feeder[o] =
              IF o \in O \/ L.feeder[o] \in I THEN NoStream ELSE L.feeder[o]
<1> DEFINE K == Deleted(L, I, O)
           unfed == UNION {L.feeds[i] : i \in I}
<1>1. \A o \in OutStreams : o \in unfed <=> L.feeder[o] \in I
  BY DEF Mutual, Links
<1>2. /\ K.feeder = [o \in OutStreams |-> IF o \in O \cup unfed THEN NoStream ELSE L.feeder[o]]
      /\ K.feeds = [i \in InStreams |-> IF i \in I THEN {}
                      ELSE {o \in L.feeds[i] : o \notin O \/ L.feeder[o] # i}]
      /\ K = [feeder |-> K.feeder, feeds |-> K.feeds]
  BY DEF Deleted
<1>3. \A o \in OutStreams : K.feeder[o] = IF o \in O \/ L.feeder[o] \in I THEN NoStream ELSE L.feeder[o]
  BY <1>1, <1>2
<1>4. K \in Links
  <2>1. K.feeder \in [OutStreams -> InStreams \cup {NoStream}]
    BY <1>2 DEF Links
  <2>2. K.feeds \in [InStreams -> SUBSET OutStreams]
    BY <1>2 DEF Links
  <2> QED
    BY <1>2, <2>1, <2>2 DEF Links
<1>5. Mutual(K)
  <2> SUFFICES ASSUME NEW j \in InStreams, NEW o \in OutStreams
               PROVE  o \in K.feeds[j] <=> K.feeder[o] = j
    BY DEF Mutual
  <2>1. o \in L.feeds[j] <=> L.feeder[o] = j
    BY DEF Mutual
  <2>2. o \in K.feeds[j] <=> j \notin I /\ o \in L.feeds[j] /\ (o \notin O \/ L.feeder[o] # j)
    BY <1>2
  <2>3. NoStream # j
    BY NullAssumption
  <2> QED
    BY <1>3, <2>1, <2>2, <2>3
<1> QED
  BY <1>3, <1>4, <1>5

LEMMA UnLinkedExact ==
  ASSUME NEW L \in Links, Mutual(L), NEW i \in InStreams
  PROVE  /\ UnLinked(L, i) \in Links /\ Mutual(UnLinked(L, i))
         /\ \A o \in OutStreams : UnLinked(L, i).feeder[o] =
              IF L.feeder[o] = i THEN NoStream ELSE L.feeder[o]
<1> DEFINE K == UnLinked(L, i)
<1>1. \A o \in OutStreams, j \in InStreams : o \in L.feeds[j] <=> L.feeder[o] = j
  BY DEF Mutual
<1>2. /\ K.feeder = [o \in OutStreams |-> IF o \in L.feeds[i] THEN NoStream ELSE L.feeder[o]]
      /\ K.feeds = [j \in InStreams |-> {o \in L.feeds[j] : o \notin L.feeds[i] \/ L.feeder[o] # j}]
      /\ K = [feeder |-> K.feeder, feeds |-> K.feeds]
  BY DEF UnLinked
<1>3. \A o \in OutStreams : K.feeder[o] = IF L.feeder[o] = i THEN NoStream ELSE L.feeder[o]
  BY <1>1, <1>2
<1>4. K \in Links
  <2>1. K.feeder \in [OutStreams -> InStreams \cup {NoStream}]
    BY <1>2 DEF Links
  <2>2. K.feeds \in [InStreams -> SUBSET OutStreams]
    BY <1>2 DEF Links
  <2> QED
    BY <1>2, <2>1, <2>2 DEF Links
<1>5. Mutual(K)
  <2> SUFFICES ASSUME NEW j \in InStreams, NEW o \in OutStreams
               PROVE  o \in K.feeds[j] <=> K.feeder[o] = j
    BY DEF Mutual
  <2>1. NoStream # j
    BY NullAssumption
  <2>2. o \in K.feeds[j] <=> o \in L.feeds[j] /\ (o \notin L.feeds[i] \/ L.feeder[o] # j)
    BY <1>2
  <2> QED
    BY <1>1, <1>3, <2>1, <2>2
<1> QED
  BY <1>3, <1>4, <1>5

-----------------------------------------------------------------------------
(***************************************************************************)
(* The inductive invariant, said of any tables T and links L: playing      *)
(* closes a stream and creates another one in the same step.               *)
(***************************************************************************)
Typed(T, L) == T \in [Conns -> Tables] /\ L \in Links /\ Mutual(L)

IsIn(T, d, r, n) == T[d].streams[r].kind = "in" /\ T[d].streams[r].name = n

\* A publication that the StreamsManager finds.
IsPublished(T, d, r, n) == Registered(T[d]) /\ IsIn(T, d, r, n)

\* A player's feeder exists and has the name that is played.
PlayersFed(T, L) ==
  \A c \in Conns, s \in Ids : L.feeder[OutNet(c, s)] # NoStream =>
    /\ T[c].streams[s].kind = "out"
    /\ \/ L.feeder[OutNet(c, s)] = Mux
       \/ L.feeder[OutNet(c, s)] = InFile(c, s) /\ s \in T[c].files
       \/ \E d \in Conns, r \in Ids : /\ L.feeder[OutNet(c, s)] = InNet(d, r)
                                      /\ IsIn(T, d, r, T[c].streams[s].name)

\* An FLV file is written from the publication it belongs to.
RecordsFed(T, L) ==
  \A c \in Conns, s \in Ids : L.feeder[OutFile(c, s)] # NoStream =>
    /\ L.feeder[OutFile(c, s)] = InNet(c, s)
    /\ T[c].streams[s].kind = "in" /\ s \in T[c].records

FilesPlayed(T, L) ==
  \A c \in Conns, s \in Ids :
    /\ s \in T[c].files /\ T[c].state = "open" => L.feeder[OutNet(c, s)] = InFile(c, s)
    /\ s \in T[c].signaled => s \in T[c].files /\ L.feeder[OutNet(c, s)] = InFile(c, s)

\* A name is published once by the connections that are registered.
NamesOnce(T) ==
  \A c, d \in Conns, s, r \in Ids :
    /\ Registered(T[c]) /\ T[c].streams[s].kind = "in"
    /\ IsPublished(T, d, r, T[c].streams[s].name)
    => c = d /\ s = r

\* Whoever asks for the camera gets it or a file of that name.
CameraPlayed(T, L) ==
  \A c \in Conns, s \in Ids :
    T[c].state = "open" /\ T[c].streams[s].kind = "out" /\ T[c].streams[s].name = Camera
      => L.feeder[OutNet(c, s)] = Mux \/ L.feeder[OutNet(c, s)] = InFile(c, s)

\* Only the players in V wait for a name that is published.
WaitingUnserved(T, L, V) ==
  \A c, d \in Conns, s, r \in Ids :
    /\ <<c, s>> \notin V
    /\ T[c].state = "open" /\ T[c].streams[s].kind = "out" /\ L.feeder[OutNet(c, s)] = NoStream
    => ~IsPublished(T, d, r, T[c].streams[s].name)

NoneEmpty(T) == \A c \in Conns : T[c].state = "none" => T[c] = Closed

Good(T, L, V) ==
  /\ Typed(T, L) /\ PlayersFed(T, L) /\ RecordsFed(T, L) /\ FilesPlayed(T, L)
  /\ NamesOnce(T) /\ CameraPlayed(T, L) /\ WaitingUnserved(T, L, V) /\ NoneEmpty(T)

LEMMA ClosedTyped == Closed \in Tables /\ \A s \in Ids : Closed.streams[s].kind = "none"
BY SizesAssumption DEF Closed, Tables, Entries, Empty, Kinds

LEMMA InitGood ==
  ASSUME NEW V, Init
  PROVE  Good(conn, links, V)
<1>1. \A c \in Conns : conn[c] = Closed
  BY DEF Init
<1>2. \A o \in OutStreams : links.feeder[o] = NoStream
  BY DEF Init, NoLinks
<1>3. Typed(conn, links)
  <2>1. conn \in [Conns -> Tables]
    BY ClosedTyped DEF Init
  <2>2. links \in Links
    BY DEF Init, NoLinks, Links
  <2>3. Mutual(links)
    BY NullAssumption DEF Init, NoLinks, Mutual
  <2> QED
    BY <2>1, <2>2, <2>3 DEF Typed
<1>4. \A c \in Conns, s \in Ids : conn[c].streams[s].kind = "none" /\ s \notin conn[c].files /\ s \notin conn[c].signaled
  BY <1>1, ClosedTyped DEF Closed
<1> QED
  BY <1>1, <1>2, <1>3, <1>4, Places
  DEF Good, PlayersFed, RecordsFed, FilesPlayed, NamesOnce, CameraPlayed, WaitingUnserved, NoneEmpty

\* A connection in another state, that is given up.
InState(t, x) == [t EXCEPT !.state = x]

\* A connection that is given up keeps what is said of its streams.
LEMMA DoomGood ==
  ASSUME NEW V, NEW T, NEW L, Good(T, L, V), NEW C \in SUBSET Conns, NEW x \in {"failed", "enqueued"},
         \A c \in C : T[c].state # "none" /\ (x = "failed" => T[c].state = "open")
  PROVE  Good([c \in Conns |-> IF c \in C THEN InState(T[c], x) ELSE T[c]], L, V)
<1> DEFINE U == [c \in Conns |-> IF c \in C THEN InState(T[c], x) ELSE T[c]]
<1>1. /\ U \in [Conns -> Tables]
      /\ \A c \in Conns : /\ U[c].streams = T[c].streams /\ U[c].files = T[c].files
                          /\ U[c].records = T[c].records /\ U[c].signaled = T[c].signaled
                          /\ U[c].state = "open" => T[c].state = "open"
                          /\ U[c].state = "none" => T[c].state = "none" /\ U[c] = T[c]
                          /\ Registered(U[c]) => Registered(T[c])
  BY DEF Good, Typed, Tables, InState, Registered
<1> HIDE DEF U
<1>2. Typed(U, L) /\ NoneEmpty(U)
  BY <1>1 DEF Good, Typed, NoneEmpty
<1>3. PlayersFed(U, L)
  BY <1>1 DEF Good, PlayersFed, IsIn
<1>4. RecordsFed(U, L) /\ FilesPlayed(U, L) /\ CameraPlayed(U, L)
  BY <1>1 DEF Good, RecordsFed, FilesPlayed, CameraPlayed, IsIn
<1>5. NamesOnce(U)
  BY <1>1 DEF Good, NamesOnce, IsPublished, IsIn
<1>6. WaitingUnserved(U, L, V)
  BY <1>1 DEF Good, WaitingUnserved, IsPublished, IsIn
<1> QED
  BY <1>2, <1>3, <1>4, <1>5, <1>6 DEF Good, U

LEMMA OpenGood ==
  ASSUME NEW V, Good(conn, links, V), NEW c \in Conns, Open(c)
  PROVE  Good(conn, links, V)'
<1>1. /\ conn' \in [Conns -> Tables] /\ links' = links
      /\ \A d \in Conns : d # c => conn'[d] = conn[d]
      /\ conn[c] = Closed /\ conn'[c].state = "open"
      /\ conn'[c].streams = Closed.streams /\ conn'[c].files = {} /\ conn'[c].signaled = {}
  BY ClosedTyped DEF Good, Typed, NoneEmpty, Open, Tables, Closed
<1>2. \A d \in Conns : conn'[d].streams = conn[d].streams /\ (d = c => conn[d].files = {} /\ conn[d].signaled = {} /\ conn[d].records = {})
  BY <1>1 DEF Closed
<1>3. \A s \in Ids : conn[c].streams[s].kind = "none"
  BY <1>1, ClosedTyped
<1>4. Typed(conn, links)' /\ NoneEmpty(conn)'
  BY <1>1 DEF Good, Typed, NoneEmpty
<1>5. PlayersFed(conn, links)' /\ RecordsFed(conn, links)'
  BY <1>1, <1>2, <1>3 DEF Good, PlayersFed, RecordsFed, IsIn
<1>6. FilesPlayed(conn, links)' /\ NamesOnce(conn)'
  BY <1>1, <1>2, <1>3 DEF Good, FilesPlayed, NamesOnce, IsPublished, IsIn
<1>7. CameraPlayed(conn, links)'
  BY <1>1, <1>2, <1>3 DEF Good, CameraPlayed
<1>8. WaitingUnserved(conn, links, V)'
  BY <1>1, <1>2, <1>3 DEF Good, WaitingUnserved, IsPublished, IsIn
<1> QED
  BY <1>4, <1>5, <1>6, <1>7, <1>8 DEF Good

\* A connection with another entry and other files, FLV files, signalled players
\* and free channels.
Changed(t, s, e, R, S, F, k) ==
  [t EXCEPT !.streams[s] = e, !.records = R, !.signaled = S, !.files = F, !.free = k]

LEMMA DoomOneGood ==
  ASSUME NEW V, NEW T, NEW L, Good(T, L, V), NEW c \in Conns, NEW x \in {"failed", "enqueued"},
         T[c].state # "none", x = "failed" => T[c].state = "open"
  PROVE  Good([T EXCEPT ![c] = InState(T[c], x)], L, V)
<1>1. [T EXCEPT ![c] = InState(T[c], x)] = [d \in Conns |-> IF d \in {c} THEN InState(T[d], x) ELSE T[d]]
  BY DEF Good, Typed
<1> DEFINE C == {c}
<1>2. C \in SUBSET Conns /\ \A d \in C : T[d].state # "none" /\ (x = "failed" => T[d].state = "open")
  OBVIOUS
<1> HIDE DEF C
<1>3. Good([d \in Conns |-> IF d \in C THEN InState(T[d], x) ELSE T[d]], L, V)
  BY <1>2, DoomGood
<1> QED
  BY <1>1, <1>3 DEF C

\* A handler returns false.
LEMMA FailedGood ==
  ASSUME NEW V, NEW T, NEW L, Good(T, L, V), NEW c \in Conns, T[c].state = "open"
  PROVE  Good([T EXCEPT ![c] = Failed(T[c])], L, V)
<1>1. Failed(T[c]) = InState(T[c], "failed")
  BY DEF Failed, InState
<1> QED
  BY <1>1, DoomOneGood

\* An entry that is no stream becomes another one that is none, and a file is
\* left behind only by a connection that is given up.
Neutralised(t, s, u) ==
  /\ u \in Tables /\ t.state # "none" /\ u.state \in {t.state, "failed"}
  /\ (t.state = "open" \/ u.state = t.state)
  /\ t.streams[s].kind \in {"none", "neutral"} /\ u.streams[s].kind \in {"none", "neutral"}
  /\ t.files \subseteq u.files /\ (u.state = "failed" \/ u.files = t.files)
  /\ u.signaled = t.signaled
  /\ \A r \in Ids : r # s => u.streams[r] = t.streams[r] /\ (r \in u.records <=> r \in t.records)

LEMMA NeutralGood ==
  ASSUME NEW V, NEW T, NEW L, Good(T, L, V), NEW c \in Conns, NEW s \in Ids, NEW u, Neutralised(T[c], s, u)
  PROVE  Good([T EXCEPT ![c] = u], L, V)
<1> DEFINE U == [T EXCEPT ![c] = u]
<1>1. /\ U \in [Conns -> Tables]
      /\ \A d \in Conns : /\ U[d].state = "open" => T[d].state = "open" /\ U[d].files = T[d].files
                          /\ U[d].state = "none" => T[d].state = "none" /\ U[d] = T[d]
                          /\ Registered(U[d]) => Registered(T[d])
                          /\ U[d].signaled = T[d].signaled /\ T[d].files \subseteq U[d].files
      /\ \A d \in Conns, r \in Ids : d # c \/ r # s =>
            U[d].streams[r] = T[d].streams[r] /\ (r \in U[d].records <=> r \in T[d].records)
      /\ U[c].streams[s].kind \in {"none", "neutral"} /\ T[c].streams[s].kind \in {"none", "neutral"}
  BY DEF Good, Typed, Neutralised, Registered
<1> HIDE DEF U
<1>2. Typed(U, L) /\ NoneEmpty(U)
  BY <1>1 DEF Good, Typed, NoneEmpty
<1>3. PlayersFed(U, L)
  BY <1>1 DEF Good, PlayersFed, IsIn
<1>4. RecordsFed(U, L) /\ FilesPlayed(U, L) /\ CameraPlayed(U, L)
  BY <1>1 DEF Good, RecordsFed, FilesPlayed, CameraPlayed, IsIn
<1>5. NamesOnce(U)
  BY <1>1 DEF Good, NamesOnce, IsPublished, IsIn
<1>6. WaitingUnserved(U, L, V)
  BY <1>1 DEF Good, WaitingUnserved, IsPublished, IsIn
<1> QED
  BY <1>2, <1>3, <1>4, <1>5, <1>6 DEF Good, U

\* A set of numbers of entries has a first one.
LEMMA FirstVacant ==
  ASSUME NEW vacant \in SUBSET Ids, vacant # {}
  PROVE  (CHOOSE s \in vacant : \A r \in vacant : s <= r) \in vacant
<1>1. vacant \subseteq Nat
  BY DEF Ids
<1> DEFINE below == OpToRel(<, Nat)
<1>2. IsWellFoundedOn(below, Nat)
  BY NatLessThanWellFounded
<1> HIDE DEF below
<1>3. PICK x \in vacant : \A y \in vacant : ~(<<y, x>> \in below)
  BY <1>1, <1>2, WFMin
<1>4. ASSUME NEW r \in vacant PROVE x <= r
  <2>1. x \in Nat /\ r \in Nat
    BY <1>1
  <2>2. ~(<<r, x>> \in below)
    BY <1>3
  <2> QED
    BY <2>1, <2>2 DEF below, OpToRel
<1> QED
  BY <1>4

LEMMA CreateGood ==
  ASSUME NEW V, Good(conn, links, V), NEW c \in Conns, CreateStream(c)
  PROVE  Good(conn, links, V)'
<1> DEFINE vacant == {s \in Ids : conn[c].streams[s].kind = "none"}
           k == CHOOSE s \in vacant : \A r \in vacant : s <= r
           u == [conn[c] EXCEPT !.streams[k] = Neutral]
<1>0. conn \in [Conns -> Tables] /\ conn[c] \in Tables /\ conn[c].state = "open" /\ links' = links
  BY DEF Good, Typed, CreateStream
<1>1. CASE vacant = {}
  <2>1. conn' = [conn EXCEPT ![c] = Failed(conn[c])]
    BY <1>1 DEF CreateStream
  <2> QED
    BY <1>0, <2>1, FailedGood
<1>2. CASE vacant # {}
  <2>1. conn' = [conn EXCEPT ![c] = u]
    BY <1>2 DEF CreateStream
  <2>2. k \in vacant
    BY <1>2, FirstVacant
  <2>3. Neutral \in Entries /\ Neutral.kind = "neutral" /\ k \in Ids /\ conn[c].streams[k].kind = "none"
    BY <2>2 DEF Entries, Neutral, Kinds
  <2> HIDE DEF k
  <2>4. /\ u \in Tables /\ u.state = "open" /\ u.files = conn[c].files /\ u.signaled = conn[c].signaled
        /\ u.records = conn[c].records /\ u.streams = [conn[c].streams EXCEPT ![k] = Neutral]
    BY <1>0, <2>3 DEF Tables
  <2>5. u.streams[k].kind = "neutral" /\ \A r \in Ids : r # k => u.streams[r] = conn[c].streams[r]
    BY <1>0, <2>3, <2>4 DEF Tables
  <2> HIDE DEF u
  <2>6. Neutralised(conn[c], k, u)
    BY <1>0, <2>3, <2>4, <2>5 DEF Neutralised
  <2>7. Good([conn EXCEPT ![c] = u], links, V)
    BY <2>3, <2>6, NeutralGood
  <2> QED
    BY <1>0, <2>1, <2>7
<1> QED
  BY <1>1, <1>2

-----------------------------------------------------------------------------
(***************************************************************************)
(* Closing a stream.                                                       *)
(***************************************************************************)
ClosedAs(t, s, next, fromFile, u) ==
  /\ u \in Tables /\ u.state = t.state /\ u.streams[s].kind \in {"none", "neutral"}
  /\ t.streams[s].kind # "none" =>
       /\ u.streams[s] = next /\ u.records = t.records \ {s}
       /\ u.signaled = IF t.streams[s].kind = "out" THEN t.signaled \ {s} ELSE t.signaled
       /\ u.files = IF t.streams[s].kind = "out" /\ fromFile THEN t.files \ {s} ELSE t.files
       /\ u.free = IF t.streams[s].kind = "out" THEN t.free + 1 ELSE t.free
  /\ t.streams[s].kind = "none" => u = t
  /\ \A r \in Ids : r # s => u.streams[r] = t.streams[r]

LEMMA ClosedFacts ==
  ASSUME conn \in [Conns -> Tables], NEW c \in Conns, NEW s \in Ids, NEW next \in {Neutral, Empty}
  PROVE  ClosedAs(conn[c], s, next, FedFromFile(c, s), ClosedTable(c, s, next))
<1> DEFINE t == conn[c]
           out == t.streams[s].kind = "out"
           R == t.records \ {s}
           S == IF out THEN t.signaled \ {s} ELSE t.signaled
           F == IF out /\ FedFromFile(c, s) THEN t.files \ {s} ELSE t.files
           k == IF out THEN t.free + 1 ELSE t.free
           u == Changed(t, s, next, R, S, F, k)
<1>1. t \in Tables
  OBVIOUS
<1>2. R \in SUBSET Ids /\ S \in SUBSET Ids /\ F \in SUBSET Ids /\ k \in Nat
  BY <1>1 DEF Tables
<1>3. next \in Entries /\ next.kind \in {"none", "neutral"}
  BY DEF Entries, Neutral, Empty, Kinds
<1>4. ClosedTable(c, s, next) = IF t.streams[s].kind = "none" THEN t ELSE u
  BY DEF ClosedTable, Changed
<1>5. /\ u \in Tables /\ u.state = t.state /\ u.streams[s] = next
      /\ \A r \in Ids : r # s => u.streams[r] = t.streams[r]
      /\ u.files = F /\ u.records = R /\ u.signaled = S /\ u.free = k
  <2>1. next \in Entries
    BY <1>3
  <2> HIDE DEF R, S, F, k, t
  <2> DEFINE table == [t.streams EXCEPT ![s] = next]
  <2>2. /\ table \in [Ids -> Entries] /\ table[s] = next
        /\ \A r \in Ids : r # s => table[r] = t.streams[r]
    BY <1>1, <2>1 DEF Tables
  <2>3. /\ u \in Tables /\ u.state = t.state /\ u.streams = table
        /\ u.files = F /\ u.records = R /\ u.signaled = S /\ u.free = k
    <3> HIDE DEF table
    <3> QED
      BY <1>1, <1>2, <2>2 DEF Tables, Changed, table
  <2> HIDE DEF table, u
  <2> QED
    BY <2>2, <2>3
<1> HIDE DEF u
<1> QED
  BY <1>1, <1>3, <1>4, <1>5 DEF ClosedAs

LEMMA CloseGood ==
  ASSUME NEW V, Good(conn, links, V), NEW c \in Conns, NEW s \in Ids, conn[c].state = "open",
         NEW next \in {Neutral, Empty}
  PROVE  /\ Good([conn EXCEPT ![c] = ClosedTable(c, s, next)], WithoutStream(c, s), V)
         /\ ClosedTable(c, s, next).state = "open"
         /\ ClosedTable(c, s, next).streams[s].kind \in {"none", "neutral"}
<1> DEFINE t == ClosedTable(c, s, next)
           U == [conn EXCEPT ![c] = t]
           K == WithoutStream(c, s)
           x == conn[c].streams[s]
<1>0. conn \in [Conns -> Tables] /\ links \in Links /\ Mutual(links) /\ x.kind \in Kinds
  BY DEF Good, Typed, Tables, Entries
<1>4. ClosedAs(conn[c], s, next, FedFromFile(c, s), t)
  BY <1>0, ClosedFacts
<1>1. CASE x.kind = "none"
  <2>1. t = conn[c] /\ U = conn /\ K = links
    BY <1>0, <1>1 DEF ClosedTable, WithoutStream
  <2> QED
    BY <1>1, <2>1
<1>2. CASE x.kind = "neutral"
  <2>1. K = links
    BY <1>2 DEF WithoutStream
  <2>2. /\ t \in Tables /\ t.state = "open" /\ t.streams[s].kind \in {"none", "neutral"}
        /\ t.records = conn[c].records \ {s} /\ t.signaled = conn[c].signaled
        /\ t.files = conn[c].files
        /\ \A r \in Ids : r # s => t.streams[r] = conn[c].streams[r]
    BY <1>0, <1>2, <1>4 DEF ClosedAs, Tables, Entries
  <2> HIDE DEF t
  <2>3. Neutralised(conn[c], s, t)
    BY <1>2, <2>2 DEF Neutralised
  <2>4. Good([conn EXCEPT ![c] = t], links, V)
    BY <2>3, NeutralGood
  <2> QED
    BY <2>1, <2>2, <2>4 DEF t
<1>3. CASE x.kind \in {"in", "out"}
  <2>1. /\ t \in Tables /\ t.state = "open" /\ t.streams[s].kind \in {"none", "neutral"}
        /\ \A r \in Ids : r # s => /\ t.streams[r] = conn[c].streams[r]
                                   /\ r \in t.records <=> r \in conn[c].records
                                   /\ r \in t.files <=> r \in conn[c].files
                                   /\ r \in t.signaled <=> r \in conn[c].signaled
        /\ t.files \subseteq conn[c].files /\ t.signaled \subseteq conn[c].signaled
        /\ x.kind = "out" => s \notin t.signaled /\ (FedFromFile(c, s) => s \notin t.files)
    BY <1>0, <1>3, <1>4 DEF ClosedAs
  <2>2. /\ U \in [Conns -> Tables] /\ U[c] = t /\ \A d \in Conns : d # c => U[d] = conn[d]
    BY <1>0, <2>1
  <2>3. /\ K \in Links /\ Mutual(K)
        /\ \A o \in OutStreams :
             K.feeder[o] = IF \/ x.kind = "in" /\ (o = OutFile(c, s) \/ links.feeder[o] = InNet(c, s))
                              \/ /\ x.kind = "out"
                                 /\ o = OutNet(c, s) \/ (FedFromFile(c, s) /\ links.feeder[o] = InFile(c, s))
                           THEN NoStream ELSE links.feeder[o]
    <3>1. CASE x.kind = "in"
      <4> DEFINE I == {InNet(c, s)}
                 O == {OutFile(c, s)}
      <4>1. K = Deleted(links, I, O)
        BY <3>1 DEF WithoutStream
      <4>2. I \in SUBSET InStreams /\ O \in SUBSET OutStreams
        BY Places
      <4> HIDE DEF I, O
      <4>3. /\ K \in Links /\ Mutual(K)
            /\ \A o \in OutStreams : K.feeder[o] =
                 IF o \in O \/ links.feeder[o] \in I THEN NoStream ELSE links.feeder[o]
        BY <1>0, <4>1, <4>2, DeletedExact
      <4>4. ASSUME NEW o \in OutStreams
            PROVE  K.feeder[o] = IF o = OutFile(c, s) \/ links.feeder[o] = InNet(c, s)
                                 THEN NoStream ELSE links.feeder[o]
        BY <4>3 DEF I, O
      <4>5. x.kind # "out"
        BY <3>1
      <4> HIDE DEF K, x
      <4> QED
        BY <3>1, <4>3, <4>4, <4>5
    <3>2. CASE x.kind = "out"
      <4> DEFINE I == IF FedFromFile(c, s) THEN {InFile(c, s)} ELSE {}
      <4>1. K = Deleted(links, I, {OutNet(c, s)})
        BY <3>2 DEF WithoutStream
      <4>2. I \in SUBSET InStreams /\ {OutNet(c, s)} \in SUBSET OutStreams
        BY Places
      <4> HIDE DEF I, K
      <4>3. /\ K \in Links /\ Mutual(K)
            /\ \A o \in OutStreams : K.feeder[o] =
                 IF o \in {OutNet(c, s)} \/ links.feeder[o] \in I THEN NoStream ELSE links.feeder[o]
        BY <1>0, <4>1, <4>2, DeletedExact
      <4>4. x.kind # "in"
        BY <3>2
      <4>5. \A o \in OutStreams : links.feeder[o] \in I <=> FedFromFile(c, s) /\ links.feeder[o] = InFile(c, s)
        BY DEF I
      <4>6. ASSUME NEW o \in OutStreams
            PROVE  K.feeder[o] = IF o = OutNet(c, s) \/ (FedFromFile(c, s) /\ links.feeder[o] = InFile(c, s))
                                 THEN NoStream ELSE links.feeder[o]
        BY <4>3, <4>5
      <4> HIDE DEF K, x
      <4> QED
        BY <3>2, <4>3, <4>4, <4>6
    <3> QED
      BY <1>3, <3>1, <3>2
  <2> HIDE DEF t, U, K
  \* What loses its feeder is the player itself, or played the publication.
  <2>4. \A d \in Conns, r \in Ids :
          /\ OutNet(d, r) \in OutStreams /\ OutFile(d, r) \in OutStreams
          /\ K.feeder[OutNet(d, r)] # NoStream => K.feeder[OutNet(d, r)] = links.feeder[OutNet(d, r)]
          /\ K.feeder[OutFile(d, r)] # NoStream => K.feeder[OutFile(d, r)] = links.feeder[OutFile(d, r)]
          /\ K.feeder[OutNet(d, r)] # links.feeder[OutNet(d, r)] =>
                \/ d = c /\ r = s
                \/ x.kind = "in" /\ links.feeder[OutNet(d, r)] = InNet(c, s)
    <3> SUFFICES ASSUME NEW d \in Conns, NEW r \in Ids
                 PROVE  /\ OutNet(d, r) \in OutStreams /\ OutFile(d, r) \in OutStreams
                        /\ K.feeder[OutNet(d, r)] # NoStream => K.feeder[OutNet(d, r)] = links.feeder[OutNet(d, r)]
                        /\ K.feeder[OutFile(d, r)] # NoStream => K.feeder[OutFile(d, r)] = links.feeder[OutFile(d, r)]
                        /\ K.feeder[OutNet(d, r)] # links.feeder[OutNet(d, r)] =>
                              \/ d = c /\ r = s
                              \/ x.kind = "in" /\ links.feeder[OutNet(d, r)] = InNet(c, s)
      OBVIOUS
    <3>1. links.feeder[OutNet(d, r)] = InFile(c, s) => d = c /\ r = s
      BY Places DEF Good, PlayersFed
    <3> QED
      BY <2>3, <3>1, Places
  <2>5. Typed(U, K) /\ NoneEmpty(U)
    BY <2>1, <2>2, <2>3 DEF Good, Typed, NoneEmpty
  <2>6. PlayersFed(U, K)
    <3> SUFFICES ASSUME NEW d \in Conns, NEW r \in Ids, K.feeder[OutNet(d, r)] # NoStream
                 PROVE  /\ U[d].streams[r].kind = "out"
                        /\ \/ K.feeder[OutNet(d, r)] = Mux
                           \/ K.feeder[OutNet(d, r)] = InFile(d, r) /\ r \in U[d].files
                           \/ \E e \in Conns, q \in Ids : /\ K.feeder[OutNet(d, r)] = InNet(e, q)
                                                          /\ IsIn(U, e, q, U[d].streams[r].name)
      BY DEF PlayersFed
    <3>1. K.feeder[OutNet(d, r)] = links.feeder[OutNet(d, r)] /\ conn[d].streams[r].kind = "out"
      BY <2>4 DEF Good, PlayersFed
    <3>2. ~(d = c /\ r = s) /\ U[d].streams[r] = conn[d].streams[r] /\ (r \in U[d].files <=> r \in conn[d].files)
      BY <1>3, <2>1, <2>2, <2>3, <3>1, Places
    <3>3. \A e \in Conns, q \in Ids :
            links.feeder[OutNet(d, r)] = InNet(e, q) /\ IsIn(conn, e, q, conn[d].streams[r].name)
              => IsIn(U, e, q, U[d].streams[r].name)
      <4> SUFFICES ASSUME NEW e \in Conns, NEW q \in Ids, links.feeder[OutNet(d, r)] = InNet(e, q),
                          IsIn(conn, e, q, conn[d].streams[r].name)
                   PROVE  IsIn(U, e, q, U[d].streams[r].name)
        OBVIOUS
      <4>1. ~(e = c /\ q = s)
        BY <1>3, <2>3, <3>1, Places DEF IsIn
      <4> QED
        BY <2>1, <2>2, <3>2, <4>1 DEF IsIn
    <3> QED
      BY <3>1, <3>2, <3>3 DEF Good, PlayersFed
  <2>7. RecordsFed(U, K)
    <3> SUFFICES ASSUME NEW d \in Conns, NEW r \in Ids, K.feeder[OutFile(d, r)] # NoStream
                 PROVE  /\ K.feeder[OutFile(d, r)] = InNet(d, r)
                        /\ U[d].streams[r].kind = "in" /\ r \in U[d].records
      BY DEF RecordsFed
    <3>1. /\ K.feeder[OutFile(d, r)] = links.feeder[OutFile(d, r)] /\ links.feeder[OutFile(d, r)] = InNet(d, r)
          /\ conn[d].streams[r].kind = "in" /\ r \in conn[d].records
      BY <2>4 DEF Good, RecordsFed
    <3>2. ~(d = c /\ r = s)
      BY <1>3, <2>3, <3>1, Places
    <3> QED
      BY <2>1, <2>2, <3>1, <3>2
  <2>8. FilesPlayed(U, K)
    <3> SUFFICES ASSUME NEW d \in Conns, NEW r \in Ids
                 PROVE  /\ r \in U[d].files /\ U[d].state = "open" => K.feeder[OutNet(d, r)] = InFile(d, r)
                        /\ r \in U[d].signaled => r \in U[d].files /\ K.feeder[OutNet(d, r)] = InFile(d, r)
      BY DEF FilesPlayed
    <3>1. CASE d = c /\ r = s
      <4>1. s \in conn[c].files => FedFromFile(c, s) /\ x.kind = "out"
        BY Places DEF Good, FilesPlayed, FedFromFile, PlayersFed
      <4>2. s \in conn[c].signaled => s \in conn[c].files
        BY DEF Good, FilesPlayed
      <4> QED
        BY <2>1, <2>2, <3>1, <4>1, <4>2
    <3>2. CASE ~(d = c /\ r = s)
      <4>1. /\ r \in U[d].files <=> r \in conn[d].files
            /\ r \in U[d].signaled <=> r \in conn[d].signaled
            /\ U[d].state = conn[d].state
        BY <2>1, <2>2, <3>2
      <4>2. links.feeder[OutNet(d, r)] = InFile(d, r) => K.feeder[OutNet(d, r)] = InFile(d, r)
        BY <2>4, <3>2, Places
      <4> QED
        BY <4>1, <4>2 DEF Good, FilesPlayed
    <3> QED
      BY <3>1, <3>2
  <2>9. NamesOnce(U)
    <3>1. \A d \in Conns : Registered(U[d]) <=> Registered(conn[d])
      BY <2>1, <2>2 DEF Registered
    <3> QED
      BY <2>1, <2>2, <3>1 DEF Good, NamesOnce, IsPublished, IsIn
  <2>10. CameraPlayed(U, K)
    <3> SUFFICES ASSUME NEW d \in Conns, NEW r \in Ids, U[d].state = "open",
                        U[d].streams[r].kind = "out", U[d].streams[r].name = Camera
                 PROVE  K.feeder[OutNet(d, r)] = Mux \/ K.feeder[OutNet(d, r)] = InFile(d, r)
      BY DEF CameraPlayed
    <3>1. ~(d = c /\ r = s) /\ conn[d].state = "open" /\ U[d].streams[r] = conn[d].streams[r]
      BY <2>1, <2>2
    <3>2. links.feeder[OutNet(d, r)] = Mux \/ links.feeder[OutNet(d, r)] = InFile(d, r)
      BY <3>1 DEF Good, CameraPlayed
    <3> QED
      BY <2>4, <3>1, <3>2, Places
  <2>11. WaitingUnserved(U, K, V)
    <3> SUFFICES ASSUME NEW d \in Conns, NEW r \in Ids, NEW e \in Conns, NEW q \in Ids,
                        <<d, r>> \notin V, U[d].state = "open", U[d].streams[r].kind = "out",
                        K.feeder[OutNet(d, r)] = NoStream, IsPublished(U, e, q, U[d].streams[r].name)
                 PROVE  FALSE
      BY DEF WaitingUnserved
    <3>1. ~(d = c /\ r = s) /\ conn[d].state = "open" /\ U[d].streams[r] = conn[d].streams[r]
      BY <2>1, <2>2
    <3>2. ~(e = c /\ q = s) /\ IsPublished(conn, e, q, conn[d].streams[r].name)
      BY <2>1, <2>2, <3>1 DEF IsPublished, IsIn, Registered
    <3>3. x.kind = "in" /\ links.feeder[OutNet(d, r)] = InNet(c, s)
      BY <2>4, <3>1, <3>2 DEF Good, WaitingUnserved
    <3>4. Registered(conn[c]) /\ IsIn(conn, c, s, conn[d].streams[r].name)
      BY <3>3, Places DEF Good, PlayersFed, IsIn, Registered
    <3> QED
      BY <3>2, <3>4 DEF Good, NamesOnce, IsPublished, IsIn
  <2> QED
    BY <2>1, <2>5, <2>6, <2>7, <2>8, <2>9, <2>10, <2>11 DEF Good, U, t, K
<1> QED
  BY <1>0, <1>1, <1>2, <1>3 DEF Kinds
-----------------------------------------------------------------------------
(***************************************************************************)
(* A connection is deleted with all its streams.  When it was enqueued its *)
(* players may wait beside another publication of the name.                *)
(***************************************************************************)
LEMMA CleanupGood ==
  ASSUME NEW V, Good(conn, links, V), NEW c \in Conns, CleanupDead(c),
         \/ Registered(conn[c])
         \/ \A d \in Conns, r, s \in Ids : links.feeder[OutNet(d, r)] = InNet(c, s) => <<d, r>> \in V
  PROVE  Good(conn, links, V)'
<1> DEFINE I == {InNet(c, s) : s \in Ids} \cup {InFile(c, s) : s \in Ids}
           O == {OutNet(c, s) : s \in Ids} \cup {OutFile(c, s) : s \in Ids}
<1>1. /\ conn \in [Conns -> Tables] /\ links \in Links /\ Mutual(links)
      /\ conn' = [conn EXCEPT ![c] = Closed] /\ links' = Deleted(links, I, O)
  BY DEF Good, Typed, CleanupDead
<1>2. I \in SUBSET InStreams /\ O \in SUBSET OutStreams
  BY Places
<1>3. \A d \in Conns, r \in Ids :
        /\ OutNet(d, r) \in OutStreams /\ OutFile(d, r) \in OutStreams
        /\ OutNet(d, r) \in O <=> d = c
        /\ OutFile(d, r) \in O <=> d = c
        /\ InNet(d, r) \in I <=> d = c
        /\ InFile(d, r) \in I <=> d = c
        /\ Mux \notin I
  BY Places
<1> HIDE DEF I, O
<1>4. /\ links' \in Links /\ Mutual(links')
      /\ \A o \in OutStreams :
           links'.feeder[o] = IF o \in O \/ links.feeder[o] \in I THEN NoStream ELSE links.feeder[o]
  <2> DEFINE K == Deleted(links, I, O)
  <2>1. /\ K \in Links /\ Mutual(K)
        /\ \A o \in OutStreams :
             K.feeder[o] = IF o \in O \/ links.feeder[o] \in I THEN NoStream ELSE links.feeder[o]
    <3>1. links \in Links /\ Mutual(links)
      BY <1>1
    <3> QED
      BY <1>2, <3>1, DeletedExact
  <2>2. links' = K
    BY <1>1
  <2> HIDE DEF K
  <2> QED
    BY <2>1, <2>2
<1>5. /\ conn' \in [Conns -> Tables] /\ conn'[c] = Closed
      /\ \A d \in Conns : d # c => conn'[d] = conn[d]
      /\ Closed.state = "none" /\ Closed.files = {} /\ Closed.signaled = {}
      /\ \A s \in Ids : Closed.streams[s].kind = "none"
  BY <1>1, ClosedTyped DEF Closed
<1>6. \A d \in Conns, r \in Ids :
        /\ links'.feeder[OutNet(d, r)] # NoStream =>
             /\ d # c /\ links'.feeder[OutNet(d, r)] = links.feeder[OutNet(d, r)]
             /\ links.feeder[OutNet(d, r)] \notin I
        /\ links'.feeder[OutFile(d, r)] # NoStream =>
             d # c /\ links'.feeder[OutFile(d, r)] = links.feeder[OutFile(d, r)]
        /\ d # c /\ links'.feeder[OutNet(d, r)] # links.feeder[OutNet(d, r)] =>
             links.feeder[OutNet(d, r)] \in I
  BY <1>3, <1>4
<1>7. Typed(conn, links)' /\ NoneEmpty(conn)'
  BY <1>4, <1>5 DEF Good, Typed, NoneEmpty
<1>8. PlayersFed(conn, links)'
  <2> SUFFICES ASSUME NEW d \in Conns, NEW r \in Ids, links'.feeder[OutNet(d, r)] # NoStream
               PROVE  /\ conn'[d].streams[r].kind = "out"
                      /\ \/ links'.feeder[OutNet(d, r)] = Mux
                         \/ links'.feeder[OutNet(d, r)] = InFile(d, r) /\ r \in conn'[d].files
                         \/ \E e \in Conns, q \in Ids :
                              /\ links'.feeder[OutNet(d, r)] = InNet(e, q)
                              /\ IsIn(conn', e, q, conn'[d].streams[r].name)
    BY DEF PlayersFed, IsIn
  <2>1. d # c /\ conn'[d] = conn[d] /\ links'.feeder[OutNet(d, r)] = links.feeder[OutNet(d, r)]
        /\ links.feeder[OutNet(d, r)] \notin I /\ links.feeder[OutNet(d, r)] # NoStream
    BY <1>5, <1>6
  <2>2. \A e \in Conns, q \in Ids :
          links.feeder[OutNet(d, r)] = InNet(e, q) /\ IsIn(conn, e, q, conn[d].streams[r].name)
            => IsIn(conn', e, q, conn'[d].streams[r].name)
    BY <1>3, <1>5, <2>1 DEF IsIn
  <2> QED
    BY <2>1, <2>2 DEF Good, PlayersFed
<1>9. RecordsFed(conn, links)' /\ NamesOnce(conn)'
  BY <1>5, <1>6 DEF Good, RecordsFed, NamesOnce, IsPublished, IsIn
<1>10. FilesPlayed(conn, links)' /\ CameraPlayed(conn, links)'
  BY <1>3, <1>5, <1>6 DEF Good, FilesPlayed, CameraPlayed
<1>11. WaitingUnserved(conn, links, V)'
  <2> SUFFICES ASSUME NEW d \in Conns, NEW r \in Ids, NEW e \in Conns, NEW q \in Ids,
                      <<d, r>> \notin V, conn'[d].state = "open", conn'[d].streams[r].kind = "out",
                      links'.feeder[OutNet(d, r)] = NoStream,
                      IsPublished(conn', e, q, conn'[d].streams[r].name)
               PROVE  FALSE
    BY DEF WaitingUnserved, IsPublished, IsIn, Registered
  <2>1. d # c /\ e # c /\ conn'[d] = conn[d] /\ conn'[e] = conn[e]
    BY <1>5 DEF IsPublished, IsIn
  <2>2. IsPublished(conn, e, q, conn[d].streams[r].name)
    BY <2>1 DEF IsPublished, IsIn
  <2>3. links.feeder[OutNet(d, r)] # NoStream /\ links.feeder[OutNet(d, r)] \in I
    BY <1>6, <2>1, <2>2 DEF Good, WaitingUnserved
  <2>4. PICK a \in Conns, b \in Ids : links.feeder[OutNet(d, r)] = InNet(a, b)
                                       /\ IsIn(conn, a, b, conn[d].streams[r].name)
    BY <1>3, <2>1, <2>3 DEF Good, PlayersFed
  <2>5. a = c
    BY <1>3, <2>3, <2>4
  <2>6. Registered(conn[a])
    BY <2>4, <2>5
  <2>7. a = e
    BY <2>2, <2>4, <2>6 DEF Good, NamesOnce, IsPublished, IsIn
  <2> QED
    BY <2>1, <2>5, <2>7
<1> QED
  BY <1>7, <1>8, <1>9, <1>10, <1>11 DEF Good

-----------------------------------------------------------------------------
(***************************************************************************)
(* The camera's players are unlinked and given up.                         *)
(***************************************************************************)
LEMMA UnLinkedGood ==
  ASSUME NEW V, NEW T, NEW L, Good(T, L, V),
         \A c \in Conns, s \in Ids : L.feeder[OutNet(c, s)] = Mux => T[c].state # "open"
  PROVE  Good(T, UnLinked(L, Mux), V)
<1> DEFINE K == UnLinked(L, Mux)
<1>1. L \in Links /\ Mutual(L) /\ Mux \in InStreams
  BY DEF Good, Typed, InStreams
<1>2. /\ K \in Links /\ Mutual(K)
      /\ \A o \in OutStreams : K.feeder[o] = IF L.feeder[o] = Mux THEN NoStream ELSE L.feeder[o]
  BY <1>1, UnLinkedExact
<1> HIDE DEF K
<1>3. \A c \in Conns, s \in Ids :
        /\ K.feeder[OutNet(c, s)] # NoStream => K.feeder[OutNet(c, s)] = L.feeder[OutNet(c, s)]
        /\ K.feeder[OutFile(c, s)] # NoStream => K.feeder[OutFile(c, s)] = L.feeder[OutFile(c, s)]
        /\ L.feeder[OutNet(c, s)] # Mux => K.feeder[OutNet(c, s)] = L.feeder[OutNet(c, s)]
        /\ InFile(c, s) # Mux
  BY <1>2, Places
<1>4. Typed(T, K) /\ PlayersFed(T, K)
  BY <1>2, <1>3 DEF Good, Typed, PlayersFed
<1>5. RecordsFed(T, K) /\ FilesPlayed(T, K)
  BY <1>3 DEF Good, RecordsFed, FilesPlayed
<1>6. CameraPlayed(T, K) /\ WaitingUnserved(T, K, V)
  BY <1>3 DEF Good, CameraPlayed, WaitingUnserved
<1> QED
  BY <1>4, <1>5, <1>6 DEF Good, K

LEMMA ResolutionGood ==
  ASSUME NEW V, Good(conn, links, V), ResolutionChanged
  PROVE  Good(conn, links, V)'
<1> DEFINE C == {c \in Conns : \E s \in Ids : OutNet(c, s) \in links.feeds[Mux]}
           U == [c \in Conns |-> IF c \in C THEN InState(conn[c], "enqueued") ELSE conn[c]]
<1>1. conn' = U /\ links' = UnLinked(links, Mux)
  BY DEF ResolutionChanged, InState, Enqueued
<1>2. \A c \in Conns, s \in Ids : OutNet(c, s) \in links.feeds[Mux] <=> links.feeder[OutNet(c, s)] = Mux
  BY Places DEF Good, Typed, Mutual
<1>3. \A c \in C : conn[c].state # "none"
  BY <1>2, Places, ClosedTyped DEF Good, PlayersFed, NoneEmpty
<1>4. \A c \in Conns, s \in Ids : links.feeder[OutNet(c, s)] = Mux => U[c].state # "open"
  BY <1>2 DEF Good, Typed, Tables, InState
<1>5. C \in SUBSET Conns
  OBVIOUS
<1> HIDE DEF C
<1>6. Good(U, links, V)
  BY <1>3, <1>5, DoomGood
<1> HIDE DEF U
<1>7. Good(U, UnLinked(links, Mux), V)
  BY <1>4, <1>6, UnLinkedGood
<1> QED
  BY <1>1, <1>7
-----------------------------------------------------------------------------
(***************************************************************************)
(* Playing: a stream is closed, a player takes its place and is linked.    *)
(***************************************************************************)
PublishedAs(T, n, i) == \E d \in Conns, r \in Ids : i = InNet(d, r) /\ IsIn(T, d, r, n)

LEMMA PublishedFacts ==
  ASSUME NEW T \in [Conns -> Tables], NEW n
  PROVE  \A d \in Conns, r \in Ids : <<d, r>> \in Published(T, n) <=> IsPublished(T, d, r, n)
<1> SUFFICES ASSUME NEW d \in Conns, NEW r \in Ids
             PROVE  <<d, r>> \in Published(T, n) <=> IsPublished(T, d, r, n)
  OBVIOUS
<1>1. T[d].streams[r] \in Entries
  BY DEF Tables
<1>2. T[d].streams[r] = [kind |-> "in", name |-> n] <=> IsIn(T, d, r, n)
  BY <1>1 DEF Entries, IsIn
<1> QED
  BY <1>2 DEF Published, IsPublished

LEMMA LiveFacts ==
  ASSUME NEW T \in [Conns -> Tables], NEW n
  PROVE  /\ \A i \in LiveStreams(T, n) :
              i \in InStreams /\ (IF n = Camera THEN i = Mux ELSE PublishedAs(T, n, i))
         /\ LiveStreams(T, n) = {} <=> n # Camera /\ \A d \in Conns, r \in Ids : ~IsPublished(T, d, r, n)
<1>1. CASE n = Camera
  BY <1>1 DEF LiveStreams, InStreams
<1>2. CASE n # Camera
  <2>1. LiveStreams(T, n) = {InNet(p[1], p[2]) : p \in Published(T, n)}
    BY <1>2 DEF LiveStreams
  <2>2. ASSUME NEW i \in LiveStreams(T, n) PROVE i \in InStreams /\ PublishedAs(T, n, i)
    <3>1. PICK p \in Published(T, n) : i = InNet(p[1], p[2])
      BY <2>1
    <3>2. p[1] \in Conns /\ p[2] \in Ids /\ p = <<p[1], p[2]>>
      BY DEF Published
    <3>3. IsPublished(T, p[1], p[2], n)
      BY <3>2, PublishedFacts
    <3> QED
      BY <3>1, <3>2, <3>3, Places DEF PublishedAs, IsPublished
  <2>3. ASSUME LiveStreams(T, n) = {}, NEW d \in Conns, NEW r \in Ids, IsPublished(T, d, r, n) PROVE FALSE
    <3>1. <<d, r>> \in Published(T, n)
      BY <2>3, PublishedFacts
    <3> QED
      BY <2>1, <2>3, <3>1
  <2>4. ASSUME LiveStreams(T, n) # {} PROVE \E d \in Conns, r \in Ids : IsPublished(T, d, r, n)
    <3>1. PICK p \in Published(T, n) : TRUE
      BY <2>1, <2>4
    <3>2. p[1] \in Conns /\ p[2] \in Ids /\ p = <<p[1], p[2]>>
      BY DEF Published
    <3> QED
      BY <3>2, PublishedFacts
  <2> QED
    BY <1>2, <2>2, <2>3, <2>4
<1> QED
  BY <1>1, <1>2

PlayerIn(t, s, n, u) ==
  /\ u \in Tables /\ t.state = "open" /\ u.state \in {"open", "failed"}
  /\ t.streams[s].kind \in {"none", "neutral"}
  /\ u.streams[s].kind = "out" /\ u.streams[s].name = n
  /\ \A r \in Ids : r # s => /\ u.streams[r] = t.streams[r]
                             /\ r \in u.records <=> r \in t.records
                             /\ r \in u.files <=> r \in t.files
                             /\ r \in u.signaled <=> r \in t.signaled

FedBy(T, c, s, n, u, i) ==
  \/ i = InFile(c, s) /\ s \in u.files
  \/ /\ s \notin u.files /\ s \notin u.signaled
     /\ \/ i = Mux
        \/ n # Camera /\ PublishedAs(T, n, i)
        \/ i = NoStream /\ n # Camera /\ \A d \in Conns, r \in Ids : ~IsPublished(T, d, r, n)

OneFed(L, K, o, i) ==
  /\ K \in Links /\ Mutual(K)
  /\ \A p \in OutStreams : K.feeder[p] = IF p = o THEN i ELSE L.feeder[p]

LEMMA PlayerGood ==
  ASSUME NEW V, NEW T, NEW L, Good(T, L, V), NEW c \in Conns, NEW s \in Ids, NEW n, NEW u, NEW i, NEW K,
         PlayerIn(T[c], s, n, u), FedBy(T, c, s, n, u, i), OneFed(L, K, OutNet(c, s), i)
  PROVE  Good([T EXCEPT ![c] = u], K, V)
<1> DEFINE U == [T EXCEPT ![c] = u]
<1>1. /\ U \in [Conns -> Tables] /\ U[c] = u /\ u.state \in {"open", "failed"}
      /\ \A d \in Conns : d # c => U[d] = T[d]
      /\ \A d \in Conns, r \in Ids : d # c \/ r # s =>
            /\ U[d].streams[r] = T[d].streams[r]
            /\ r \in U[d].records <=> r \in T[d].records
            /\ r \in U[d].files <=> r \in T[d].files
            /\ r \in U[d].signaled <=> r \in T[d].signaled
            /\ U[d].state = "open" => T[d].state = "open"
      /\ U[c].streams[s].kind = "out" /\ U[c].streams[s].name = n
      /\ T[c].streams[s].kind \in {"none", "neutral"}
  BY DEF Good, Typed, PlayerIn
<1>2. /\ K \in Links /\ Mutual(K) /\ K.feeder[OutNet(c, s)] = i
      /\ \A d \in Conns, r \in Ids :
            /\ d # c \/ r # s => K.feeder[OutNet(d, r)] = L.feeder[OutNet(d, r)]
            /\ K.feeder[OutFile(d, r)] = L.feeder[OutFile(d, r)]
  BY Places DEF OneFed
<1>3. \A e \in Conns, q \in Ids : \A m : /\ IsIn(U, e, q, m) <=> IsIn(T, e, q, m)
                                         /\ IsPublished(U, e, q, m) <=> IsPublished(T, e, q, m)
  <2>1. \A e \in Conns : Registered(U[e]) <=> Registered(T[e])
    BY <1>1 DEF Registered, PlayerIn
  <2> QED
    BY <1>1, <2>1 DEF IsIn, IsPublished
<1>4. FedBy(T, c, s, n, U[c], i)
  BY <1>1
<1> HIDE DEF U
<1>5. Typed(U, K) /\ NoneEmpty(U)
  BY <1>1, <1>2 DEF Good, Typed, NoneEmpty
<1>6. PlayersFed(U, K)
  <2> SUFFICES ASSUME NEW d \in Conns, NEW r \in Ids, K.feeder[OutNet(d, r)] # NoStream
               PROVE  /\ U[d].streams[r].kind = "out"
                      /\ \/ K.feeder[OutNet(d, r)] = Mux
                         \/ K.feeder[OutNet(d, r)] = InFile(d, r) /\ r \in U[d].files
                         \/ \E e \in Conns, q \in Ids :
                              K.feeder[OutNet(d, r)] = InNet(e, q) /\ IsIn(U, e, q, U[d].streams[r].name)
    BY DEF PlayersFed
  <2>1. CASE d = c /\ r = s
    BY <1>1, <1>2, <1>3, <1>4, <2>1 DEF FedBy, PublishedAs
  <2>2. CASE ~(d = c /\ r = s)
    BY <1>1, <1>2, <1>3, <2>2 DEF Good, PlayersFed
  <2> QED
    BY <2>1, <2>2
<1>7. RecordsFed(U, K)
  BY <1>1, <1>2 DEF Good, RecordsFed
<1>8. FilesPlayed(U, K)
  <2> SUFFICES ASSUME NEW d \in Conns, NEW r \in Ids
               PROVE  /\ r \in U[d].files /\ U[d].state = "open" => K.feeder[OutNet(d, r)] = InFile(d, r)
                      /\ r \in U[d].signaled => r \in U[d].files /\ K.feeder[OutNet(d, r)] = InFile(d, r)
    BY DEF FilesPlayed
  <2>1. CASE d = c /\ r = s
    BY <1>2, <1>4, <2>1 DEF FedBy
  <2>2. CASE ~(d = c /\ r = s)
    BY <1>1, <1>2, <2>2 DEF Good, FilesPlayed
  <2> QED
    BY <2>1, <2>2
<1>9. NamesOnce(U)
  <2>1. \A e \in Conns : Registered(U[e]) <=> Registered(T[e])
    BY <1>1 DEF Registered, PlayerIn
  <2> QED
    BY <1>1, <1>3, <2>1 DEF Good, NamesOnce
<1>10. CameraPlayed(U, K)
  <2> SUFFICES ASSUME NEW d \in Conns, NEW r \in Ids, U[d].state = "open",
                      U[d].streams[r].kind = "out", U[d].streams[r].name = Camera
               PROVE  K.feeder[OutNet(d, r)] = Mux \/ K.feeder[OutNet(d, r)] = InFile(d, r)
    BY DEF CameraPlayed
  <2>1. CASE d = c /\ r = s
    BY <1>1, <1>2, <1>4, <2>1 DEF FedBy
  <2>2. CASE ~(d = c /\ r = s)
    BY <1>1, <1>2, <2>2 DEF Good, CameraPlayed
  <2> QED
    BY <2>1, <2>2
<1>11. WaitingUnserved(U, K, V)
  <2> SUFFICES ASSUME NEW d \in Conns, NEW r \in Ids, NEW e \in Conns, NEW q \in Ids,
                      <<d, r>> \notin V, U[d].state = "open", U[d].streams[r].kind = "out",
                      K.feeder[OutNet(d, r)] = NoStream
               PROVE  ~IsPublished(U, e, q, U[d].streams[r].name)
    BY DEF WaitingUnserved
  <2>1. CASE d = c /\ r = s
    <3>1. i = NoStream /\ U[d].streams[r].name = n
      BY <1>1, <1>2, <2>1
    <3>2. ~PublishedAs(T, n, i) /\ i # Mux /\ i # InFile(c, s)
      BY <3>1, Places DEF PublishedAs
    <3> QED
      BY <1>3, <1>4, <3>1, <3>2 DEF FedBy
  <2>2. CASE ~(d = c /\ r = s)
    BY <1>1, <1>2, <1>3, <2>2 DEF Good, WaitingUnserved
  <2> QED
    BY <2>1, <2>2
<1> QED
  BY <1>5, <1>6, <1>7, <1>8, <1>9, <1>10, <1>11 DEF Good, U

\* What CreateONS and the reader of a file make of a connection.
LEMMA PlayerFields ==
  ASSUME NEW t \in Tables, t.state = "open", NEW s \in Ids, NEW n \in Names
  PROVE  LET u == CreateONS(t, s, n) IN
         /\ u \in Tables /\ u.files = t.files /\ u.records = t.records /\ u.signaled = t.signaled
         /\ \A r \in Ids : r # s => u.streams[r] = t.streams[r]
         /\ \/ u.state = "open" /\ u.streams[s] = [kind |-> "out", name |-> n]
            \/ u.state = "failed" /\ u.streams[s].kind = "none"
<1> DEFINE u == CreateONS(t, s, n)
           gone == [t.streams EXCEPT ![s] = Empty]
           made == [t.streams EXCEPT ![s] = [kind |-> "out", name |-> n]]
<1>1. /\ gone \in [Ids -> Entries] /\ made \in [Ids -> Entries]
      /\ \A r \in Ids : r # s => gone[r] = t.streams[r] /\ made[r] = t.streams[r]
      /\ gone[s].kind = "none" /\ made[s] = [kind |-> "out", name |-> n]
  BY DEF Tables, Entries, Empty, Kinds
<1>2. CASE t.free = 0
  <2>1. u = Failed([t EXCEPT !.streams = gone])
    BY <1>2 DEF CreateONS
  <2> HIDE DEF gone, u
  <2>2. /\ u \in Tables /\ u.files = t.files /\ u.records = t.records /\ u.signaled = t.signaled
        /\ u.state = "failed" /\ u.streams = gone
    BY <1>1, <2>1 DEF Tables, Failed
  <2>3. /\ u \in Tables /\ u.files = t.files /\ u.records = t.records /\ u.signaled = t.signaled
        /\ \A r \in Ids : r # s => u.streams[r] = t.streams[r]
        /\ u.state = "failed" /\ u.streams[s].kind = "none"
    BY <1>1, <2>2
  <2> QED
    BY <2>3 DEF u
<1>3. CASE t.free # 0
  <2>1. u = [t EXCEPT !.streams = made, !.free = t.free - 1]
    BY <1>3 DEF CreateONS
  <2>2. t.free \in Nat /\ t.free - 1 \in Nat
    BY <1>3 DEF Tables
  <2> HIDE DEF made, u
  <2>3. /\ u \in Tables /\ u.files = t.files /\ u.records = t.records /\ u.signaled = t.signaled
        /\ u.state = "open" /\ u.streams = made
    BY <1>1, <2>1, <2>2 DEF Tables
  <2>4. /\ u \in Tables /\ u.files = t.files /\ u.records = t.records /\ u.signaled = t.signaled
        /\ \A r \in Ids : r # s => u.streams[r] = t.streams[r]
        /\ u.state = "open" /\ u.streams[s] = [kind |-> "out", name |-> n]
    BY <1>1, <2>3
  <2> QED
    BY <2>4 DEF u
<1> QED
  BY <1>2, <1>3

LEMMA ReaderFields ==
  ASSUME NEW u \in Tables, NEW s \in Ids
  PROVE  LET f == [u EXCEPT !.files = @ \cup {s},
                            !.signaled = IF u.state = "open" THEN @ \cup {s} ELSE @]
         IN  \A t \in {f, Failed(f)} :
               /\ t \in Tables /\ t.streams = u.streams /\ t.records = u.records
               /\ t.files = u.files \cup {s}
               /\ t.signaled = IF u.state = "open" THEN u.signaled \cup {s} ELSE u.signaled
               /\ t.state \in {u.state, "failed"}
<1> DEFINE F == u.files \cup {s}
           S == IF u.state = "open" THEN u.signaled \cup {s} ELSE u.signaled
           f == [u EXCEPT !.files = F, !.signaled = S]
<1>1. F \in SUBSET Ids /\ S \in SUBSET Ids
  BY DEF Tables
<1> HIDE DEF F, S
<1>2. /\ f \in Tables /\ f.streams = u.streams /\ f.records = u.records
      /\ f.files = F /\ f.signaled = S /\ f.state = u.state
  BY <1>1 DEF Tables
<1> HIDE DEF f
<1>3. /\ Failed(f) \in Tables /\ Failed(f).streams = f.streams /\ Failed(f).records = f.records
      /\ Failed(f).files = f.files /\ Failed(f).signaled = f.signaled /\ Failed(f).state = "failed"
  BY <1>2 DEF Tables, Failed
<1>4. ASSUME NEW t \in {f, Failed(f)}
      PROVE  /\ t \in Tables /\ t.streams = u.streams /\ t.records = u.records
             /\ t.files = F /\ t.signaled = S /\ t.state \in {u.state, "failed"}
  BY <1>2, <1>3
<1> QED
  BY <1>4 DEF f, F, S

\* A player is linked to i, if there are channels for it.
LEMMA PlayedGood ==
  ASSUME NEW V, Good(conn, links, V), NEW c \in Conns, NEW s \in Ids, NEW T, NEW L, Good(T, L, V),
         T = [conn EXCEPT ![c] = T[c]], NEW n, NEW t, NEW i \in InStreams, Played(c, t, L, i, s),
         \/ PlayerIn(T[c], s, n, t) /\ FedBy(T, c, s, n, t, i)
         \/ Neutralised(T[c], s, t)
  PROVE  Good(conn, links, V)'
<1>1. conn' = [T EXCEPT ![c] = t]
  BY DEF Played, Good, Typed
<1>2. CASE PlayerIn(T[c], s, n, t) /\ FedBy(T, c, s, n, t, i)
  <2> DEFINE O == {OutNet(c, s)}
             K == Linked(L, i, O)
  <2>1. L.feeder[OutNet(c, s)] = NoStream
    BY <1>2 DEF Good, PlayersFed, PlayerIn
  <2>2. O \in SUBSET OutStreams /\ \A o \in O : L.feeder[o] = NoStream
    BY <2>1, Places
  <2> HIDE DEF O
  <2>3. L \in Links /\ Mutual(L)
    BY DEF Good, Typed
  <2>4. /\ K \in Links /\ Mutual(K)
        /\ \A o \in OutStreams : K.feeder[o] = IF o \in O THEN i ELSE L.feeder[o]
    BY <2>2, <2>3, LinkedExact
  <2>5. links' = K
    BY <1>2 DEF Played, PlayerIn, O
  <2> HIDE DEF K
  <2>6. OneFed(L, K, OutNet(c, s), i)
    BY <2>4 DEF OneFed, O
  <2>7. Good([T EXCEPT ![c] = t], K, V)
    BY <1>2, <2>6, PlayerGood
  <2> QED
    BY <1>1, <2>5, <2>7
<1>3. CASE Neutralised(T[c], s, t)
  <2>1. links' = L
    BY <1>3 DEF Played, Neutralised
  <2>2. Good([T EXCEPT ![c] = t], L, V)
    BY <1>3, NeutralGood
  <2> QED
    BY <1>1, <2>1, <2>2
<1> QED
  BY <1>2, <1>3

LEMMA PlayGood ==
  ASSUME NEW V, Good(conn, links, V), NEW c \in Conns, NEW s \in Ids, NEW n \in Names, NEW start,
         Play(c, s, n, start)
  PROVE  Good(conn, links, V)'
<1> DEFINE closed == ClosedTable(c, s, Neutral)
           L == WithoutStream(c, s)
           T == [conn EXCEPT ![c] = closed]
           player == CreateONS(closed, s, n)
           onFile == [player EXCEPT !.files = @ \cup {s},
                                    !.signaled = IF player.state = "open" THEN @ \cup {s} ELSE @]
<1>1. \/ \E i \in LiveStreams(T, n) : Played(c, player, L, i, s)
      \/ \E t \in {onFile, Failed(onFile)} : Played(c, t, L, InFile(c, s), s)
      \/ LiveStreams(T, n) = {} /\ conn' = [conn EXCEPT ![c] = player] /\ links' = L
      \/ conn' = [conn EXCEPT ![c] = Failed(closed)] /\ links' = L
  BY DEF Play
<1>2. conn \in [Conns -> Tables] /\ conn[c].state = "open"
  BY DEF Good, Typed, Play
<1>3. Good(T, L, V) /\ closed.state = "open" /\ closed.streams[s].kind \in {"none", "neutral"}
  BY <1>2, CloseGood
<1>4. T \in [Conns -> Tables] /\ T[c] = closed /\ closed \in Tables
  <2>1. T \in [Conns -> Tables]
    BY <1>3 DEF Good, Typed
  <2> QED
    BY <1>2, <2>1
<1> HIDE DEF closed, L
<1>5. /\ player \in Tables /\ player.files = closed.files
      /\ player.records = closed.records /\ player.signaled = closed.signaled
      /\ \A r \in Ids : r # s => player.streams[r] = closed.streams[r]
      /\ \/ player.state = "open" /\ player.streams[s] = [kind |-> "out", name |-> n]
         \/ player.state = "failed" /\ player.streams[s].kind = "none"
  BY <1>3, <1>4, PlayerFields
<1> HIDE DEF player
<1>6. \A t \in {onFile, Failed(onFile)} :
        /\ t \in Tables /\ t.streams = player.streams /\ t.records = player.records
        /\ t.files = player.files \cup {s}
        /\ t.signaled = IF player.state = "open" THEN player.signaled \cup {s} ELSE player.signaled
        /\ t.state \in {player.state, "failed"}
  BY <1>5, ReaderFields
<1> DEFINE readers == {onFile, Failed(onFile)}
<1> HIDE DEF onFile
<1>7. \A t \in readers :
        /\ t \in Tables /\ t.streams = player.streams /\ t.records = player.records
        /\ t.files = player.files \cup {s}
        /\ t.signaled = IF player.state = "open" THEN player.signaled \cup {s} ELSE player.signaled
        /\ t.state \in {player.state, "failed"}
  BY <1>6
<1>8. /\ conn' = [T EXCEPT ![c] = conn'[c]] /\ T = [conn EXCEPT ![c] = T[c]]
  BY <1>1, <1>2, <1>4 DEF Played
<1> HIDE DEF readers, T
<1>9. L.feeder[OutNet(c, s)] = NoStream /\ s \notin closed.files /\ s \notin closed.signaled
  <2>1. L.feeder[OutNet(c, s)] = NoStream
    BY <1>3, <1>4 DEF Good, PlayersFed
  <2> QED
    BY <1>3, <1>4, <2>1, Places DEF Good, FilesPlayed
<1>10. CASE player.state = "open"
  <2>1. /\ PlayerIn(T[c], s, n, player)
        /\ s \notin player.files /\ s \notin player.signaled
    BY <1>3, <1>4, <1>5, <1>9, <1>10 DEF PlayerIn
  <2>2. ASSUME NEW i \in LiveStreams(T, n), Played(c, player, L, i, s) PROVE Good(conn, links, V)'
    <3>1. i \in InStreams /\ FedBy(T, c, s, n, player, i)
      BY <1>4, <2>1, LiveFacts DEF FedBy
    <3> QED
      BY <1>3, <1>8, <2>1, <2>2, <3>1, PlayedGood
  <2>3. ASSUME NEW t \in readers, Played(c, t, L, InFile(c, s), s) PROVE Good(conn, links, V)'
    <3>1. PlayerIn(T[c], s, n, t) /\ FedBy(T, c, s, n, t, InFile(c, s)) /\ InFile(c, s) \in InStreams
      BY <1>3, <1>4, <1>5, <1>7, <1>10, Places DEF PlayerIn, FedBy
    <3> QED
      BY <1>3, <1>8, <2>3, <3>1, PlayedGood
  <2>4. ASSUME LiveStreams(T, n) = {}, conn' = [conn EXCEPT ![c] = player], links' = L
        PROVE  Good(conn, links, V)'
    <3>1. FedBy(T, c, s, n, player, NoStream)
      BY <1>4, <2>1, <2>4, LiveFacts DEF FedBy
    <3>2. OneFed(L, L, OutNet(c, s), NoStream)
      BY <1>3, <1>9 DEF OneFed, Good, Typed
    <3>3. Good([T EXCEPT ![c] = player], L, V)
      BY <1>3, <2>1, <3>1, <3>2, PlayerGood
    <3>4. conn' = [T EXCEPT ![c] = player]
      BY <1>2, <1>8, <2>4
    <3> QED
      BY <2>4, <3>3, <3>4
  <2>5. ASSUME conn' = [conn EXCEPT ![c] = Failed(closed)], links' = L PROVE Good(conn, links, V)'
    <3>1. Good([T EXCEPT ![c] = Failed(T[c])], L, V)
      BY <1>3, <1>4, FailedGood
    <3>2. conn' = [T EXCEPT ![c] = Failed(T[c])]
      BY <1>2, <1>4, <1>8, <2>5
    <3> QED
      BY <2>5, <3>1, <3>2
  <2> QED
    BY <1>1, <2>2, <2>3, <2>4, <2>5 DEF readers
<1>11. CASE player.state = "failed"
  <2>1. Neutralised(T[c], s, player)
    BY <1>3, <1>4, <1>5, <1>11 DEF Neutralised
  <2>2. ASSUME NEW i \in LiveStreams(T, n), Played(c, player, L, i, s) PROVE Good(conn, links, V)'
    BY <1>3, <1>4, <1>8, <2>1, <2>2, PlayedGood, LiveFacts
  <2>3. ASSUME NEW t \in readers, Played(c, t, L, InFile(c, s), s) PROVE Good(conn, links, V)'
    <3>1. Neutralised(T[c], s, t) /\ InFile(c, s) \in InStreams
      BY <1>3, <1>4, <1>5, <1>7, <1>11, Places DEF Neutralised
    <3> QED
      BY <1>3, <1>8, <2>3, <3>1, PlayedGood
  <2>4. ASSUME conn' = [conn EXCEPT ![c] = player], links' = L PROVE Good(conn, links, V)'
    <3>1. Good([T EXCEPT ![c] = player], L, V)
      BY <1>3, <2>1, NeutralGood
    <3>2. conn' = [T EXCEPT ![c] = player]
      BY <1>2, <1>8, <2>4
    <3> QED
      BY <2>4, <3>1, <3>2
  <2>5. ASSUME conn' = [conn EXCEPT ![c] = Failed(closed)], links' = L PROVE Good(conn, links, V)'
    <3>1. Good([T EXCEPT ![c] = Failed(T[c])], L, V)
      BY <1>3, <1>4, FailedGood
    <3>2. conn' = [T EXCEPT ![c] = Failed(T[c])]
      BY <1>2, <1>4, <1>8, <2>5
    <3> QED
      BY <2>5, <3>1, <3>2
  <2> QED
    BY <1>1, <2>2, <2>3, <2>4, <2>5 DEF readers
<1> QED
  BY <1>5, <1>10, <1>11
-----------------------------------------------------------------------------
(***************************************************************************)
(* Publishing: the players that wait for the name are linked.              *)
(***************************************************************************)
PublisherIn(t, s, n, u) ==
  /\ u \in Tables /\ t.state = "open" /\ u.state \in {"open", "failed"}
  /\ t.streams[s].kind = "neutral" /\ u.streams[s].kind = "in" /\ u.streams[s].name = n
  /\ u.files = t.files /\ u.signaled = t.signaled /\ t.records \subseteq u.records
  /\ \A r \in Ids : r # s => u.streams[r] = t.streams[r]

Waits(T, L, d, r, n) ==
  /\ Registered(T[d]) /\ T[d].streams[r].kind = "out" /\ T[d].streams[r].name = n
  /\ L.feeder[OutNet(d, r)] = NoStream

Served(T, L, K, c, s, n, u) ==
  /\ K \in Links /\ Mutual(K)
  /\ \A d \in Conns, r \in Ids :
        /\ K.feeder[OutNet(d, r)] = IF Waits(T, L, d, r, n) THEN InNet(c, s) ELSE L.feeder[OutNet(d, r)]
        /\ \/ K.feeder[OutFile(d, r)] = L.feeder[OutFile(d, r)]
           \/ d = c /\ r = s /\ K.feeder[OutFile(d, r)] = InNet(c, s) /\ s \in u.records

LEMMA PublisherGood ==
  ASSUME NEW V, NEW T, NEW L, Good(T, L, V), NEW c \in Conns, NEW s \in Ids, NEW n, NEW u, NEW K,
         PublisherIn(T[c], s, n, u), Served(T, L, K, c, s, n, u),
         \A d \in Conns, r \in Ids : ~IsPublished(T, d, r, n)
  PROVE  Good([T EXCEPT ![c] = u], K, V)
<1> DEFINE U == [T EXCEPT ![c] = u]
<1>1. /\ U \in [Conns -> Tables]
      /\ \A d \in Conns : /\ U[d].state = "open" => T[d].state = "open"
                          /\ U[d].state = "none" => T[d].state = "none" /\ U[d] = T[d]
                          /\ U[d].files = T[d].files /\ U[d].signaled = T[d].signaled
                          /\ T[d].records \subseteq U[d].records
      /\ \A d \in Conns, r \in Ids : d # c \/ r # s => U[d].streams[r] = T[d].streams[r]
      /\ T[c].streams[s].kind = "neutral"
      /\ U[c].streams[s].kind = "in" /\ U[c].streams[s].name = n /\ U[c] = u
  BY DEF Good, Typed, PublisherIn
<1>2. \A d \in Conns, r \in Ids :
        /\ K.feeder[OutNet(d, r)] = IF Waits(T, L, d, r, n) THEN InNet(c, s) ELSE L.feeder[OutNet(d, r)]
        /\ \/ K.feeder[OutFile(d, r)] = L.feeder[OutFile(d, r)]
           \/ d = c /\ r = s /\ K.feeder[OutFile(d, r)] = InNet(c, s) /\ s \in U[c].records
  BY <1>1 DEF Served
<1>3. \A e \in Conns, q \in Ids : \A m :
        /\ IsIn(U, e, q, m) <=> (e = c /\ q = s /\ m = n) \/ IsIn(T, e, q, m)
        /\ IsPublished(U, e, q, m) <=> (e = c /\ q = s /\ m = n) \/ IsPublished(T, e, q, m)
        /\ Registered(U[e]) <=> Registered(T[e])
  <2>1. \A e \in Conns : Registered(U[e]) <=> Registered(T[e])
    BY <1>1 DEF Registered, PublisherIn, Good, Typed
  <2>2. Registered(U[c])
    BY <1>1 DEF Registered, PublisherIn
  <2> QED
    BY <1>1, <2>1, <2>2 DEF IsIn, IsPublished
<1> HIDE DEF U
<1>4. Typed(U, K) /\ NoneEmpty(U)
  BY <1>1 DEF Good, Typed, NoneEmpty, Served
<1>5. PlayersFed(U, K)
  <2> SUFFICES ASSUME NEW d \in Conns, NEW r \in Ids, K.feeder[OutNet(d, r)] # NoStream
               PROVE  /\ U[d].streams[r].kind = "out"
                      /\ \/ K.feeder[OutNet(d, r)] = Mux
                         \/ K.feeder[OutNet(d, r)] = InFile(d, r) /\ r \in U[d].files
                         \/ \E e \in Conns, q \in Ids :
                              K.feeder[OutNet(d, r)] = InNet(e, q) /\ IsIn(U, e, q, U[d].streams[r].name)
    BY DEF PlayersFed
  <2>1. CASE Waits(T, L, d, r, n)
    BY <1>1, <1>2, <1>3, <2>1 DEF Waits
  <2>2. CASE ~Waits(T, L, d, r, n)
    <3>1. K.feeder[OutNet(d, r)] = L.feeder[OutNet(d, r)] /\ T[d].streams[r].kind = "out"
      BY <1>2, <2>2 DEF Good, PlayersFed
    <3>2. U[d].streams[r] = T[d].streams[r]
      BY <1>1, <3>1
    <3> QED
      BY <1>1, <1>3, <3>1, <3>2 DEF Good, PlayersFed
  <2> QED
    BY <2>1, <2>2
<1>6. RecordsFed(U, K)
  BY <1>1, <1>2 DEF Good, RecordsFed
<1>7. FilesPlayed(U, K)
  <2> SUFFICES ASSUME NEW d \in Conns, NEW r \in Ids
               PROVE  /\ r \in U[d].files /\ U[d].state = "open" => K.feeder[OutNet(d, r)] = InFile(d, r)
                      /\ r \in U[d].signaled => r \in U[d].files /\ K.feeder[OutNet(d, r)] = InFile(d, r)
    BY DEF FilesPlayed
  <2>1. L.feeder[OutNet(d, r)] = InFile(d, r) => K.feeder[OutNet(d, r)] = InFile(d, r)
    BY <1>2, Places DEF Waits
  <2> QED
    BY <1>1, <2>1 DEF Good, FilesPlayed
<1>8. NamesOnce(U)
  <2> SUFFICES ASSUME NEW d \in Conns, NEW e \in Conns, NEW q \in Ids, NEW r \in Ids,
                      Registered(U[d]), U[d].streams[q].kind = "in",
                      IsPublished(U, e, r, U[d].streams[q].name)
               PROVE  d = e /\ q = r
    BY DEF NamesOnce
  <2>1. CASE d = c /\ q = s
    BY <1>1, <1>3, <2>1
  <2>2. CASE ~(d = c /\ q = s)
    <3>1. U[d].streams[q] = T[d].streams[q] /\ Registered(T[d])
      BY <1>1, <1>3, <2>2
    <3>2. IsPublished(T, d, q, T[d].streams[q].name)
      BY <3>1 DEF IsPublished, IsIn
    <3>3. IsPublished(T, e, r, T[d].streams[q].name)
      BY <1>3, <3>1, <3>2
    <3> QED
      BY <3>1, <3>3 DEF Good, NamesOnce
  <2> QED
    BY <2>1, <2>2
<1>9. CameraPlayed(U, K)
  <2> SUFFICES ASSUME NEW d \in Conns, NEW r \in Ids, U[d].state = "open",
                      U[d].streams[r].kind = "out", U[d].streams[r].name = Camera
               PROVE  K.feeder[OutNet(d, r)] = Mux \/ K.feeder[OutNet(d, r)] = InFile(d, r)
    BY DEF CameraPlayed
  <2>1. U[d].streams[r] = T[d].streams[r] /\ T[d].state = "open" /\ Registered(T[d])
    BY <1>1 DEF Registered
  <2>2. L.feeder[OutNet(d, r)] = Mux \/ L.feeder[OutNet(d, r)] = InFile(d, r)
    BY <2>1 DEF Good, CameraPlayed
  <2> QED
    BY <1>2, <2>2, Places DEF Waits
<1>10. WaitingUnserved(U, K, V)
  <2> SUFFICES ASSUME NEW d \in Conns, NEW r \in Ids, NEW e \in Conns, NEW q \in Ids,
                      <<d, r>> \notin V, U[d].state = "open", U[d].streams[r].kind = "out",
                      K.feeder[OutNet(d, r)] = NoStream
               PROVE  ~IsPublished(U, e, q, U[d].streams[r].name)
    BY DEF WaitingUnserved
  <2>1. U[d].streams[r] = T[d].streams[r] /\ T[d].state = "open" /\ Registered(T[d])
    BY <1>1 DEF Registered
  <2>2. L.feeder[OutNet(d, r)] = NoStream /\ ~Waits(T, L, d, r, n)
    BY <1>2, Places
  <2>3. ~IsPublished(T, e, q, U[d].streams[r].name) /\ U[d].streams[r].name # n
    BY <2>1, <2>2 DEF Good, WaitingUnserved, Waits
  <2> QED
    BY <1>3, <2>3
<1> QED
  BY <1>4, <1>5, <1>6, <1>7, <1>8, <1>9, <1>10 DEF Good, U

LEMMA WaitingFacts ==
  ASSUME conn \in [Conns -> Tables], NEW c \in Conns, NEW n \in Names
  PROVE  LET W == GetWaitingSubscribers(c, n) IN
         /\ W \in SUBSET OutStreams /\ \A o \in W : links.feeder[o] = NoStream
         /\ \A d \in Conns, r \in Ids :
              (OutNet(d, r) \in W <=> Waits(conn, links, d, r, n)) /\ OutFile(d, r) \notin W
<1> DEFINE W == GetWaitingSubscribers(c, n)
<1>1. \A d \in Conns, r \in Ids :
        conn[d].streams[r] = [kind |-> "out", name |-> n]
          <=> conn[d].streams[r].kind = "out" /\ conn[d].streams[r].name = n
  <2> SUFFICES ASSUME NEW d \in Conns, NEW r \in Ids
               PROVE  conn[d].streams[r] = [kind |-> "out", name |-> n]
                        <=> conn[d].streams[r].kind = "out" /\ conn[d].streams[r].name = n
    OBVIOUS
  <2>1. conn[d].streams[r] \in Entries
    BY DEF Tables
  <2> QED
    BY <2>1 DEF Entries
<1>2. ASSUME NEW o \in W
      PROVE  \E d \in Conns, r \in Ids : o = OutNet(d, r) /\ Waits(conn, links, d, r, n)
  <2>1. PICK p \in Conns \X Ids :
          /\ o = OutNet(p[1], p[2]) /\ conn[p[1]].streams[p[2]] = [kind |-> "out", name |-> n]
          /\ ~IsLinked(links, OutNet(p[1], p[2])) /\ Registered(conn[p[1]])
    BY DEF GetWaitingSubscribers
  <2> QED
    BY <1>1, <2>1 DEF Waits, IsLinked
<1>3. ASSUME NEW d \in Conns, NEW r \in Ids, Waits(conn, links, d, r, n) PROVE OutNet(d, r) \in W
  <2>1. /\ conn[d].streams[r] = [kind |-> "out", name |-> n] /\ ~IsLinked(links, OutNet(d, r))
        /\ Registered(conn[d])
    BY <1>1, <1>3 DEF Waits, IsLinked
  <2>2. <<d, r>> \in Conns \X Ids /\ <<d, r>>[1] = d /\ <<d, r>>[2] = r
    OBVIOUS
  <2> QED
    BY <2>1, <2>2 DEF GetWaitingSubscribers
<1> HIDE DEF W
<1>4. W \in SUBSET OutStreams /\ \A o \in W : links.feeder[o] = NoStream
  BY <1>2, Places DEF Waits
<1>5. \A d \in Conns, r \in Ids :
        (OutNet(d, r) \in W <=> Waits(conn, links, d, r, n)) /\ OutFile(d, r) \notin W
  BY <1>2, <1>3, Places
<1> QED
  BY <1>4, <1>5 DEF W

LEMMA PublishGood ==
  ASSUME NEW V, Good(conn, links, V), NEW c \in Conns, NEW s \in Ids, NEW n \in Names, Publish(c, s, n)
  PROVE  Good(conn, links, V)'
<1> DEFINE i == InNet(c, s)
           W == GetWaitingSubscribers(c, n)
           F == {OutFile(c, s)}
           L == Linked(links, i, W)
           K == Linked(L, i, F)
           t == [conn[c] EXCEPT !.streams[s] = [kind |-> "in", name |-> n]]
           r == [t EXCEPT !.records = @ \cup {s}]
<1>1. /\ conn \in [Conns -> Tables] /\ links \in Links /\ Mutual(links)
      /\ conn[c] \in Tables /\ conn[c].state = "open"
  BY DEF Good, Typed, Publish
<1>2. CASE conn[c].streams[s].kind # "neutral"
  <2>1. conn' = [conn EXCEPT ![c] = Failed(conn[c])] /\ links' = links
    BY <1>2 DEF Publish
  <2> QED
    BY <1>1, <2>1, FailedGood
<1>3. CASE conn[c].streams[s].kind = "neutral"
  <2>1. \/ conn' = [conn EXCEPT ![c] = t] /\ links' = L
        \/ conn' = [conn EXCEPT ![c] = r] /\ links' = K
        \/ conn' = [conn EXCEPT ![c] = Failed(t)] /\ links' = L
    BY <1>3 DEF Publish
  <2>2. /\ W \in SUBSET OutStreams /\ \A o \in W : links.feeder[o] = NoStream
        /\ \A d \in Conns, q \in Ids :
             (OutNet(d, q) \in W <=> Waits(conn, links, d, q, n)) /\ OutFile(d, q) \notin W
    BY <1>1, WaitingFacts
  <2>3. i \in InStreams
    BY Places
  <2> HIDE DEF W, i
  <2>4. /\ L \in Links /\ Mutual(L)
        /\ \A o \in OutStreams : L.feeder[o] = IF o \in W THEN i ELSE links.feeder[o]
    BY <1>1, <2>2, <2>3, LinkedExact
  <2> HIDE DEF L
  <2>5. F \in SUBSET OutStreams /\ \A o \in F : L.feeder[o] = NoStream
    <3>1. links.feeder[OutFile(c, s)] = NoStream
      BY <1>3 DEF Good, RecordsFed
    <3> QED
      BY <2>2, <2>4, <3>1, Places
  <2> HIDE DEF F
  <2>6. /\ K \in Links /\ Mutual(K)
        /\ \A o \in OutStreams : K.feeder[o] = IF o \in F THEN i ELSE L.feeder[o]
    BY <2>3, <2>4, <2>5, LinkedExact
  <2> HIDE DEF K
  <2>7. PublisherIn(conn[c], s, n, t) /\ PublisherIn(conn[c], s, n, Failed(t)) /\ PublisherIn(conn[c], s, n, r)
        /\ s \in r.records
    <3> DEFINE made == [conn[c].streams EXCEPT ![s] = [kind |-> "in", name |-> n]]
    <3>1. /\ made \in [Ids -> Entries] /\ made[s] = [kind |-> "in", name |-> n]
          /\ \A q \in Ids : q # s => made[q] = conn[c].streams[q]
      BY <1>1 DEF Tables, Entries, Kinds
    <3>2. t = [conn[c] EXCEPT !.streams = made]
      OBVIOUS
    <3> HIDE DEF made, t
    <3>3. /\ t \in Tables /\ t.state = "open" /\ t.streams = made /\ t.files = conn[c].files
          /\ t.signaled = conn[c].signaled /\ t.records = conn[c].records
      BY <1>1, <3>1, <3>2 DEF Tables
    <3>4. /\ Failed(t) \in Tables /\ Failed(t).state = "failed" /\ Failed(t).streams = made
          /\ Failed(t).files = conn[c].files
          /\ Failed(t).signaled = conn[c].signaled /\ Failed(t).records = conn[c].records
      BY <3>3 DEF Tables, Failed
    <3>5. /\ r \in Tables /\ r.state = "open" /\ r.streams = made /\ r.files = conn[c].files
          /\ r.signaled = conn[c].signaled /\ r.records = conn[c].records \cup {s}
      BY <3>3 DEF Tables
    <3> HIDE DEF r
    <3> QED
      BY <1>1, <1>3, <3>1, <3>3, <3>4, <3>5 DEF PublisherIn
  <2>8. \A d \in Conns, q \in Ids : ~IsPublished(conn, d, q, n)
    BY <1>1, PublishedFacts DEF Publish
  <2> HIDE DEF t, r
  <2>9. ASSUME NEW u PROVE Served(conn, links, L, c, s, n, u)
    BY <2>2, <2>4, Places DEF Served, i
  <2>10. Served(conn, links, K, c, s, n, r)
    <3>1. \A d \in Conns, q \in Ids :
            /\ OutNet(d, q) \notin F
            /\ OutFile(d, q) \in F => d = c /\ q = s
      BY Places DEF F
    <3> QED
      BY <2>2, <2>4, <2>6, <2>7, <3>1, Places DEF Served, i
  <2>11. ASSUME conn' = [conn EXCEPT ![c] = t], links' = L PROVE Good(conn, links, V)'
    BY <2>7, <2>8, <2>9, <2>11, PublisherGood
  <2>12. ASSUME conn' = [conn EXCEPT ![c] = Failed(t)], links' = L PROVE Good(conn, links, V)'
    BY <2>7, <2>8, <2>9, <2>12, PublisherGood
  <2>13. ASSUME conn' = [conn EXCEPT ![c] = r], links' = K PROVE Good(conn, links, V)'
    BY <2>7, <2>8, <2>10, <2>13, PublisherGood
  <2> QED
    BY <2>1, <2>11, <2>12, <2>13
<1> QED
  BY <1>2, <1>3

-----------------------------------------------------------------------------
(***************************************************************************)
(* The theorems.                                                           *)
(***************************************************************************)
LEMMA StepGood ==
  ASSUME NEW V, Good(conn, links, V), [Next]_vars,
         \A c \in Conns : CleanupDead(c) =>
           \/ Registered(conn[c])
           \/ \A d \in Conns, r, s \in Ids : links.feeder[OutNet(d, r)] = InNet(c, s) => <<d, r>> \in V
  PROVE  Good(conn, links, V)'
<1>1. ASSUME NEW c \in Conns, Open(c) PROVE Good(conn, links, V)'
  BY <1>1, OpenGood
<1>2. ASSUME NEW c \in Conns, Disconnect(c) PROVE Good(conn, links, V)'
  BY <1>2, FailedGood DEF Disconnect
<1>3. ASSUME NEW c \in Conns, EnqueueForDelete(c) PROVE Good(conn, links, V)'
  <2>1. conn' = [conn EXCEPT ![c] = InState(conn[c], "enqueued")] /\ links' = links
    BY <1>3 DEF EnqueueForDelete, Enqueued, InState
  <2>2. conn[c].state # "none"
    BY <1>3 DEF EnqueueForDelete, Registered
  <2>3. Good([conn EXCEPT ![c] = InState(conn[c], "enqueued")], links, V)
    BY <2>2, DoomOneGood
  <2> QED
    BY <2>1, <2>3
<1>4. ASSUME NEW c \in Conns, CleanupDead(c) PROVE Good(conn, links, V)'
  BY <1>4, CleanupGood
<1>5. ASSUME NEW c \in Conns, CreateStream(c) PROVE Good(conn, links, V)'
  BY <1>5, CreateGood
<1>6. ASSUME NEW c \in Conns, NEW s \in Ids, NEW next \in {Neutral, Empty}, Close(c, s, next)
      PROVE  Good(conn, links, V)'
  BY <1>6, CloseGood DEF Close
<1>7. ASSUME NEW c \in Conns, NEW s \in Ids, NEW n \in Names, Publish(c, s, n) PROVE Good(conn, links, V)'
  BY <1>7, PublishGood
<1>8. ASSUME NEW c \in Conns, NEW s \in Ids, NEW n \in Names, NEW start, Play(c, s, n, start)
      PROVE  Good(conn, links, V)'
  BY <1>8, PlayGood
<1>9. ASSUME ResolutionChanged PROVE Good(conn, links, V)'
  BY <1>9, ResolutionGood
<1>10. CASE UNCHANGED vars
  BY <1>10 DEF vars
<1> QED
  BY <1>1, <1>2, <1>3, <1>4, <1>5, <1>6, <1>7, <1>8, <1>9, <1>10
  DEF Next, CloseStream, DeleteStream, ReleaseStream

\* The invariant, which says nothing of who waits.
Players == Conns \X Ids
Fed == Good(conn, links, Players)

LEMMA FedStep == Fed /\ [Next]_vars => Fed'
<1> SUFFICES ASSUME Fed, [Next]_vars PROVE Fed'
  OBVIOUS
<1> DEFINE V == Players
<1>1. \A d \in Conns, r \in Ids : <<d, r>> \in V
  BY DEF Players
<1> HIDE DEF V
<1>2. Good(conn, links, V)'
  <2>1. Good(conn, links, V)
    BY DEF Fed, V
  <2> QED
    BY <1>1, <2>1, StepGood
<1> QED
  BY <1>2 DEF Fed, V

LEMMA SpecGood == Spec => []Fed
<1>1. Init => Fed
  BY InitGood DEF Fed
<1> QED
  BY <1>1, FedStep, PTL DEF Spec

\* Links are exact: the two pointers of a link are set and cleared together and
\* both streams exist, however publications, players and connections end
\* (~BaseInStream, ~BaseOutStream, ~BaseRTMPProtocol).
THEOREM LinksTheorem == Spec => []LinksExact
<1>1. Fed => LinksExact
  <2> SUFFICES ASSUME Fed, NEW o \in OutStreams, IsLinked(links, o)
               PROVE  Live(o) /\ Live(links.feeder[o])
    BY DEF LinksExact, Fed, Good, Typed
  <2>1. links.feeder[o] # NoStream
    BY DEF IsLinked
  <2>2. PICK c \in Conns, s \in Ids : o = OutNet(c, s) \/ o = OutFile(c, s)
    BY OutCases
  <2>3. CASE o = OutNet(c, s)
    BY <2>1, <2>3 DEF Fed, Good, PlayersFed, IsIn, Live
  <2>4. CASE o = OutFile(c, s)
    BY <2>1, <2>4 DEF Fed, Good, RecordsFed, Live
  <2> QED
    BY <2>2, <2>3, <2>4
<1> QED
  BY <1>1, SpecGood, PTL

\* The tables of the connections and the links keep their types, for any number
\* of connections, streams and channels.
THEOREM StreamsTyped == Spec => []TypeOK
<1>1. Fed => TypeOK
  BY DEF Fed, Good, Typed, TypeOK
<1> QED
  BY <1>1, SpecGood, PTL

\* No file is read for nobody, and ReadyForSend finds no deleted player.
THEOREM PlayersTheorem == Spec => []FilesHavePlayers
<1>1. Fed => FilesHavePlayers
  BY DEF Fed, Good, FilesPlayed, FilesHavePlayers, FedFromFile
<1> QED
  BY <1>1, SpecGood, PTL

\* Whoever waits for a name that is live is one of those in V.
LEMMA WaitingExcused ==
  ASSUME NEW V, NEW T, NEW L, Good(T, L, V), NEW c \in Conns, NEW s \in Ids,
         T[c].state = "open", T[c].streams[s].kind = "out", L.feeder[OutNet(c, s)] = NoStream,
         LiveStreams(T, T[c].streams[s].name) # {}
  PROVE  <<c, s>> \in V
<1> DEFINE n == T[c].streams[s].name
<1>1. T \in [Conns -> Tables] /\ n # Camera
  BY Places DEF Good, Typed, CameraPlayed
<1>2. PICK d \in Conns, r \in Ids : IsPublished(T, d, r, n)
  BY <1>1, LiveFacts
<1> QED
  BY <1>2 DEF Good, WaitingUnserved

\* The places whose feeder is deleted by the step with an enqueued connection.
LeftBehind ==
  {p \in Players : \E d \in Conns, r \in Ids :
      /\ links.feeder[OutNet(p[1], p[2])] = InNet(d, r)
      /\ conn[d].state = "enqueued" /\ conn'[d].state = "none"}

Waiting == {p \in Players : WaitsInVain(p[1], p[2])}

\* The invariant at this state, with those who wait already left out of it.
LEMMA FedExact ==
  ASSUME Fed, NEW V, Waiting \subseteq V
  PROVE  Good(conn, links, V)
<1>1. Good(conn, links, Players)
  BY DEF Fed
<1>2. WaitingUnserved(conn, links, V)
  <2> SUFFICES ASSUME NEW c \in Conns, NEW s \in Ids, NEW d \in Conns, NEW r \in Ids,
                      <<c, s>> \notin V, conn[c].state = "open", conn[c].streams[s].kind = "out",
                      links.feeder[OutNet(c, s)] = NoStream,
                      IsPublished(conn, d, r, conn[c].streams[s].name)
               PROVE  FALSE
    BY DEF WaitingUnserved
  <2>1. conn \in [Conns -> Tables] /\ conn[c].streams[s].name # Camera
    BY <1>1, Places DEF Good, Typed, CameraPlayed
  <2>2. conn[c].streams[s].name \in Names \cup {NoName}
    BY <2>1 DEF Tables, Entries
  <2>3. LiveStreams(conn, conn[c].streams[s].name) # {}
    BY <2>1, <2>2, LiveFacts
  <2>4. WaitsInVain(c, s)
    BY <2>3 DEF WaitsInVain, IsLinked
  <2>5. <<c, s>> \in Players /\ <<c, s>>[1] = c /\ <<c, s>>[2] = s
    BY DEF Players
  <2>6. <<c, s>> \in Waiting
    BY <2>4, <2>5 DEF Waiting
  <2> QED
    BY <2>6
<1> QED
  BY <1>1, <1>2 DEF Good

LEMMA WaitingStep ==
  ASSUME Fed, [Next]_vars, NEW c \in Conns, NEW s \in Ids, ~WaitsInVain(c, s), WaitsInVain(c, s)'
  PROVE  \E d \in Conns, r \in Ids : /\ links.feeder[OutNet(c, s)] = InNet(d, r)
                                     /\ conn[d].state = "enqueued" /\ conn'[d].state = "none"
<1>0. PICK V : V = Waiting \cup LeftBehind
  OBVIOUS
<1>1. Waiting \subseteq V
  BY <1>0
<1>2. \A d \in Conns : CleanupDead(d) =>
        \/ Registered(conn[d])
        \/ \A b \in Conns, q \in Ids, r \in Ids :
              links.feeder[OutNet(b, q)] = InNet(d, r) => <<b, q>> \in V
  <2> SUFFICES ASSUME NEW d \in Conns, CleanupDead(d), ~Registered(conn[d]),
                      NEW b \in Conns, NEW q \in Ids, NEW r \in Ids,
                      links.feeder[OutNet(b, q)] = InNet(d, r)
               PROVE  <<b, q>> \in V
    OBVIOUS
  <2>1. conn[d].state = "enqueued"
    BY DEF CleanupDead, Registered
  <2>2. conn'[d].state = "none"
    BY DEF CleanupDead, Closed, Fed, Good, Typed
  <2>3. <<b, q>> \in Players /\ <<b, q>>[1] = b /\ <<b, q>>[2] = q
    BY DEF Players
  <2> QED
    BY <1>0, <2>1, <2>2, <2>3 DEF LeftBehind
<1>3. Good(conn, links, V)
  BY <1>1, FedExact
<1>4. Good(conn, links, V)'
  BY <1>2, <1>3, StepGood
<1>5. <<c, s>> \in V
  <2>1. Good(conn', links', V)
    BY <1>4
  <2>2. /\ conn'[c].state = "open" /\ conn'[c].streams[s].kind = "out"
        /\ links'.feeder[OutNet(c, s)] = NoStream
        /\ LiveStreams(conn', conn'[c].streams[s].name) # {}
    BY DEF WaitsInVain, IsLinked
  <2> QED
    BY <2>1, <2>2, WaitingExcused
<1>6. <<c, s>>[1] = c /\ <<c, s>>[2] = s
  OBVIOUS
<1>7. <<c, s>> \notin Waiting
  BY <1>6 DEF Waiting
<1>8. <<c, s>> \in LeftBehind
  BY <1>0, <1>5, <1>7
<1> QED
  BY <1>6, <1>8 DEF LeftBehind

\* A player begins to wait beside a live stream of its name in one case only: an
\* enqueued connection, whose publication it still hung on, is deleted (publish
\* links whoever waits, play looks for what is live, and every other end of a
\* publication leaves no other one of the name).
THEOREM WaitingTheorem == Spec => NobodyWaitsInVain
<1> DEFINE Excused == \A c \in Conns, s \in Ids : ~WaitsInVain(c, s) /\ WaitsInVain(c, s)' =>
                        \E d \in Conns, r \in Ids :
                           /\ links.feeder[OutNet(c, s)] = InNet(d, r)
                           /\ conn[d].state = "enqueued" /\ conn'[d].state = "none"
<1>1. Fed /\ [Next]_vars => [Excused]_vars
  BY WaitingStep
<1> QED
  BY <1>1, SpecGood, PTL DEF Spec, NobodyWaitsInVain

-----------------------------------------------------------------------------
(***************************************************************************)
(* The channels: a player takes one when it is made and gives it back when *)
(* it is closed, and nothing else does either.                             *)
(***************************************************************************)
Plays(t, s) == t.streams[s].kind = "out"
PlayersOf(t) == {s \in Ids : Plays(t, s)}
Balanced(t) == t.free + Cardinality(PlayersOf(t)) = MaxOuts

\* From t to u, entry s at most begins or ends to be a player.
Moved(t, s, u) ==
  /\ u \in Tables
  /\ \A r \in Ids : r # s => (Plays(u, r) <=> Plays(t, r))
  /\ \/ (Plays(u, s) <=> Plays(t, s)) /\ u.free = t.free
     \/ Plays(t, s) /\ ~Plays(u, s) /\ u.free = t.free + 1
     \/ ~Plays(t, s) /\ Plays(u, s) /\ u.free = t.free - 1

LEMMA MovedBalanced ==
  ASSUME NEW t \in Tables, Balanced(t), NEW s \in Ids, NEW u, Moved(t, s, u)
  PROVE  Balanced(u)
<1>0. IsFiniteSet(PlayersOf(t)) /\ Cardinality(PlayersOf(t)) \in Nat
  <2>1. IsFiniteSet(Ids)
    BY SizesAssumption, FS_Interval DEF Ids
  <2>2. PlayersOf(t) \in SUBSET Ids
    BY DEF PlayersOf
  <2> QED
    BY <2>1, <2>2, FS_Subset, FS_CardinalityType
<1>1. t.free \in Nat /\ u.free \in Nat /\ MaxOuts \in Nat
  BY SizesAssumption DEF Tables, Moved
<1>2. CASE (Plays(u, s) <=> Plays(t, s)) /\ u.free = t.free
  <2>1. PlayersOf(u) = PlayersOf(t)
    BY <1>2 DEF PlayersOf, Moved
  <2> QED
    BY <1>2, <2>1 DEF Balanced
<1>3. CASE Plays(t, s) /\ ~Plays(u, s) /\ u.free = t.free + 1
  <2>1. PlayersOf(u) = PlayersOf(t) \ {s} /\ s \in PlayersOf(t)
    BY <1>3 DEF PlayersOf, Moved
  <2>2. Cardinality(PlayersOf(u)) = Cardinality(PlayersOf(t)) - 1
    BY <1>0, <2>1, FS_RemoveElement
  <2> QED
    BY <1>0, <1>1, <1>3, <2>2 DEF Balanced
<1>4. CASE ~Plays(t, s) /\ Plays(u, s) /\ u.free = t.free - 1
  <2>1. PlayersOf(u) = PlayersOf(t) \cup {s} /\ s \notin PlayersOf(t)
    BY <1>4 DEF PlayersOf, Moved
  <2>2. Cardinality(PlayersOf(u)) = Cardinality(PlayersOf(t)) + 1
    BY <1>0, <2>1, FS_AddElement
  <2> QED
    BY <1>0, <1>1, <1>4, <2>2 DEF Balanced
<1> QED
  BY <1>2, <1>3, <1>4 DEF Moved

\* Giving a connection up, or what a reader changes, moves no player.
LEMMA SameBalanced ==
  ASSUME NEW t, Balanced(t), NEW u, u.streams = t.streams, u.free = t.free
  PROVE  Balanced(u)
<1>1. PlayersOf(u) = PlayersOf(t)
  BY DEF PlayersOf, Plays
<1> QED
  BY <1>1 DEF Balanced

LEMMA ClosedBalanced == Balanced(Closed)
<1>1. PlayersOf(Closed) = {} /\ Closed.free = MaxOuts
  BY ClosedTyped DEF PlayersOf, Plays, Closed
<1> QED
  BY <1>1, SizesAssumption, FS_EmptySet DEF Balanced

LEMMA FailedBalanced ==
  ASSUME NEW t \in Tables, Balanced(t)
  PROVE  Balanced(Failed(t)) /\ Balanced(Enqueued(t))
<1>1. /\ Failed(t).streams = t.streams /\ Failed(t).free = t.free
      /\ Enqueued(t).streams = t.streams /\ Enqueued(t).free = t.free
  BY DEF Failed, Enqueued, Tables
<1> QED
  BY <1>1, SameBalanced

AllBalanced == \A c \in Conns : Balanced(conn[c])

\* One connection changes, and balances.
LEMMA OneBalanced ==
  ASSUME Fed, AllBalanced, NEW c \in Conns, NEW u, Balanced(u),
         conn' = [conn EXCEPT ![c] = u]
  PROVE  AllBalanced'
<1>1. \A d \in Conns : conn'[d] = IF d = c THEN u ELSE conn[d]
  BY DEF Fed, Good, Typed
<1>2. \A d \in Conns : Balanced(conn'[d])
  BY <1>1 DEF AllBalanced
<1> QED
  BY <1>2 DEF AllBalanced, Balanced, PlayersOf, Plays

LEMMA CloseBalanced ==
  ASSUME Fed, AllBalanced, NEW c \in Conns, NEW s \in Ids, NEW next \in {Neutral, Empty}
  PROVE  LET u == ClosedTable(c, s, next) IN u \in Tables /\ Balanced(u) /\ ~Plays(u, s)
<1> DEFINE u == ClosedTable(c, s, next)
<1>1. conn \in [Conns -> Tables] /\ conn[c] \in Tables /\ Balanced(conn[c])
  BY DEF Fed, Good, Typed, AllBalanced
<1>2. ClosedAs(conn[c], s, next, FedFromFile(c, s), u)
  BY <1>1, ClosedFacts
<1> HIDE DEF u
<1>3. Moved(conn[c], s, u)
  BY <1>2 DEF ClosedAs, Moved, Plays
<1>4. u \in Tables /\ ~Plays(u, s)
  BY <1>2 DEF ClosedAs, Plays
<1> QED
  BY <1>1, <1>3, <1>4, MovedBalanced DEF u

LEMMA PlayerBalanced ==
  ASSUME NEW t \in Tables, t.state = "open", Balanced(t), NEW s \in Ids, ~Plays(t, s), NEW n \in Names
  PROVE  LET u == CreateONS(t, s, n) IN u \in Tables /\ Balanced(u)
<1> DEFINE u == CreateONS(t, s, n)
<1>1. /\ u \in Tables /\ \A r \in Ids : r # s => u.streams[r] = t.streams[r]
      /\ \/ u.state = "open" /\ u.streams[s] = [kind |-> "out", name |-> n]
         \/ u.state = "failed" /\ u.streams[s].kind = "none"
  BY PlayerFields
<1>2. CASE t.free = 0
  <2>1. u.state = "failed" /\ u.free = t.free
    BY <1>2 DEF CreateONS, Failed, Tables
  <2> HIDE DEF u
  <2>2. Moved(t, s, u)
    BY <1>1, <2>1 DEF Moved, Plays
  <2> QED
    BY <1>1, <2>2, MovedBalanced DEF u
<1>3. CASE t.free # 0
  <2>1. u.state = "open" /\ u.free = t.free - 1
    BY <1>3 DEF CreateONS, Tables
  <2> HIDE DEF u
  <2>2. Moved(t, s, u)
    BY <1>1, <2>1 DEF Moved, Plays
  <2> QED
    BY <1>1, <2>2, MovedBalanced DEF u
<1> QED
  BY <1>2, <1>3

LEMMA StepBalanced ==
  ASSUME Fed, AllBalanced, [Next]_vars
  PROVE  AllBalanced'
<1>0. conn \in [Conns -> Tables] /\ \A c \in Conns : conn[c] \in Tables /\ Balanced(conn[c])
  BY DEF Fed, Good, Typed, AllBalanced
<1>1. ASSUME NEW c \in Conns, Open(c) PROVE AllBalanced'
  <2> DEFINE u == [Closed EXCEPT !.state = "open"]
  <2>1. u.streams = Closed.streams /\ u.free = Closed.free
    BY DEF Closed
  <2> HIDE DEF u
  <2>2. Balanced(u)
    BY <2>1, ClosedBalanced, SameBalanced
  <2> QED
    BY <1>1, <2>2, OneBalanced DEF Open, u
<1>2. ASSUME NEW c \in Conns,
             \/ conn' = [conn EXCEPT ![c] = Failed(conn[c])]
             \/ conn' = [conn EXCEPT ![c] = Enqueued(conn[c])]
      PROVE  AllBalanced'
  BY <1>0, <1>2, FailedBalanced, OneBalanced
<1>3. ASSUME NEW c \in Conns, CleanupDead(c) PROVE AllBalanced'
  BY <1>3, ClosedBalanced, OneBalanced DEF CleanupDead
<1>4. ASSUME NEW c \in Conns, CreateStream(c) PROVE AllBalanced'
  <2> DEFINE vacant == {s \in Ids : conn[c].streams[s].kind = "none"}
             k == CHOOSE s \in vacant : \A r \in vacant : s <= r
             u == [conn[c] EXCEPT !.streams[k] = Neutral]
  <2>1. conn' = [conn EXCEPT ![c] = Failed(conn[c])]
        \/ (vacant # {} /\ conn' = [conn EXCEPT ![c] = u])
    BY <1>4 DEF CreateStream
  <2>2. ASSUME vacant # {}, conn' = [conn EXCEPT ![c] = u] PROVE AllBalanced'
    <3>1. k \in vacant
      BY <2>2, FirstVacant
    <3>2. Neutral.kind = "neutral" /\ k \in Ids /\ ~Plays(conn[c], k)
      BY <3>1 DEF Neutral, Plays
    <3>3. conn'[c] = u /\ conn'[c] \in Tables
      <4>1. Fed'
        BY FedStep
      <4> QED
        BY <4>1, <2>2, <1>0 DEF Fed, Good, Typed
    <3> HIDE DEF k
    <3>4. u.free = conn[c].free /\ u.streams = [conn[c].streams EXCEPT ![k] = Neutral]
      BY <1>0 DEF Tables
    <3>5. u.streams[k] = Neutral /\ \A r \in Ids : r # k => u.streams[r] = conn[c].streams[r]
      BY <1>0, <3>2, <3>4 DEF Tables
    <3> HIDE DEF u
    <3>6. Moved(conn[c], k, u)
      BY <3>2, <3>3, <3>4, <3>5 DEF Moved, Plays
    <3> QED
      BY <1>0, <2>2, <3>2, <3>6, MovedBalanced, OneBalanced
  <2> QED
    BY <2>1, <2>2, <1>2
<1>5. ASSUME NEW c \in Conns, NEW s \in Ids, NEW next \in {Neutral, Empty}, Close(c, s, next)
      PROVE  AllBalanced'
  BY <1>5, CloseBalanced, OneBalanced DEF Close
<1>6. ASSUME NEW c \in Conns, NEW s \in Ids, NEW n \in Names, Publish(c, s, n) PROVE AllBalanced'
  <2> DEFINE t == [conn[c] EXCEPT !.streams[s] = [kind |-> "in", name |-> n]]
             r == [t EXCEPT !.records = @ \cup {s}]
  <2>1. CASE conn[c].streams[s].kind # "neutral"
    BY <1>2, <1>6, <2>1 DEF Publish
  <2>2. CASE conn[c].streams[s].kind = "neutral"
    <3>1. \/ conn' = [conn EXCEPT ![c] = t]
          \/ conn' = [conn EXCEPT ![c] = r]
          \/ conn' = [conn EXCEPT ![c] = Failed(t)]
      BY <1>6, <2>2 DEF Publish
    <3>2. /\ t.free = conn[c].free /\ t.streams[s] = [kind |-> "in", name |-> n]
          /\ \A q \in Ids : q # s => t.streams[q] = conn[c].streams[q]
          /\ t.streams \in [Ids -> Entries]
          /\ t \in Tables
      <4> DEFINE made == [conn[c].streams EXCEPT ![s] = [kind |-> "in", name |-> n]]
      <4>1. /\ made \in [Ids -> Entries] /\ made[s] = [kind |-> "in", name |-> n]
            /\ \A q \in Ids : q # s => made[q] = conn[c].streams[q]
        BY <1>0 DEF Tables, Entries, Kinds
      <4>2. t = [conn[c] EXCEPT !.streams = made]
        OBVIOUS
      <4> HIDE DEF made, t
      <4>3. t \in Tables /\ t.streams = made /\ t.free = conn[c].free
        BY <1>0, <4>1, <4>2 DEF Tables
      <4> QED
        BY <4>1, <4>3
    <3> HIDE DEF t
    <3>3. Moved(conn[c], s, t)
      BY <2>2, <3>2 DEF Moved, Plays
    <3>4. Balanced(t)
      BY <1>0, <3>3, MovedBalanced
    <3>5. r.streams = t.streams /\ r.free = t.free
      BY <3>2 DEF Tables
    <3> HIDE DEF r
    <3>6. Balanced(r) /\ Balanced(Failed(t))
      BY <3>2, <3>4, <3>5, SameBalanced, FailedBalanced
    <3> QED
      BY <3>1, <3>4, <3>6, OneBalanced
  <2> QED
    BY <2>1, <2>2
<1>7. ASSUME NEW c \in Conns, NEW s \in Ids, NEW n \in Names, NEW start, Play(c, s, n, start)
      PROVE  AllBalanced'
  <2> DEFINE closed == ClosedTable(c, s, Neutral)
             player == CreateONS(closed, s, n)
             onFile == [player EXCEPT !.files = @ \cup {s},
                                      !.signaled = IF player.state = "open" THEN @ \cup {s} ELSE @]
  <2>1. \E u \in {player, onFile, Failed(onFile), Failed(closed)} : conn' = [conn EXCEPT ![c] = u]
    BY <1>7 DEF Play, Played
  <2>2. closed \in Tables /\ Balanced(closed) /\ ~Plays(closed, s)
    BY CloseBalanced
  <2>3. closed.state = "open"
    BY <1>0, <1>7, ClosedFacts DEF Play, ClosedAs
  <2> HIDE DEF closed
  <2>4. player \in Tables /\ Balanced(player)
    BY <2>2, <2>3, PlayerBalanced
  <2> HIDE DEF player
  <2>5. onFile.streams = player.streams /\ onFile.free = player.free /\ onFile \in Tables
    <3>1. onFile \in Tables
      BY <2>4, ReaderFields
    <3> QED
      BY <2>4, <3>1 DEF Tables
  <2> HIDE DEF onFile
  <2>6. Balanced(onFile) /\ Balanced(Failed(onFile)) /\ Balanced(Failed(closed))
    BY <2>2, <2>4, <2>5, SameBalanced, FailedBalanced
  <2> QED
    BY <2>1, <2>2, <2>4, <2>6, OneBalanced
<1>8. ASSUME ResolutionChanged PROVE AllBalanced'
  <2>1. \A c \in Conns : conn'[c] = conn[c] \/ conn'[c] = Enqueued(conn[c])
    BY <1>8 DEF ResolutionChanged
  <2>2. \A c \in Conns : Balanced(conn'[c])
    BY <1>0, <2>1, FailedBalanced
  <2> QED
    BY <2>2 DEF AllBalanced, Balanced, PlayersOf, Plays
<1>9. CASE UNCHANGED vars
  BY <1>9 DEF vars, AllBalanced, Balanced, PlayersOf, Plays
<1>10. ASSUME NEW c \in Conns, Disconnect(c) \/ EnqueueForDelete(c) PROVE AllBalanced'
  BY <1>2, <1>10 DEF Disconnect, EnqueueForDelete
<1> QED
  BY <1>1, <1>3, <1>4, <1>5, <1>6, <1>7, <1>8, <1>9, <1>10
  DEF Next, CloseStream, DeleteStream, ReleaseStream

\* The channels in use and the free ones are all there are, so that those of
\* the players that are gone can be used again, however streams are closed,
\* replaced, deleted or lost with their connection (CreateONS, CloseStream).
THEOREM ChannelsTheorem == Spec => []ChannelsBalanced
<1>1. Init => AllBalanced
  <2> SUFFICES ASSUME Init, NEW c \in Conns PROVE Balanced(conn[c])
    BY DEF AllBalanced
  <2>1. conn[c] = Closed
    BY DEF Init
  <2> QED
    BY <2>1, ClosedBalanced
<1>2. AllBalanced => ChannelsBalanced
  BY DEF AllBalanced, Balanced, PlayersOf, Plays, ChannelsBalanced
<1>3. Fed /\ AllBalanced /\ [Next]_vars => AllBalanced'
  BY StepBalanced
<1> QED
  BY <1>1, <1>2, <1>3, SpecGood, PTL DEF Spec
=============================================================================
