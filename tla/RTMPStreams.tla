---------------------------- MODULE RTMPStreams ----------------------------
(***************************************************************************)
(* The streams of the RTMP connections: every connection has a table of    *)
(* streams (_streams), whose entries a client creates, publishes into,     *)
(* plays, closes and deletes, and which disappear with the connection.  A  *)
(* player is linked to the camera's AVMuxStream, to another client's       *)
(* publication or to a file that is read for it, or waits for a            *)
(* publication of the name it asked for; players and publications belong   *)
(* to different connections and end in any order.                          *)
(***************************************************************************)
EXTENDS Naturals, FiniteSets

CONSTANTS Conns,       \* RTMP connections
          Names,       \* stream names without a query
          Camera,      \* the name of the AVMuxStream (QIC_STREAM_MUX)
          FileNames,   \* the names that are a media file
          MaxStreams,  \* MAX_STREAMS_COUNT - 1
          MaxOuts,     \* the players one connection has channels for
          NoName, NoStream

ASSUME NamesAssumption == Camera \in Names /\ FileNames \subseteq Names /\ NoName \notin Names
ASSUME SizesAssumption == MaxStreams \in Nat \ {0} /\ MaxOuts \in Nat \ {0}

Ids == 1..MaxStreams
Kinds == {"none", "neutral", "in", "out"}

\* A stream is named by its place: an entry of the table, the file that is read
\* for it (_inFileStreams) or written from it (_pOutFileRTMPFLVStream), or the
\* AVMuxStream.
Mux == <<"mux">>
InNet(c, s)  == <<"in", c, s>>
InFile(c, s) == <<"infile", c, s>>
OutNet(c, s)  == <<"out", c, s>>
OutFile(c, s) == <<"outfile", c, s>>
InStreams  == {Mux} \cup {InNet(c, s) : c \in Conns, s \in Ids}
                    \cup {InFile(c, s) : c \in Conns, s \in Ids}
OutStreams == {OutNet(c, s) : c \in Conns, s \in Ids} \cup {OutFile(c, s) : c \in Conns, s \in Ids}

ASSUME NullAssumption == NoStream \notin InStreams

INSTANCE StreamLinks

VARIABLES conn,   \* every connection's state, table, files and free channels
          links   \* see StreamLinks

vars == <<conn, links>>

Empty == [kind |-> "none", name |-> NoName]
Neutral == [kind |-> "neutral", name |-> NoName]

Closed == [state |-> "none", streams |-> [s \in Ids |-> Empty], files |-> {},
           records |-> {}, signaled |-> {}, free |-> MaxOuts]

Init == conn = [c \in Conns |-> Closed] /\ links = NoLinks

-----------------------------------------------------------------------------
\* A handler that returns false gives up the connection's socket, whose deletion
\* at the end of the round (DeleteDeadHandlers) gives up the protocol.
Failed(t) == [t EXCEPT !.state = "failed"]

\* EnqueueForDelete gives up the protocol itself: without its application
\* (SetApplication(NULL)) its streams are no longer registered, while their links
\* stay until it is deleted.  Neither connection handles anything any more.
Enqueued(t) == [t EXCEPT !.state = "enqueued"]

\* The StreamsManager knows the connection's streams.
Registered(t) == t.state \in {"open", "failed"}

\* The connect request was accepted.
Open(c) ==
  /\ conn[c].state = "none"
  /\ conn' = [conn EXCEPT ![c] = [Closed EXCEPT !.state = "open"]]
  /\ UNCHANGED links

\* The connection breaks, or sends what RTMP does not allow.
Disconnect(c) ==
  /\ conn[c].state = "open"
  /\ conn' = [conn EXCEPT ![c] = Failed(@)]
  /\ UNCHANGED links

\* One of its streams fails while frames or messages are fed: a player cannot be
\* written to, an FLV file is full.
EnqueueForDelete(c) ==
  /\ Registered(conn[c])
  /\ conn' = [conn EXCEPT ![c] = Enqueued(@)]
  /\ UNCHANGED links

\* The end of the round.  DeleteDeadHandlers gives up the failed connections'
\* protocols; CleanupDeadProtocols, ~BaseRTMPProtocol: the table, then the files
\* read.  Other connections may be deleted later here than they are in the code.
CleanupDead(c) ==
  /\ conn[c].state \in {"failed", "enqueued"}
  /\ conn' = [conn EXCEPT ![c] = Closed]
  /\ links' = Deleted(links, {InNet(c, s) : s \in Ids} \cup {InFile(c, s) : s \in Ids},
                            {OutNet(c, s) : s \in Ids} \cup {OutFile(c, s) : s \in Ids})

\* ProcessInvokeCreateStream: the first free entry; with none the request fails.
CreateStream(c) ==
  LET vacant == {s \in Ids : conn[c].streams[s].kind = "none"} IN
  /\ conn[c].state = "open"
  /\ conn' = [conn EXCEPT ![c] =
        IF vacant = {} THEN Failed(@)
        ELSE [@ EXCEPT !.streams[CHOOSE s \in vacant : \A r \in vacant : s <= r] = Neutral]]
  /\ UNCHANGED links

-----------------------------------------------------------------------------
\* CloseStream: a player leaves the list of signalled streams, the file it is
\* fed from is removed (RemoveIFS), and the stream is deleted; a neutral one
\* takes its place or not.  ClosedTable is the connection's part, WithoutStream
\* the links' part.
FedFromFile(c, s) == links.feeder[OutNet(c, s)] = InFile(c, s)

\* Slip: the player stays on the list of signalled streams.
ClosedTable_Signaled(c, s, next) ==
  LET t == conn[c] x == t.streams[s] IN
  IF x.kind = "none" THEN t
  ELSE [t EXCEPT !.streams[s] = next,
                 !.records = @ \ {s},
                 !.files = IF x.kind = "out" /\ FedFromFile(c, s) THEN @ \ {s} ELSE @,
                 !.free = IF x.kind = "out" THEN @ + 1 ELSE @]

ClosedTable(c, s, next) ==
  LET t == conn[c] x == t.streams[s] IN
  IF x.kind = "none" THEN t
  ELSE [t EXCEPT !.streams[s] = next,
                 !.records = @ \ {s},
                 !.signaled = IF x.kind = "out" THEN @ \ {s} ELSE @,
                 !.files = IF x.kind = "out" /\ FedFromFile(c, s) THEN @ \ {s} ELSE @,
                 !.free = IF x.kind = "out" THEN @ + 1 ELSE @]

WithoutStream(c, s) ==
  CASE conn[c].streams[s].kind = "in"  -> Deleted(links, {InNet(c, s)}, {OutFile(c, s)})
    [] conn[c].streams[s].kind = "out" ->
         Deleted(links, IF FedFromFile(c, s) THEN {InFile(c, s)} ELSE {}, {OutNet(c, s)})
    [] OTHER -> links

Close(c, s, next) ==
  /\ conn[c].state = "open"
  /\ conn' = [conn EXCEPT ![c] = ClosedTable(c, s, next)]
  /\ links' = WithoutStream(c, s)

\* ProcessInvokeCloseStream, publish(false)
CloseStream(c, s) == Close(c, s, Neutral)

\* ProcessInvokeDeleteStream
DeleteStream(c, s) == Close(c, s, Empty)

\* ProcessInvokeReleaseStream: the connection's first stream of that name is
\* closed when it is a publication; s is that first stream.
ReleaseStream(c, s) == conn[c].streams[s].kind = "in" /\ Close(c, s, Neutral)

-----------------------------------------------------------------------------
\* The publications that the StreamsManager finds under the name.
Published(table, n) ==
  {p \in Conns \X Ids : /\ Registered(table[p[1]])
                        /\ table[p[1]].streams[p[2]] = [kind |-> "in", name |-> n]}

\* Slip: the publisher's own connection is left out.
GetWaitingSubscribers_OthersOnly(c, n) ==
  {OutNet(p[1], p[2]) : p \in {q \in (Conns \ {c}) \X Ids :
      /\ Registered(conn[q[1]])
      /\ conn[q[1]].streams[q[2]] = [kind |-> "out", name |-> n]
      /\ ~IsLinked(links, OutNet(q[1], q[2]))}}

\* The registered players of that name that no stream feeds.
GetWaitingSubscribers(c, n) ==
  {OutNet(p[1], p[2]) : p \in {q \in Conns \X Ids :
      /\ Registered(conn[q[1]])
      /\ conn[q[1]].streams[q[2]] = [kind |-> "out", name |-> n]
      /\ ~IsLinked(links, OutNet(q[1], q[2]))}}

\* ProcessInvokePublish with a name that no publication has (any other is
\* refused, and the right to override one is never given): the entry has to be
\* neutral; the players that wait are linked, and "record" and "append" link an
\* FLV file, unless the name stands for another format.
Publish(c, s, n) ==
  LET i == InNet(c, s)
      t == [conn[c] EXCEPT !.streams[s] = [kind |-> "in", name |-> n]]
      L == Linked(links, i, GetWaitingSubscribers(c, n))
  IN
  /\ conn[c].state = "open" /\ Published(conn, n) = {}
  /\ IF conn[c].streams[s].kind # "neutral"
     THEN conn' = [conn EXCEPT ![c] = Failed(@)] /\ UNCHANGED links
     ELSE \/ conn' = [conn EXCEPT ![c] = t] /\ links' = L
          \/ /\ conn' = [conn EXCEPT ![c] = [t EXCEPT !.records = @ \cup {s}]]
             /\ links' = Linked(L, i, {OutFile(c, s)})
          \/ conn' = [conn EXCEPT ![c] = Failed(t)] /\ links' = L

-----------------------------------------------------------------------------
\* Slip: the player's channels stay in the pool.
CreateONS_Shared(t, s, n) ==
  IF t.free = 0 THEN Failed([t EXCEPT !.streams[s] = Empty])
  ELSE [t EXCEPT !.streams[s] = [kind |-> "out", name |-> n]]

\* CreateONS: the neutral stream goes; without channels there is no player
\* either and the request fails.
CreateONS(t, s, n) ==
  IF t.free = 0 THEN Failed([t EXCEPT !.streams[s] = Empty])
  ELSE [t EXCEPT !.streams[s] = [kind |-> "out", name |-> n], !.free = @ - 1]

Played(c, t, L, i, s) ==
  /\ conn' = [conn EXCEPT ![c] = t]
  /\ links' = IF t.streams[s].kind = "out" THEN Linked(L, i, {OutNet(c, s)}) ELSE L

\* The live streams of that name that TryLinkToLiveStream can choose: the
\* AVMuxStream is older than any publication and found first.
LiveStreams(table, n) ==
  IF n = Camera THEN {Mux} ELSE {InNet(p[1], p[2]) : p \in Published(table, n)}

\* ProcessInvokePlay: what the entry holds is closed; the player is linked to a
\* live stream, else to a file, else waits for a publication, as far as the
\* request's start time allows ("live", "recorded" or "either").
Play(c, s, n, start) ==
  LET closed == ClosedTable(c, s, Neutral)
      L      == WithoutStream(c, s)
      live   == LiveStreams([conn EXCEPT ![c] = closed], n)
      player == CreateONS(closed, s, n)
      onFile == [player EXCEPT !.files = @ \cup {s},
                               !.signaled = IF player.state = "open" THEN @ \cup {s} ELSE @]
  IN
  /\ conn[c].state = "open"
  /\ \/ /\ start # "recorded" /\ live # {}
        /\ \E i \in live : Played(c, player, L, i, s)
     \/ /\ start = "recorded" \/ (start = "either" /\ live = {})
        /\ n \in FileNames
        /\ \E t \in {onFile, Failed(onFile)} : Played(c, t, L, InFile(c, s), s)
     \/ /\ start = "live" \/ (start = "either" /\ n \notin FileNames)
        /\ live = {}
        /\ conn' = [conn EXCEPT ![c] = player] /\ links' = L
     \/ /\ start = "recorded" /\ n \notin FileNames
        /\ conn' = [conn EXCEPT ![c] = Failed(closed)] /\ links' = L

\* VCM_RESOLUTION_CHANGED, UnlinkLiveStream: the camera's players are unlinked
\* and their connections enqueued, to connect again to the new picture.
ResolutionChanged ==
  /\ links.feeds[Mux] # {}
  /\ conn' = [c \in Conns |-> IF \E s \in Ids : OutNet(c, s) \in links.feeds[Mux]
                               THEN Enqueued(conn[c]) ELSE conn[c]]
  /\ links' = UnLinked(links, Mux)

Next ==
  \/ \E c \in Conns : \/ Open(c) \/ Disconnect(c) \/ EnqueueForDelete(c)
                    \/ CleanupDead(c) \/ CreateStream(c)
  \/ \E c \in Conns, s \in Ids : CloseStream(c, s) \/ DeleteStream(c, s) \/ ReleaseStream(c, s)
  \/ \E c \in Conns, s \in Ids, n \in Names : Publish(c, s, n)
  \/ \E c \in Conns, s \in Ids, n \in Names, start \in {"either", "live", "recorded"} :
        Play(c, s, n, start)
  \/ ResolutionChanged

Spec == Init /\ [][Next]_vars

-----------------------------------------------------------------------------
Entries == [kind: Kinds, name: Names \cup {NoName}]
Tables == [state: {"none", "open", "failed", "enqueued"}, streams: [Ids -> Entries],
           files: SUBSET Ids, records: SUBSET Ids, signaled: SUBSET Ids, free: Nat]

\* The connections' tables and the links stay in their domains.
TypeOK == conn \in [Conns -> Tables] /\ links \in Links

\* The streams that exist.
Live(x) ==
  \/ x = Mux
  \/ \E c \in Conns, s \in Ids :
        \/ x = InNet(c, s) /\ conn[c].streams[s].kind = "in"
        \/ x = OutNet(c, s) /\ conn[c].streams[s].kind = "out"
        \/ x = InFile(c, s) /\ s \in conn[c].files
        \/ x = OutFile(c, s) /\ s \in conn[c].records

\* A frame is fed to streams that exist only, and a stream asks a feeder that
\* exists: the two pointers of a link are set and cleared together, in whatever
\* order connections publish, play, close and are deleted.
LinksExact ==
  /\ Mutual(links)
  /\ \A o \in OutStreams : IsLinked(links, o) => Live(o) /\ Live(links.feeder[o])

\* No file is read for nobody, and the connection signals only players that
\* are fed from one (ReadyForSend dereferences its list).
FilesHavePlayers ==
  \A c \in Conns, s \in Ids :
    /\ s \in conn[c].files /\ conn[c].state = "open" => FedFromFile(c, s)
    /\ s \in conn[c].signaled => s \in conn[c].files /\ FedFromFile(c, s)

\* A player of an open connection waits for a name that is live.
WaitsInVain(c, s) ==
  /\ conn[c].state = "open" /\ conn[c].streams[s].kind = "out"
  /\ ~IsLinked(links, OutNet(c, s))
  /\ LiveStreams(conn, conn[c].streams[s].name) # {}

\* A player begins to wait beside a live stream of its name in one case only,
\* whoever of the two comes first and however the previous publication ends: an
\* enqueued connection, whose publication it still hung on while the name was
\* free to be published again, is deleted.
NobodyWaitsInVain ==
  [][\A c \in Conns, s \in Ids : ~WaitsInVain(c, s) /\ WaitsInVain(c, s)' =>
       \E d \in Conns, r \in Ids : /\ links.feeder[OutNet(c, s)] = InNet(d, r)
                                   /\ conn[d].state = "enqueued" /\ conn'[d].state = "none"]_vars

\* The channels of the players that are gone can be used again.
ChannelsBalanced ==
  \A c \in Conns :
    conn[c].free + Cardinality({s \in Ids : conn[c].streams[s].kind = "out"}) = MaxOuts
=============================================================================
