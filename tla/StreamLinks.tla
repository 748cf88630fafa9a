---------------------------- MODULE StreamLinks ----------------------------
(***************************************************************************)
(* The links between inbound and outbound streams, kept twice: an inbound  *)
(* stream (BaseInStream) knows the outbound streams it feeds by            *)
(* _linkedStreams and _pOutStreams, an outbound stream (BaseOutStream)     *)
(* knows its feeder by _pInStream.  Both are bare pointers: what a stream  *)
(* leaves in the other one when it is deleted is dereferenced with the     *)
(* next frame.  The operators below are functions of the table of links;   *)
(* the modules that create and delete streams keep the table.              *)
(***************************************************************************)
EXTENDS FiniteSets

CONSTANTS InStreams,   \* every stream of type ST_IN there can be
          OutStreams,  \* every stream of type ST_OUT there can be
          NoStream     \* NULL, no inbound stream

Links == [feeder: [OutStreams -> InStreams \cup {NoStream}],  \* _pInStream
          feeds:  [InStreams -> SUBSET OutStreams]]           \* _linkedStreams

NoLinks == [feeder |-> [o \in OutStreams |-> NoStream],
            feeds  |-> [i \in InStreams |-> {}]]

\* IsLinked
IsLinked(L, o) == L.feeder[o] # NoStream

\* Link, from either side: the outbound streams O are added to i and i is
\* stored in each of them, unless it has a feeder already.
Linked(L, i, O) ==
  [feeder |-> [o \in OutStreams |->
                 IF o \in O /\ ~IsLinked(L, o) THEN i ELSE L.feeder[o]],
   feeds  |-> [L.feeds EXCEPT ![i] = @ \cup O]]

\* BaseMuxStream::UnlinkLiveStream: every outbound stream of i unlinks itself
\* and is taken off the list of the feeder it knows.
UnLinked(L, i) ==
  LET gone == L.feeds[i] IN
  [feeder |-> [o \in OutStreams |-> IF o \in gone THEN NoStream ELSE L.feeder[o]],
   feeds  |-> [j \in InStreams |-> {o \in L.feeds[j] : o \notin gone \/ L.feeder[o] # j}]]

\* Slip: the outbound stream that is deleted forgets its feeder only.
Deleted_OneSided(L, I, O) ==
  LET unfed == UNION {L.feeds[i] : i \in I} IN
  [feeder |-> [o \in OutStreams |-> IF o \in O \cup unfed THEN NoStream ELSE L.feeder[o]],
   feeds  |-> [i \in InStreams |-> IF i \in I THEN {} ELSE L.feeds[i]]]

\* The destructors of the inbound streams I, which unlink all they feed, and of
\* the outbound streams O, which leave the list of the feeder they know.
Deleted(L, I, O) ==
  LET unfed == UNION {L.feeds[i] : i \in I} IN
  [feeder |-> [o \in OutStreams |-> IF o \in O \cup unfed THEN NoStream ELSE L.feeder[o]],
   feeds  |-> [i \in InStreams |-> IF i \in I THEN {}
                                   ELSE {o \in L.feeds[i] : o \notin O \/ L.feeder[o] # i}]]

\* A stream is on the list of another exactly when that one is its feeder.
Mutual(L) == \A i \in InStreams, o \in OutStreams : o \in L.feeds[i] <=> L.feeder[o] = i
=============================================================================
