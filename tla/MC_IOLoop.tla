----------------------------- MODULE MC_IOLoop ------------------------------
(* An acceptor and three more handlers, three descriptors, one timer whose *)
(* made-up descriptor is the acceptor's.                                   *)
EXTENDS IOLoop
MCHandlers == {"acceptor", "h1", "h2", "h3"}
=============================================================================
