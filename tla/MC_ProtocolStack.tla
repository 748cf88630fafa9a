------------------------- MODULE MC_ProtocolStack --------------------------
(***************************************************************************)
(* Protocol stacks with chains of up to three protocols and four protocols *)
(* in all: a whole chain and its replacement or a second stack.            *)
(***************************************************************************)
EXTENDS ProtocolStack
=============================================================================
