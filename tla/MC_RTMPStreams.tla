---------------------------- MODULE MC_RTMPStreams ----------------------------
\* Two connections with two streams each, of which one can be a player.
EXTENDS RTMPStreams, TLC

CONSTANTS c1, c2

Perms == Permutations(Conns)
=============================================================================
