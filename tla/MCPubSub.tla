------------------------------- MODULE MCPubSub -------------------------------
EXTENDS PubSub, TLC

CONSTANTS c1, c2

MCClients == {c1, c2}
MCSymmetry == Permutations(MCClients)
=============================================================================
