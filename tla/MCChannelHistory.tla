-------------------------- MODULE MCChannelHistory --------------------------
EXTENDS ChannelHistory, TLC

Symmetry == Permutations(Message) \union Permutations(Manager)
=============================================================================
