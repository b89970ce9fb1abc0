---------------------------- MODULE MCSseService ----------------------------
EXTENDS SseService, TLC

Symmetry ==
    Permutations(User) \union Permutations(Conn) \union Permutations(Event)
=============================================================================
