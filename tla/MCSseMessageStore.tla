------------------------- MODULE MCSseMessageStore -------------------------
(* SseMessageStore for TLC: threads and messages are interchangeable.       *)
EXTENDS SseMessageStore, TLC

Symmetry == Permutations(Thread) \union Permutations(Message)
=============================================================================
