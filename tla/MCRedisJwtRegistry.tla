------------------------- MODULE MCRedisJwtRegistry -------------------------
(* Small instances of RedisJwtRegistry for TLC. *)
EXTENDS RedisJwtRegistry

\* Threads are interchangeable.
WorkerSymmetry == Permutations(Worker)
=============================================================================
