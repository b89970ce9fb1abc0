----------------------------- MODULE SseService -----------------------------
(***************************************************************************)
(* The two implementations of SseService.  app.sse.type decides, when the  *)
(* application starts, which of the beans exists.                          *)
(***************************************************************************)
EXTENDS BasicSse

VARIABLES
    type,                             \* app.sse.type
    localConnections, link, handler   \* RedisSse's

Redis == INSTANCE RedisSse

\* localConnections has no entry, which is not an emitter.
ASSUME SseServiceAssumption == Redis!NoEmitter \notin Conn

redisVars == <<localConnections, link, handler>>
sseVars   == <<type, vars, redisVars>>

SseInit == type \in {"basic", "redis"} /\ Init /\ Redis!Init

SseNext ==
    \/ type = "basic" /\ Next /\ UNCHANGED <<type, redisVars>>
    \/ type = "redis" /\ Redis!Next /\ UNCHANGED <<type, vars>>

SseSpec == SseInit /\ [][SseNext]_sseVars

\* A client that reads is deaf only because of another connection of its user: one that
\* replaced it, or one from before that was not over for all threads yet when it began
\* (callbacks and failed sends remove the user's entry, whichever emitter it has).
SilentIsExplained == Redis!SilentIsExplained
=============================================================================
