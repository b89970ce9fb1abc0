------------------------------ MODULE RedisSse ------------------------------
(***************************************************************************)
(* service/distributed/RedisBasedSseService: the connections of one        *)
(* instance when events come over Redis.  localConnections has one emitter *)
(* for each user.  Callbacks and failed sends take the user's entry away,  *)
(* whichever emitter it has by then; only cleanUp looks.                   *)
(*                                                                         *)
(* What is sent is left out: a message that comes is a write to those it is*)
(* for, which may fail.                                                    *)
(***************************************************************************)
CONSTANTS
    User,
    Conn,     \* emitters, one for each connection (the bound of a run)
    Thread    \* the threads of the message listener, and the scheduler's

NoEmitter == "noemitter"
NoUser    == "nouser"

VARIABLES
    localConnections,   \* [User -> an emitter, or NoEmitter]
    link,               \* [Conn -> a connection]
    handler             \* [Thread -> the entry it has read and will write to]

vars == <<localConnections, link, handler>>

\* alone: history, all other connections of its user were over, for everybody, when it
\* began, and no other one began since.
NewLink == [pc |-> "new", user |-> NoUser, gone |-> FALSE, alone |-> FALSE]
Nobody  == [user |-> NoUser, emitter |-> NoEmitter]

Init ==
    /\ localConnections = [u \in User |-> NoEmitter]
    /\ link = [c \in Conn |-> NewLink]
    /\ handler = [t \in Thread |-> Nobody]

\* Somebody may still take the entry of u away because of d.
Lingers(d, u) ==
    /\ link[d].user = u
    /\ link[d].pc # "closed" \/ \E t \in Thread : handler[t].emitter = d

\* connect: the emitter takes the place of the one before, which stays open.
Connect(c, u) ==
    /\ link[c].pc = "new"
    /\ localConnections' = [localConnections EXCEPT ![u] = c]
    /\ link' = [d \in Conn |->
        IF d = c THEN [pc |-> "open", user |-> u, gone |-> FALSE,
                       alone |-> ~\E e \in Conn : Lingers(e, u)]
        ELSE IF link[d].user = u THEN [link[d] EXCEPT !.alone = FALSE] ELSE link[d]]
    /\ UNCHANGED handler

\* The client leaves; the server hears of it when it writes.
Leave(c) ==
    /\ link[c].pc = "open" /\ ~link[c].gone
    /\ link' = [link EXCEPT ![c].gone = TRUE]
    /\ UNCHANGED <<localConnections, handler>>

\* A timeout, an error or the end: the emitter is complete.
Complete(c) ==
    /\ link[c].pc = "open"
    /\ link' = [link EXCEPT ![c].pc = "over", ![c].gone = TRUE]
    /\ UNCHANGED <<localConnections, handler>>

\* Its callbacks, one or more, remove the entry of the user.
Callback(c) ==
    /\ link[c].pc = "over"
    /\ localConnections' = [localConnections EXCEPT ![link[c].user] = NoEmitter]
    /\ \E pc \in {"over", "closed"} : link' = [link EXCEPT ![c].pc = pc]
    /\ UNCHANGED handler

\* handleTargetedMessage, handleBroadcastMessage: an entry is read ...
Handle(t, u) ==
    /\ handler[t] = Nobody /\ localConnections[u] # NoEmitter
    /\ handler' = [handler EXCEPT ![t] = [user |-> u, emitter |-> localConnections[u]]]
    /\ UNCHANGED <<localConnections, link>>

\* ... and written to.
SendToEmitter(t) ==
    /\ handler[t] # Nobody
    /\ handler' = [handler EXCEPT ![t] = Nobody]
    /\ UNCHANGED <<localConnections, link>>

\* sendToEmitter fails when the client is gone or the emitter complete: the entry of the
\* user is removed.
SendToEmitterFails(t) ==
    /\ handler[t] # Nobody /\ link[handler[t].emitter].gone
    /\ localConnections' = [localConnections EXCEPT ![handler[t].user] = NoEmitter]
    /\ handler' = [handler EXCEPT ![t] = Nobody]
    /\ UNCHANGED link

\* MUTANT: those whose ping came through are removed
CleanUpAnswering(u) ==
    /\ localConnections[u] # NoEmitter
    /\ ~link[localConnections[u]].gone
    /\ localConnections' = [localConnections EXCEPT ![u] = NoEmitter]
    /\ UNCHANGED <<link, handler>>

\* cleanUp: an entry whose ping failed, and nobody replaced, is removed.
CleanUp(u) ==
    /\ localConnections[u] # NoEmitter
    /\ link[localConnections[u]].gone /\ link[localConnections[u]].pc = "open"
    /\ localConnections' = [localConnections EXCEPT ![u] = NoEmitter]
    /\ UNCHANGED <<link, handler>>

Next ==
    \/ \E c \in Conn :
        (\E u \in User : Connect(c, u)) \/ Leave(c) \/ Complete(c) \/ Callback(c)
    \/ \E t \in Thread : (\E u \in User : Handle(t, u)) \/ SendToEmitter(t) \/ SendToEmitterFails(t)
    \/ \E u \in User : CleanUp(u)

TypeOK ==
    /\ localConnections \in [User -> Conn \union {NoEmitter}]
    /\ link \in [Conn -> [pc : {"new", "open", "over", "closed"}, user : User \union {NoUser},
                         gone : BOOLEAN, alone : BOOLEAN]]
    /\ handler \in [Thread -> [user : User, emitter : Conn] \union {Nobody}]

\* A client that reads is deaf only because of another connection of its user: one that
\* replaced it, or one from before that was not over for all threads yet when it began.
SilentIsExplained ==
    \A c \in Conn :
        link[c].pc = "open" /\ ~link[c].gone /\ link[c].alone => localConnections[link[c].user] = c
=============================================================================
