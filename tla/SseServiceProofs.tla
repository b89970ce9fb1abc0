-------------------------- MODULE SseServiceProofs --------------------------
(***************************************************************************)
(* The theorems of SseService, for any number of users, connections, events*)
(* and threads.                                                            *)
(***************************************************************************)
EXTENDS SseService, SequenceTheorems, FiniteSetTheorems, TLAPS

-----------------------------------------------------------------------------
(* The connections of the distributed implementation.                      *)

\* The entries begin empty.
LEMMA RedisTypeInit == SseInit => Redis!TypeOK
BY DEF SseInit, Redis!Init, Redis!TypeOK, Redis!NewLink, Redis!Nobody, NoUser, Redis!NoUser

\* Every step of either implementation keeps the types of the distributed one.
LEMMA RedisTypeStep == Redis!TypeOK /\ [SseNext]_sseVars => Redis!TypeOK'
<1> SUFFICES ASSUME Redis!TypeOK, [SseNext]_sseVars PROVE Redis!TypeOK'
    OBVIOUS
<1> USE DEF Redis!TypeOK
<1> DEFINE Link == [pc : {"new", "open", "over", "closed"}, user : User \union {Redis!NoUser},
                    gone : BOOLEAN, alone : BOOLEAN]
<1>1. CASE UNCHANGED redisVars
    BY <1>1 DEF redisVars
<1>2. ASSUME NEW c \in Conn, NEW u \in User, Redis!Connect(c, u) PROVE Redis!TypeOK'
    <2>1. localConnections' = [localConnections EXCEPT ![u] = c] /\ handler' = handler
        BY <1>2 DEF Redis!Connect
    <2>2. \A d \in Conn : link'[d] \in Link
        BY <1>2 DEF Redis!Connect
    <2>3. link' = [d \in Conn |-> link'[d]]
        BY <1>2 DEF Redis!Connect
    <2> QED BY <2>1, <2>2, <2>3
<1>3. ASSUME NEW c \in Conn, Redis!Leave(c) \/ Redis!Complete(c) PROVE Redis!TypeOK'
    <2>1. CASE Redis!Leave(c)
        BY <2>1 DEF Redis!Leave
    <2>2. CASE Redis!Complete(c)
        BY <2>2 DEF Redis!Complete
    <2> QED BY <1>3, <2>1, <2>2
<1>4. ASSUME NEW c \in Conn, Redis!Callback(c) PROVE Redis!TypeOK'
    BY ZenonT(40), <1>4 DEF Redis!Callback
<1>5. ASSUME NEW t \in Thread, NEW u \in User, Redis!Handle(t, u) PROVE Redis!TypeOK'
    BY <1>5 DEF Redis!Handle
<1>6. ASSUME NEW t \in Thread, Redis!SendToEmitter(t) \/ Redis!SendToEmitterFails(t)
      PROVE  Redis!TypeOK'
    <2>1. /\ handler' = [handler EXCEPT ![t] = Redis!Nobody] /\ link' = link
          /\ localConnections' \in {localConnections,
                [localConnections EXCEPT ![handler[t].user] = Redis!NoEmitter]}
        BY <1>6 DEF Redis!SendToEmitter, Redis!SendToEmitterFails
    <2>2. localConnections' \in [User -> Conn \union {Redis!NoEmitter}]
        BY <2>1
    <2> QED BY <2>1, <2>2
<1>7. ASSUME NEW u \in User, Redis!CleanUp(u) PROVE Redis!TypeOK'
    BY <1>7 DEF Redis!CleanUp
<1> QED BY <1>1, <1>2, <1>3, <1>4, <1>5, <1>6, <1>7 DEF SseNext, Redis!Next, sseVars

\* Entries, and what a thread has read, are of the user they are under, and an entry is of
\* a connection whose callbacks are still to come.
EntryInv ==
    /\ \A u \in User : localConnections[u] \in Conn =>
            /\ link[localConnections[u]].user = u
            /\ link[localConnections[u]].pc # "closed"
    /\ \A t \in Thread : handler[t] # Redis!Nobody =>
            /\ handler[t].user \in User /\ handler[t].emitter \in Conn
            /\ link[handler[t].emitter].user = handler[t].user
    /\ \A c \in Conn : IF link[c].pc = "new" THEN link[c].user = NoUser
                       ELSE link[c].user \in User

\* A connection that is the only one of its user has the entry until it is over, and nobody
\* is left who would take it away because of another one.
AloneInv ==
    \A c \in Conn : link[c].pc # "new" /\ link[c].alone =>
        /\ \A d \in Conn \ {c} : ~Redis!Lingers(d, link[c].user)
        /\ link[c].pc = "open" /\ ~link[c].gone => localConnections[link[c].user] = c

\* What a step of the distributed implementation changes, with no EXCEPT.
LEMMA RedisConnectSteps ==
    ASSUME Redis!TypeOK, NEW c \in Conn, NEW u \in User, Redis!Connect(c, u)
    PROVE  /\ link[c].pc = "new" /\ handler' = handler
           /\ localConnections'[u] = c
           /\ \A v \in User \ {u} : localConnections'[v] = localConnections[v]
           /\ link'[c].pc = "open" /\ link'[c].user = u /\ ~link'[c].gone
           /\ link'[c].alone => \A e \in Conn : ~Redis!Lingers(e, u)
           /\ \A d \in Conn \ {c} :
                /\ link'[d].pc = link[d].pc /\ link'[d].user = link[d].user
                /\ link'[d].gone = link[d].gone
                /\ link'[d].alone => link[d].alone /\ link[d].user # u
BY DEF Redis!TypeOK, Redis!Connect

\* How connections of the distributed service end, for the invariants below:
LEMMA RedisEndSteps ==
    ASSUME Redis!TypeOK, NEW c \in Conn, Redis!Leave(c) \/ Redis!Complete(c)
    PROVE  /\ UNCHANGED <<localConnections, handler>>
           /\ link[c].pc = "open"
           /\ link'[c].pc \in {"open", "over"} /\ link'[c].user = link[c].user
           /\ link'[c].gone /\ link'[c].alone = link[c].alone
           /\ \A d \in Conn \ {c} : link'[d] = link[d]
BY DEF Redis!TypeOK, Redis!Leave, Redis!Complete

\* the callbacks of the container,
LEMMA RedisCallbackSteps ==
    ASSUME Redis!TypeOK, NEW c \in Conn, Redis!Callback(c), link[c].user \in User
    PROVE  /\ handler' = handler /\ link[c].pc = "over"
           /\ link'[c].pc \in {"over", "closed"} /\ link'[c].user = link[c].user
           /\ link'[c].gone = link[c].gone /\ link'[c].alone = link[c].alone
           /\ \A d \in Conn \ {c} : link'[d] = link[d]
           /\ localConnections'[link[c].user] = Redis!NoEmitter
           /\ \A v \in User \ {link[c].user} : localConnections'[v] = localConnections[v]
BY DEF Redis!TypeOK, Redis!Callback

\* and a message that comes from the topic.
LEMMA RedisSendSteps ==
    ASSUME Redis!TypeOK, NEW t \in Thread,
           Redis!SendToEmitter(t) \/ Redis!SendToEmitterFails(t), handler[t].user \in User
    PROVE  /\ handler[t] # Redis!Nobody /\ handler'[t] = Redis!Nobody /\ link' = link
           /\ \A s \in Thread \ {t} : handler'[s] = handler[s]
           /\ \A v \in User \ {handler[t].user} : localConnections'[v] = localConnections[v]
           /\ \/ localConnections'[handler[t].user] = localConnections[handler[t].user]
              \/ /\ link[handler[t].emitter].gone
                 /\ localConnections'[handler[t].user] = Redis!NoEmitter
BY DEF Redis!TypeOK, Redis!SendToEmitter, Redis!SendToEmitterFails

\* An entry stays one of its user, to the end of its callbacks.
LEMMA EntryStep == Redis!TypeOK /\ EntryInv /\ [SseNext]_sseVars => EntryInv'
<1> SUFFICES ASSUME Redis!TypeOK, EntryInv, [SseNext]_sseVars PROVE EntryInv'
    OBVIOUS
<1> USE SseServiceAssumption, BasicSseAssumption DEF EntryInv
<1>1. CASE UNCHANGED redisVars
    BY <1>1 DEF redisVars
<1>2. ASSUME NEW c \in Conn, NEW u \in User, Redis!Connect(c, u) PROVE EntryInv'
    BY <1>2, RedisConnectSteps
<1>3. ASSUME NEW c \in Conn, Redis!Leave(c) \/ Redis!Complete(c) PROVE EntryInv'
    BY <1>3, RedisEndSteps
<1>4. ASSUME NEW c \in Conn, Redis!Callback(c) PROVE EntryInv'
    <2>1. link[c].user \in User
        BY <1>4 DEF Redis!Callback
    <2> QED BY <1>4, <2>1, RedisCallbackSteps
<1>5. ASSUME NEW t \in Thread, NEW u \in User, Redis!Handle(t, u) PROVE EntryInv'
    <2>1. /\ localConnections[u] \in Conn /\ UNCHANGED <<localConnections, link>>
          /\ handler'[t] = [user |-> u, emitter |-> localConnections[u]]
          /\ \A s \in Thread \ {t} : handler'[s] = handler[s]
        BY <1>5 DEF Redis!Handle, Redis!TypeOK
    <2> QED BY <2>1
<1>6. ASSUME NEW t \in Thread, Redis!SendToEmitter(t) \/ Redis!SendToEmitterFails(t)
      PROVE  EntryInv'
    <2>1. handler[t].user \in User
        BY <1>6 DEF Redis!SendToEmitter, Redis!SendToEmitterFails
    <2> QED BY <1>6, <2>1, RedisSendSteps
<1>7. ASSUME NEW u \in User, Redis!CleanUp(u) PROVE EntryInv'
    <2>1. /\ UNCHANGED <<link, handler>> /\ localConnections'[u] = Redis!NoEmitter
          /\ \A v \in User \ {u} : localConnections'[v] = localConnections[v]
        BY <1>7 DEF Redis!CleanUp, Redis!TypeOK
    <2> QED BY <2>1
<1> QED BY <1>1, <1>2, <1>3, <1>4, <1>5, <1>6, <1>7 DEF SseNext, Redis!Next, sseVars

\* Nobody takes the entry of a connection that is alone.
LEMMA AloneStep ==
    Redis!TypeOK /\ EntryInv /\ AloneInv /\ [SseNext]_sseVars => AloneInv'
<1> SUFFICES ASSUME Redis!TypeOK, EntryInv, AloneInv, [SseNext]_sseVars PROVE AloneInv'
    OBVIOUS
<1> USE DEF AloneInv, EntryInv, Redis!Lingers
<1>1. CASE UNCHANGED redisVars
    BY <1>1 DEF redisVars
<1>2. ASSUME NEW c \in Conn, NEW u \in User, Redis!Connect(c, u) PROVE AloneInv'
    <2>1. ASSUME NEW d \in Conn \ {c}, link'[d].pc # "new", link'[d].alone
          PROVE  /\ \A e \in Conn \ {d} : ~Redis!Lingers(e, link[d].user)'
                 /\ link'[d].pc = "open" /\ ~link'[d].gone
                        => localConnections'[link'[d].user] = d
        <3>1. /\ link[d].pc # "new" /\ link[d].alone /\ link[d].user # u
              /\ link'[d].user = link[d].user /\ link[d].user \in User
            BY <1>2, <2>1, RedisConnectSteps
        <3> QED BY <1>2, <2>1, <3>1, RedisConnectSteps
    <2>2. link'[c].alone => /\ \A e \in Conn \ {c} : ~Redis!Lingers(e, u)'
                            /\ localConnections'[u] = c
        BY <1>2, RedisConnectSteps
    <2> QED BY <1>2, <2>1, <2>2, RedisConnectSteps
<1>3. ASSUME NEW c \in Conn, Redis!Leave(c) \/ Redis!Complete(c) PROVE AloneInv'
    BY <1>3, RedisEndSteps
<1>4. ASSUME NEW c \in Conn, Redis!Callback(c) PROVE AloneInv'
    <2>1. link[c].user \in User
        BY <1>4 DEF Redis!Callback
    <2> QED BY <1>4, <2>1, RedisCallbackSteps
<1>5. ASSUME NEW t \in Thread, NEW u \in User, Redis!Handle(t, u) PROVE AloneInv'
    <2>1. /\ localConnections[u] \in Conn /\ UNCHANGED <<localConnections, link>>
          /\ handler'[t].emitter = localConnections[u]
          /\ \A s \in Thread \ {t} : handler'[s] = handler[s]
        BY <1>5 DEF Redis!Handle, Redis!TypeOK
    <2> QED BY <2>1
<1>6. ASSUME NEW t \in Thread, Redis!SendToEmitter(t) \/ Redis!SendToEmitterFails(t)
      PROVE  AloneInv'
    <2> DEFINE e == handler[t].emitter
    <2>1. handler[t].user \in User /\ e \in Conn /\ link[e].user = handler[t].user
        BY <1>6 DEF Redis!SendToEmitter, Redis!SendToEmitterFails
    <2>2. /\ handler'[t] = Redis!Nobody /\ link' = link
          /\ \A s \in Thread \ {t} : handler'[s] = handler[s]
        BY <1>6, <2>1, RedisSendSteps
    <2>3. ASSUME NEW d \in Conn, NEW u \in User, Redis!Lingers(d, u)'
          PROVE  Redis!Lingers(d, u)
        <3>1. Redis!Nobody.emitter \notin Conn
            BY SseServiceAssumption DEF Redis!Nobody
        <3> QED BY <2>2, <2>3, <3>1
    <2>4. ASSUME NEW d \in Conn, link[d].pc = "open", ~link[d].gone, link[d].alone
          PROVE  localConnections'[link[d].user] = d
        <3>1. localConnections[link[d].user] = d /\ link[d].user \in User
            BY <2>4
        <3>2. link[e].gone => link[d].user # handler[t].user
            BY <2>1, <2>4, <1>6, RedisSendSteps
        <3> QED BY <3>1, <3>2, <2>1, <1>6, RedisSendSteps
    <2> QED BY <2>2, <2>3, <2>4
<1>7. ASSUME NEW u \in User, Redis!CleanUp(u) PROVE AloneInv'
    <2>1. /\ UNCHANGED <<link, handler>> /\ link[localConnections[u]].gone
          /\ localConnections[u] # Redis!NoEmitter
          /\ \A v \in User \ {u} : localConnections'[v] = localConnections[v]
        BY <1>7 DEF Redis!CleanUp, Redis!TypeOK
    <2> QED BY <2>1
<1> QED BY <1>1, <1>2, <1>3, <1>4, <1>5, <1>6, <1>7 DEF SseNext, Redis!Next, sseVars

\* A client that reads is deaf only because of another connection of its user.
THEOREM SilentAreExplained == SseSpec => []SilentIsExplained
<1>1. SseInit => EntryInv /\ AloneInv
    BY SseServiceAssumption
    DEF SseInit, Redis!Init, EntryInv, AloneInv, Redis!NewLink, Redis!Nobody, NoUser, Redis!NoUser
<1>2. EntryInv /\ AloneInv => SilentIsExplained
    BY DEF EntryInv, AloneInv, SilentIsExplained, Redis!SilentIsExplained
<1> QED BY <1>1, <1>2, RedisTypeInit, RedisTypeStep, EntryStep, AloneStep, PTL DEF SseSpec
-----------------------------------------------------------------------------
(* The connections of one instance: types.                                 *)

Pcs == {"new", "add", "adding", "added", "failed", "resend", "open", "over", "removing",
        "check", "unmap", "closed"}

Conns(L) == [pc : Pcs, user : User \union {NoUser}, missed : Seq(L), early : Seq(L),
             had : SUBSET L, last : L \union {NoEvent}, base : Nat, gone : BOOLEAN]

Tasks(L) == [event : L \union {NoEvent}, left : SUBSET User, user : User \union {NoUser},
             at : Nat, upto : Nat, failing : SUBSET Nat, changed : BOOLEAN]

\* TypeOK, with the sets of records named.
LEMMA TypeParts == TypeOK <=>
    /\ data \in [User -> Seq(Conn) \union {NoList, Torn}]
    /\ conn \in [Conn -> Conns(Range(log))]
    /\ task \in [Thread -> Tasks(Range(log))]
    /\ log \in Seq(Event)
    /\ owed \in [Event -> SUBSET User]
BY DEF TypeOK, Conns, Tasks, Pcs

\* A connection is of a user once it has begun.
UserInv == \A c \in Conn : IF conn[c].pc = "new" THEN conn[c].user = NoUser
                           ELSE conn[c].user \in User

\* While a connection is being added or removed its user has a list, and one that is to be
\* forgotten is empty.
UnderWayInv ==
    \A c \in Conn :
        /\ conn[c].pc \in {"add", "adding", "removing"} => data[conn[c].user] # NoList
        /\ conn[c].pc = "unmap" => data[conn[c].user] \in {<<>>, Torn}

\* A client is gone only after its response began.
GoneInv == \A c \in Conn :
    conn[c].gone => conn[c].pc \in {"open", "over", "removing", "check", "unmap", "closed"}

Listable == {"added", "resend", "open", "over", "removing"}

\* The list of a user has connections of that user that were added and not removed.
MemberInv == \A u \in User, c \in Conn :
    data[u] \notin {NoList, Torn} /\ c \in Range(data[u])
    => conn[c].user = u /\ conn[c].pc \in Listable

\* While the list that a thread walks did not change, the elements it found to fail are
\* where they were, and their clients are gone.
WalkInv == \A t \in Thread :
    /\ task[t].user = NoUser => task[t].failing = {}
    /\ task[t].user # NoUser /\ data[task[t].user] = NoList => task[t].at > task[t].upto
    /\ task[t].user # NoUser /\ data[task[t].user] # Torn /\ ~task[t].changed =>
        /\ \A c \in Conn : conn[c].user = task[t].user => conn[c].pc \notin {"adding", "removing"}
        /\ data[task[t].user] = NoList => task[t].failing = {}
        /\ \A i \in task[t].failing : /\ i \in DOMAIN data[task[t].user]
                                     /\ conn[data[task[t].user][i]].gone

\* What is no list of emitters.
LEMMA NoLists ==
    /\ Torn # NoList /\ Torn # <<>> /\ NoList # <<>>
    /\ Torn \notin Seq(Conn) /\ NoList \notin Seq(Conn)
    /\ NoUser \notin Conn
BY BasicSseAssumption DEF Torn, NoList

\* What Becomes leaves: the other lists, and a torn one if another operation is under way.
LEMMA BecomesLemma ==
    ASSUME TypeOK, NEW u \in User, NEW q, NEW c, Becomes(u, q, c)
    PROVE  /\ \A v \in User \ {u} : data'[v] = data[v]
           /\ data'[u] \in {q, Torn}
           /\ data[u] = Torn => data'[u] = Torn
           /\ \A d \in Conn :
                /\ d # c /\ conn[d].user = u
                /\ conn[d].pc \in {"add", "adding", "removing", "check", "unmap"}
                => data'[u] = Torn
           /\ q \in Seq(Conn) \union {NoList, Torn} \/ data[u] = Torn
                => data' \in [User -> Seq(Conn) \union {NoList, Torn}]
BY DEF TypeOK, Becomes, Of

\* What is left of a list.
LEMMA WithoutLemma ==
    ASSUME NEW q \in Seq(Conn), NEW S, NEW rest \in Without(q, S)
    PROVE  /\ rest \in Seq(Conn)
           /\ Range(rest) = Range(q) \ S
<1> DEFINE kept == {i \in DOMAIN q : q[i] \notin S}
<1>1. IsFiniteSet(kept)
    <2>1. IsFiniteSet(1 .. Len(q)) /\ DOMAIN q = 1 .. Len(q)
        BY FS_Interval
    <2> QED BY <2>1, FS_Subset
<1>2. Cardinality(kept) \in Nat
    BY <1>1, FS_CardinalityType
<1>3. rest \in [1 .. Cardinality(kept) -> {q[i] : i \in kept}] /\ Range(rest) = {q[i] : i \in kept}
    BY DEF Without
<1>4. {q[i] : i \in kept} = Range(q) \ S /\ Range(q) \subseteq Conn
    BY DEF Range
<1>5. \A n \in Nat : [1 .. n -> Conn] \subseteq Seq(Conn)
    BY IsASeq
<1> QED BY <1>2, <1>3, <1>4, <1>5

\* Disturbing a call only takes away what was owed.
LEMMA OwedType ==
    ASSUME TypeOK, NEW T, NEW u, DisturbAt(T, u)
    PROVE  owed' \in [Event -> SUBSET User]
BY DEF TypeOK, DisturbAt

\* A new connection and an idle thread have their types.
LEMMA NewTypes ==
    ASSUME NEW L
    PROVE  NewConn \in Conns(L) /\ Idle \in Tasks(L)
<1>1. <<>> \in Seq(L)
    OBVIOUS
<1> QED BY <1>1 DEF NewConn, Idle, Conns, Tasks, Pcs

\* The types, to begin with, and then for each group of actions.
LEMMA BasicTypeInit == Init => TypeOK
BY NewTypes, TypeParts DEF Init


\* A step that changes the connection c alone, and the history, keeps the types.
LEMMA ConnType ==
    ASSUME TypeOK, NEW c \in Conn, NEW new \in Conns(Range(log)),
           conn' = [conn EXCEPT ![c] = new], UNCHANGED log,
           data' \in [User -> Seq(Conn) \union {NoList, Torn}],
           task' \in [Thread -> Tasks(Range(log))],
           owed' \in [Event -> SUBSET User]
    PROVE  TypeOK'
<1>1. conn' \in [Conn -> Conns(Range(log))] /\ Range(log)' = Range(log)
    BY TypeParts DEF Range
<1>2. /\ data' \in [User -> Seq(Conn) \union {NoList, Torn}]
      /\ conn' \in [Conn -> Conns(Range(log)')]
      /\ task' \in [Thread -> Tasks(Range(log)')]
      /\ log' \in Seq(Event)
      /\ owed' \in [Event -> SUBSET User]
    BY <1>1, TypeParts
<1> QED BY <1>2 DEF TypeOK, Conns, Tasks, Pcs

LEMMA TouchType ==
    ASSUME TypeOK, NEW u, Touch(u)
    PROVE  task' \in [Thread -> Tasks(Range(log))]
<1>1. ASSUME NEW t \in Thread, NEW b \in BOOLEAN
      PROVE  [task[t] EXCEPT !.changed = b] \in Tasks(Range(log))
    BY TypeParts DEF Tasks
<1>2. ASSUME NEW t \in Thread PROVE (task[t].changed \/ task[t].user = u) \in BOOLEAN
    OBVIOUS
<1> QED BY <1>1, <1>2 DEF Touch

\* The place of an event that was saved.
LEMMA PlaceLemma ==
    ASSUME TypeOK, NEW e \in Range(log)
    PROVE  Place(e) \in 1 .. Len(log) /\ log[Place(e)] = e
<1>1. \E k \in DOMAIN log : log[k] = e
    BY DEF Range
<1>2. Place(e) \in DOMAIN log /\ log[Place(e)] = e
    BY <1>1 DEF Place
<1> QED BY <1>2 DEF TypeOK

LEMMA ConnectType ==
    ASSUME TypeOK, UserInv, NEW c \in Conn, NEW u \in User, Connect(c, u)
    PROVE  TypeOK'
<1> DEFINE new == [NewConn EXCEPT !.pc = "add", !.user = u]
<1>1. data' \in [User -> Seq(Conn) \union {NoList, Torn}]
    <2>1. (IF data[u] = NoList THEN <<>> ELSE data[u]) \in Seq(Conn) \union {NoList, Torn}
        BY DEF TypeOK
    <2> QED BY <2>1, BecomesLemma DEF Connect
<1>2. new \in Conns(Range(log))
    <2>1. \A L : NewConn \in Conns(L)
        BY NewTypes
    <2> QED BY <2>1 DEF Conns, Pcs
<1>3. UNCHANGED <<task, log, owed>>
    BY DEF Connect
<1>4. CASE conn' = [conn EXCEPT ![c] = new]
    BY <1>1, <1>2, <1>3, <1>4, ConnType, TypeParts
<1>5. ASSUME NEW d \in Lost(u),
             conn' = [conn EXCEPT
                ![c] = [new EXCEPT !.had = conn[d].had, !.last = conn[d].last,
                                   !.base = conn[d].base],
                ![d] = [@ EXCEPT !.had = {}, !.last = NoEvent, !.base = 0]]
      PROVE  TypeOK'
    <2> DEFINE first  == [new EXCEPT !.had = conn[d].had, !.last = conn[d].last,
                                     !.base = conn[d].base]
               second == [conn[d] EXCEPT !.had = {}, !.last = NoEvent, !.base = 0]
    <2>1. d \in Conn /\ d # c
        BY BasicSseAssumption DEF Lost, Of, Connect, UserInv
    <2>2. first \in Conns(Range(log)) /\ second \in Conns(Range(log))
        BY <1>2, <2>1, TypeParts DEF Conns
    <2>3. conn' = [conn EXCEPT ![c] = first, ![d] = second]
        BY <1>5, <2>1, TypeParts
    <2>4. conn' \in [Conn -> Conns(Range(log))] /\ Range(log)' = Range(log)
        BY <2>1, <2>2, <2>3, <1>3, TypeParts DEF Range
    <2> QED BY <1>1, <1>3, <2>4, TypeParts DEF TypeOK, Conns, Tasks, Pcs
<1> QED BY <1>4, <1>5 DEF Connect

LEMMA AddType ==
    ASSUME TypeOK, UserInv, UnderWayInv, NEW c \in Conn, AddBegins(c) \/ AddEnds(c)
    PROVE  TypeOK'
<1> DEFINE u == conn[c].user
<1>1. u \in User
    BY DEF UserInv, AddBegins, AddEnds
<1>2. CASE AddBegins(c)
    <2>1. [conn[c] EXCEPT !.pc = "adding"] \in Conns(Range(log))
        BY ZenonT(40), TypeParts DEF Conns, Pcs
    <2>2. conn' = [conn EXCEPT ![c] = [conn[c] EXCEPT !.pc = "adding"]]
        BY <1>2 DEF AddBegins
    <2>3. task' \in [Thread -> Tasks(Range(log))] /\ owed' \in [Event -> SUBSET User]
        BY <1>2, TouchType, OwedType DEF AddBegins, Disturb
    <2>4. UNCHANGED <<data, log>>
        BY <1>2 DEF AddBegins
    <2> QED BY <2>1, <2>2, <2>3, <2>4, ConnType, TypeParts
<1>3. CASE AddEnds(c)
    <2> DEFINE base == IF conn[c].last = NoEvent THEN Len(log) ELSE conn[c].base
               new == [conn[c] EXCEPT !.pc = "added", !.base = base]
    <2>1. base \in Nat
        BY TypeParts DEF Conns
    <2>2. new \in Conns(Range(log))
        BY ZenonT(40), <2>1, TypeParts DEF Conns, Pcs
    <2>3. conn' = [conn EXCEPT ![c] = new]
        BY <1>3 DEF AddEnds
    <2>4. Append(data[u], c) \in Seq(Conn) \/ data[u] = Torn
        <3>1. data[u] \in Seq(Conn) \/ data[u] = Torn
            BY <1>1, <1>3 DEF TypeOK, UnderWayInv, AddEnds
        <3> QED BY <3>1
    <2>5. data' \in [User -> Seq(Conn) \union {NoList, Torn}]
        <3> DEFINE q == Append(data[u], c)
        <3>1. Becomes(u, q, c) /\ (q \in Seq(Conn) \/ data[u] = Torn)
            BY <1>3, <2>4 DEF AddEnds
        <3> HIDE DEF q, u
        <3> QED BY <1>1, <3>1, BecomesLemma
    <2>6. UNCHANGED <<task, log, owed>>
        BY <1>3 DEF AddEnds
    <2> QED BY <2>2, <2>3, <2>5, <2>6, ConnType, TypeParts
<1> QED BY <1>2, <1>3

\* The rest of connect, in which the list stays as it is.
LEMMA OpenType ==
    ASSUME TypeOK, NEW c \in Conn,
           CountFails(c) \/ FindMissed(c) \/ FindNothing(c) \/ Resend(c) \/ Open(c)
    PROVE  TypeOK'
<1> DEFINE L == Range(log)
<1>1. /\ data' \in [User -> Seq(Conn) \union {NoList, Torn}]
      /\ task' \in [Thread -> Tasks(L)] /\ owed' \in [Event -> SUBSET User] /\ log' = log
    BY TypeParts, OwedType DEF CountFails, FindMissed, FindNothing, Resend, Open, Disturb
<1>3. /\ conn \in [Conn -> Conns(L)]
      /\ conn[c].missed \in Seq(L) /\ conn[c].early \in Seq(L) /\ conn[c].had \in SUBSET L
      /\ conn[c].last \in L \union {NoEvent} /\ conn[c].base \in Nat
      /\ conn[c].gone \in BOOLEAN
    BY TypeParts DEF Conns
<1>4. /\ log \in Seq(Event) /\ log \in Seq(L) /\ Len(log) \in Nat
    BY TypeParts DEF Range
<1>5. CASE CountFails(c)
    <2>1. conn' = [conn EXCEPT ![c] = [conn[c] EXCEPT !.pc = "failed"]]
        BY <1>5 DEF CountFails
    <2>2. [conn[c] EXCEPT !.pc = "failed"] \in Conns(L)
        BY ZenonT(40), <1>3 DEF Conns, Pcs
    <2> QED BY <2>1, <2>2, <1>1, ConnType
<1>6. CASE FindMissed(c)
    <2> DEFINE missed == IF conn[c].last = NoEvent THEN <<>>
                         ELSE SubSeq(log, Place(conn[c].last) + 1, Len(log))
    <2>1. missed \in Seq(L)
        <3>1. CASE conn[c].last = NoEvent
            BY <3>1
        <3>2. CASE conn[c].last \in L /\ conn[c].last # NoEvent
            <4>1. Place(conn[c].last) \in Nat
                BY <3>2, PlaceLemma, <1>4
            <4>2. SubSeq(log, Place(conn[c].last) + 1, Len(log)) \in Seq(L)
                BY <4>1, <1>4, SubSeqProperties
            <4> QED BY <4>2, <3>2
        <3> QED BY <3>1, <3>2, <1>3
    <2>2. conn' = [conn EXCEPT ![c] = [conn[c] EXCEPT !.pc = "resend", !.missed = missed]]
        BY <1>6 DEF FindMissed
    <2>3. [conn[c] EXCEPT !.pc = "resend", !.missed = missed] \in Conns(L)
        BY ZenonT(40), <1>3, <2>1 DEF Conns, Pcs
    <2> QED BY <2>2, <2>3, <1>1, ConnType
<1>7. CASE FindNothing(c)
    <2>1. conn' = [conn EXCEPT ![c] = [conn[c] EXCEPT !.pc = "resend", !.base = Len(log)]]
        BY <1>7 DEF FindNothing
    <2>2. [conn[c] EXCEPT !.pc = "resend", !.base = Len(log)] \in Conns(L)
        BY ZenonT(40), <1>3, <1>4 DEF Conns, Pcs
    <2> QED BY <2>1, <2>2, <1>1, ConnType
<1>8. CASE Resend(c)
    <2> DEFINE missed == Tail(conn[c].missed)
               early  == Append(conn[c].early, Head(conn[c].missed))
    <2>1. missed \in Seq(L) /\ early \in Seq(L)
        BY <1>3, <1>8 DEF Resend
    <2>2. conn' = [conn EXCEPT ![c] = [conn[c] EXCEPT !.missed = missed, !.early = early]]
        BY <1>8 DEF Resend
    <2>3. [conn[c] EXCEPT !.missed = missed, !.early = early] \in Conns(L)
        BY <1>3, <2>1 DEF Conns
    <2> QED BY <2>2, <2>3, <1>1, ConnType
<1>9. CASE Open(c)
    <2> DEFINE q == conn[c].early
    <2>1. PICK n \in 0 .. Len(q) :
            LET last == IF n = 0 THEN conn[c].last ELSE q[n]
            IN  conn' = [conn EXCEPT ![c].pc = "open", ![c].early = <<>>, ![c].last = last,
                            ![c].had = @ \union {q[i] : i \in 1 .. n},
                            ![c].gone = n < Len(q),
                            ![c].base = IF InOrder(q) \/ n \in {0, Len(q)} THEN @
                                        ELSE Place(last)]
        BY <1>9 DEF Open
    <2> DEFINE last == IF n = 0 THEN conn[c].last ELSE q[n]
               had  == conn[c].had \union {q[i] : i \in 1 .. n}
               base == IF InOrder(q) \/ n \in {0, Len(q)} THEN conn[c].base ELSE Place(last)
               gone == n < Len(q)
    <2>2. \A i \in 1 .. n : q[i] \in L
        BY <1>3
    <2>3. last \in L \union {NoEvent} /\ had \in SUBSET L /\ gone \in BOOLEAN /\ <<>> \in Seq(L)
        BY <1>3, <2>2
    <2>4. base \in Nat
        <3>1. n # 0 => Place(q[n]) \in Nat
            BY <2>2, PlaceLemma, <1>4
        <3> QED BY <3>1, <1>3
    <2>5. conn' = [conn EXCEPT ![c] = [conn[c] EXCEPT !.pc = "open", !.early = <<>>,
                        !.last = last, !.had = had, !.gone = gone, !.base = base]]
        BY <2>1
    <2> HIDE DEF last, had, base, gone
    <2>6. [conn[c] EXCEPT !.pc = "open", !.early = <<>>, !.last = last, !.had = had,
                          !.gone = gone, !.base = base] \in Conns(L)
        BY ZenonT(40), <1>3, <2>3, <2>4 DEF Conns, Pcs
    <2> QED BY <2>5, <2>6, <1>1, ConnType
<1> QED BY <1>5, <1>6, <1>7, <1>8, <1>9

\* The end of a connection.
LEMMA EndType ==
    ASSUME TypeOK, UserInv, NEW c \in Conn,
           Leave(c) \/ Complete(c) \/ NothingToRemove(c) \/ RemoveBegins(c) \/ Check(c)
    PROVE  TypeOK'
<1> DEFINE u == conn[c].user
<1>1. u \in User
    BY DEF UserInv, Leave, Complete, NothingToRemove, RemoveBegins, Check
<1>2. ASSUME NEW pc \in Pcs, NEW gone \in BOOLEAN
      PROVE  [conn[c] EXCEPT !.pc = pc, !.gone = gone] \in Conns(Range(log))
    BY ZenonT(40), TypeParts DEF Conns
<1>3. \E pc \in Pcs, gone \in BOOLEAN :
        conn' = [conn EXCEPT ![c] = [conn[c] EXCEPT !.pc = pc, !.gone = gone]]
    <2>1. conn \in [Conn -> Conns(Range(log))] /\ conn[c] \in Conns(Range(log))
        BY TypeParts
    <2>2. ASSUME NEW pc \in Pcs, NEW gone \in BOOLEAN,
                 \/ conn' = [conn EXCEPT ![c].pc = pc] /\ gone = conn[c].gone
                 \/ conn' = [conn EXCEPT ![c].gone = gone] /\ pc = conn[c].pc
                 \/ conn' = [conn EXCEPT ![c].pc = pc, ![c].gone = gone]
          PROVE  conn' = [conn EXCEPT ![c] = [conn[c] EXCEPT !.pc = pc, !.gone = gone]]
        BY ZenonT(40), <2>1, <2>2 DEF Conns
    <2>3. conn[c].pc \in Pcs /\ conn[c].gone \in BOOLEAN
        BY <2>1 DEF Conns
    <2>4. {"over", "closed", "removing", "check", "unmap"} \subseteq Pcs
        BY DEF Pcs
    <2>5. CASE Leave(c)
        BY <2>2, <2>3, <2>5 DEF Leave
    <2>6. CASE Complete(c)
        BY <2>2, <2>4, <2>6 DEF Complete
    <2>7. CASE NothingToRemove(c) \/ RemoveBegins(c) \/ Check(c)
        <3>1. \E pc \in Pcs : conn' = [conn EXCEPT ![c].pc = pc]
            BY <2>4, <2>7 DEF NothingToRemove, RemoveBegins, Check, Deleted
        <3> QED BY <3>1, <2>2, <2>3
    <2> QED BY <2>5, <2>6, <2>7
<1>4. /\ task' \in [Thread -> Tasks(Range(log))] /\ owed' \in [Event -> SUBSET User]
      /\ log' = log
    BY TouchType, OwedType, TypeParts
    DEF Leave, Complete, NothingToRemove, RemoveBegins, Check, Disturb
<1>5. data' \in [User -> Seq(Conn) \union {NoList, Torn}]
    <2>1. data[u] \in Seq(Conn) \union {NoList, Torn}
        BY <1>1, TypeParts
    <2>2. RemoveBegins(c) => Becomes(u, data[u], c)
        BY DEF RemoveBegins
    <2>3. ~RemoveBegins(c) => data' = data
        BY DEF Leave, Complete, NothingToRemove, Check
    <2> QED BY <1>1, <2>1, <2>2, <2>3, BecomesLemma, TypeParts
<1> QED BY <1>2, <1>3, <1>4, <1>5, ConnType


LEMMA RemoveType ==
    ASSUME TypeOK, UserInv, UnderWayInv, NEW c \in Conn, RemoveEnds(c) \/ Unmap(c)
    PROVE  TypeOK'
<1> DEFINE u == conn[c].user
<1>1. u \in User /\ UNCHANGED <<log, owed>>
    BY DEF UserInv, RemoveEnds, Unmap
<1>2. \E pc \in Pcs : conn' = [conn EXCEPT ![c] = [conn[c] EXCEPT !.pc = pc]]
    BY DEF RemoveEnds, Unmap, Deleted, Pcs
<1>3. \A pc \in Pcs : [conn[c] EXCEPT !.pc = pc] \in Conns(Range(log))
    BY TypeParts DEF Conns
<1>4. data' \in [User -> Seq(Conn) \union {NoList, Torn}]
    <2>1. CASE RemoveEnds(c)
        <3>1. PICK rest \in Without(data[u], {c}) : Becomes(u, rest, c)
            BY <2>1 DEF RemoveEnds
        <3>2. data[u] \in Seq(Conn) \/ data[u] = Torn
            BY <1>1, <2>1 DEF TypeOK, UnderWayInv, RemoveEnds
        <3>3. rest \in Seq(Conn) \/ data[u] = Torn
            BY <3>2, WithoutLemma
        <3> QED BY <1>1, <3>1, <3>3, BecomesLemma
    <2>2. CASE Unmap(c)
        <3>1. Becomes(u, NoList, c)
            BY <2>2 DEF Unmap
        <3> QED BY <1>1, <3>1, BecomesLemma
    <2> QED BY <2>1, <2>2
<1>5. task' \in [Thread -> Tasks(Range(log))]
    <2> DEFINE After(t) == [task[t] EXCEPT !.at = task[t].upto + 1]
    <2>1. ASSUME NEW t \in Thread PROVE After(t) \in Tasks(Range(log))
        <3>1. task[t] \in Tasks(Range(log))
            BY TypeParts
        <3> QED BY <3>1 DEF Tasks
    <2>2. CASE RemoveEnds(c)
        BY <2>2, TypeParts DEF RemoveEnds
    <2>3. CASE Unmap(c)
        <3>1. task' = [t \in Thread |-> IF task[t].user = u THEN After(t) ELSE task[t]]
            BY <2>3 DEF Unmap
        <3>2. \A t \in Thread : task[t] \in Tasks(Range(log))
            BY TypeParts
        <3> HIDE DEF After, u
        <3> QED BY <2>1, <3>1, <3>2
    <2> QED BY <2>2, <2>3
<1>6. owed' \in [Event -> SUBSET User]
    BY <1>1, TypeParts
<1> QED BY <1>1, <1>2, <1>3, <1>4, <1>5, <1>6, ConnType

LEMMA ServeType ==
    ASSUME TypeOK, UserInv, UnderWayInv, NEW c \in Conn, Serve(c)
    PROVE  TypeOK'
BY ConnectType, AddType, OpenType, EndType, RemoveType DEF Serve

\* A step that changes the task of t, and the history, keeps the types.
LEMMA TaskType ==
    ASSUME TypeOK, NEW t \in Thread, NEW new \in Tasks(Range(log)),
           task' = [task EXCEPT ![t] = new], UNCHANGED log,
           data' \in [User -> Seq(Conn) \union {NoList, Torn}],
           conn' \in [Conn -> Conns(Range(log))],
           owed' \in [Event -> SUBSET User]
    PROVE  TypeOK'
<1>1. task' \in [Thread -> Tasks(Range(log))] /\ Range(log)' = Range(log)
    BY TypeParts DEF Range
<1> QED BY <1>1, TypeParts DEF TypeOK, Conns, Tasks, Pcs

LEMMA SendType ==
    ASSUME TypeOK, NEW t \in Thread, NEW e \in Event, NEW R \in SUBSET User, Send(t, e, R)
    PROVE  TypeOK'
<1> DEFINE L == Range(log)
           M == Range(log')
<1>1. log' = Append(log, e) /\ log' \in Seq(Event) /\ UNCHANGED <<data, conn>>
    BY TypeParts DEF Send
<1>2. L \subseteq M /\ e \in M
    <2>1. /\ DOMAIN log = 1 .. Len(log) /\ DOMAIN log' = 1 .. Len(log) + 1
          /\ \A i \in 1 .. Len(log) : log'[i] = log[i]
          /\ log'[Len(log) + 1] = e /\ Len(log) \in Nat
        BY <1>1, TypeParts
    <2> QED BY <2>1 DEF Range
<1>3. Seq(L) \subseteq Seq(M)
    <2>1. ASSUME NEW q \in Seq(L) PROVE q \in Seq(M)
        <3>1. q \in [1 .. Len(q) -> M] /\ Len(q) \in Nat
            BY <1>2
        <3> QED BY <3>1, IsASeq
    <2> QED BY <2>1
<1>4. Conns(L) \subseteq Conns(M) /\ Tasks(L) \subseteq Tasks(M)
    <2> HIDE DEF L, M
    <2> QED BY <1>2, <1>3 DEF Conns, Tasks
<1>5. task' \in [Thread -> Tasks(M)]
    <2>1. [task[t] EXCEPT !.event = e, !.left = R] \in Tasks(M)
        <3>1. task[t] \in Tasks(M)
            BY <1>4, TypeParts
        <3> QED BY <3>1, <1>2 DEF Tasks
    <2>2. task' = [task EXCEPT ![t] = [task[t] EXCEPT !.event = e, !.left = R]]
        BY DEF Send
    <2> QED BY <1>4, <2>1, <2>2, TypeParts
<1>6. owed' \in [Event -> SUBSET User]
    BY TypeParts DEF Send
<1>7. conn' \in [Conn -> Conns(M)]
    BY <1>1, <1>4, TypeParts
<1> QED BY <1>1, <1>5, <1>6, <1>7, TypeParts DEF TypeOK, Conns, Tasks, Pcs

LEMMA WalkType ==
    ASSUME TypeOK, UserInv, NEW t \in Thread,
           \/ \E u \in User : Enter(t, u) \/ Skip(t, u)
           \/ Test(t) \/ ExpungeFails(t) \/ WalkTorn(t) \/ Finish(t)
    PROVE  TypeOK'
<1> DEFINE L == Range(log)
<1>1. /\ task \in [Thread -> Tasks(L)] /\ task[t] \in Tasks(L)
      /\ conn \in [Conn -> Conns(L)] /\ owed \in [Event -> SUBSET User]
      /\ data \in [User -> Seq(Conn) \union {NoList, Torn}]
    BY TypeParts
<1>2. Idle \in Tasks(L)
    BY NewTypes
<1>3. Stop(t) => /\ task' = [task EXCEPT ![t] = Idle]
                 /\ owed' \in [Event -> SUBSET User]
    BY <1>1 DEF Stop
<1>4. [Idle EXCEPT !.event = task[t].event, !.left = task[t].left] \in Tasks(L)
    BY <1>1, <1>2 DEF Tasks
<1>5. ASSUME NEW u \in User, Skip(t, u) PROVE TypeOK'
    <2>1. [task[t] EXCEPT !.left = @ \ {u}] \in Tasks(L)
        BY <1>1 DEF Tasks
    <2>2. task' = [task EXCEPT ![t] = [task[t] EXCEPT !.left = @ \ {u}]]
        BY <1>5 DEF Skip
    <2> QED BY <1>1, <1>5, <2>1, <2>2, TaskType DEF Skip
<1>6. ASSUME NEW u \in User, Enter(t, u) PROVE TypeOK'
    <2> DEFINE upto == IF data[u] = Torn THEN 0 ELSE Len(data[u])
    <2>1. upto \in Nat
        <3>1. data[u] \in Seq(Conn) \/ data[u] = Torn
            BY <1>1, <1>6 DEF Enter
        <3> QED BY <3>1
    <2> HIDE DEF upto
    <2>2. [task[t] EXCEPT !.left = @ \ {u}, !.user = u, !.at = 1, !.upto = upto] \in Tasks(L)
        BY <1>1, <2>1 DEF Tasks
    <2>3. task' = [task EXCEPT ![t] = [task[t] EXCEPT !.left = @ \ {u}, !.user = u, !.at = 1,
                                                      !.upto = upto]]
        BY <1>6 DEF Enter, upto
    <2>4. /\ data' \in [User -> Seq(Conn) \union {NoList, Torn}]
          /\ UNCHANGED <<conn, log, owed>>
        BY <1>1, <1>6 DEF Enter
    <2> QED BY <1>1, <2>2, <2>3, <2>4, TaskType
<1>7. CASE Test(t)
    <2> DEFINE u == task[t].user
               q == data[u]
               c == q[task[t].at]
    <2>1. u \in User /\ q # Torn /\ task[t].at <= task[t].upto /\ UNCHANGED <<data, log>>
        BY <1>1, <1>7 DEF Test, Tasks
    <2>2. CASE Stop(t) /\ UNCHANGED conn
        BY <1>1, <1>2, <1>3, <2>1, <2>2, TaskType
    <2>3. CASE task[t].at \in DOMAIN q /\ Reach(t, c) /\ UNCHANGED owed
        <3>1. ASSUME NEW failing \in SUBSET Nat
              PROVE  [task[t] EXCEPT !.at = @ + 1, !.failing = @ \union failing] \in Tasks(L)
            <4>1. task[t].at + 1 \in Nat
                BY <1>1 DEF Tasks
            <4>2. (task[t].failing \union failing) \in SUBSET Nat
                BY <1>1 DEF Tasks
            <4> QED BY <1>1, <4>1, <4>2 DEF Tasks
        <3>2. PICK failing \in SUBSET Nat :
                task' = [task EXCEPT ![t] = [task[t] EXCEPT !.at = @ + 1,
                                                            !.failing = @ \union failing]]
            <4>1. task[t].at \in Nat
                BY <1>1 DEF Tasks
            <4> QED BY ZenonT(40), <2>3, <4>1 DEF Reach
        <3>3. conn' \in [Conn -> Conns(L)]
            <4>1. conn' = Sent(c, task[t].event)
                BY <2>3 DEF Reach
            <4>2. task[t].event \in L \union {NoEvent}
                BY <1>1 DEF Tasks
            <4>3. ASSUME NEW e \in L
                  PROVE  /\ [conn EXCEPT ![c].had = @ \union {e}, ![c].last = e]
                                \in [Conn -> Conns(L)]
                         /\ [conn EXCEPT ![c].early = Append(@, e)] \in [Conn -> Conns(L)]
                <5>1. ASSUME c \in Conn
                      PROVE  /\ [conn[c] EXCEPT !.had = @ \union {e}, !.last = e] \in Conns(L)
                             /\ [conn[c] EXCEPT !.early = Append(@, e)] \in Conns(L)
                    <6>1. conn[c] \in Conns(L) /\ Append(conn[c].early, e) \in Seq(L)
                        BY SMTT(20), <1>1, <5>1 DEF Conns
                    <6> HIDE DEF c
                    <6> QED BY <6>1 DEF Conns
                <5> HIDE DEF c
                <5> QED BY <1>1, <5>1
            <4> HIDE DEF c
            <4> QED BY <1>1, <4>1, <4>2, <4>3 DEF Sent
        <3> HIDE DEF c, q, u
        <3> QED BY <1>1, <2>1, <2>3, <3>1, <3>2, <3>3, TaskType
    <2> QED BY <1>7, <2>2, <2>3 DEF Test
<1>8. CASE ExpungeFails(t) \/ Finish(t) \/ (WalkTorn(t) /\ Stop(t))
    <2>1. Stop(t) /\ UNCHANGED <<data, conn, log>>
        BY <1>8 DEF ExpungeFails, Finish, WalkTorn
    <2> QED BY <1>1, <1>2, <1>3, <2>1, TaskType
<1>9. CASE WalkTorn(t) /\ task' = GoOn(t) /\ UNCHANGED owed
    BY <1>1, <1>4, <1>9, TaskType DEF WalkTorn, GoOn
<1> QED BY <1>5, <1>6, <1>7, <1>8, <1>9 DEF WalkTorn

LEMMA ExpungeType ==
    ASSUME TypeOK, WalkInv, NEW t \in Thread, Expunge(t)
    PROVE  TypeOK'
<1> DEFINE L == Range(log)
           u == task[t].user
           q == data[u]
           failed == {q[i] : i \in DOMAIN q \intersect task[t].failing}
           next == [Idle EXCEPT !.event = task[t].event, !.left = task[t].left]
<1>1. /\ task \in [Thread -> Tasks(L)] /\ task[t] \in Tasks(L)
      /\ conn \in [Conn -> Conns(L)] /\ owed \in [Event -> SUBSET User]
      /\ data \in [User -> Seq(Conn) \union {NoList, Torn}]
    BY TypeParts
<1>2. next \in Tasks(L)
    BY <1>1, NewTypes DEF Tasks
<1>3. GoOn(t) = [task EXCEPT ![t] = next] /\ GoOn(t)[t] = next
    BY <1>1 DEF GoOn
<1>4. UNCHANGED <<conn, log>> /\ u \in User /\ q # Torn
    BY <1>1 DEF Expunge, Tasks
<1>5. CASE task' = GoOn(t) /\ UNCHANGED <<data, owed>>
    <2> HIDE DEF next
    <2> QED BY <1>1, <1>2, <1>3, <1>4, <1>5, TaskType
<1>6. CASE /\ task[t].failing # {}
           /\ \E rest \in Without(q, failed) : Becomes(u, rest, NoUser)
           /\ DisturbAt(Thread \ {t}, u)
           /\ task' = [s \in Thread |->
                IF s = t THEN GoOn(t)[t]
                ELSE [task[s] EXCEPT !.changed = @ \/ task[s].user = u]]
    <2>1. owed' \in [Event -> SUBSET User]
        BY <1>6, OwedType
    <2>2. task' \in [Thread -> Tasks(L)]
        <3>1. ASSUME NEW s \in Thread, NEW b \in BOOLEAN
              PROVE  [task[s] EXCEPT !.changed = b] \in Tasks(L)
            BY <1>1 DEF Tasks
        <3>2. ASSUME NEW s \in Thread
              PROVE  [task[s] EXCEPT !.changed = @ \/ task[s].user = u] \in Tasks(L)
            <4> DEFINE b == task[s].changed \/ task[s].user = u
            <4>1. b \in BOOLEAN
                OBVIOUS
            <4> HIDE DEF b
            <4>2. [task[s] EXCEPT !.changed = b] \in Tasks(L)
                BY <3>1, <4>1
            <4> QED BY <4>2 DEF b
        <3> HIDE DEF next, u, L
        <3> QED BY <1>2, <1>3, <1>6, <3>2
    <2>3. data' \in [User -> Seq(Conn) \union {NoList, Torn}]
        <3>1. PICK rest \in Without(q, failed) : Becomes(u, rest, NoUser)
            BY <1>6
        <3>2. q \in Seq(Conn)
            BY <1>1, <1>4, <1>6, BasicSseAssumption DEF Expunge, WalkInv
        <3>3. rest \in Seq(Conn)
            BY <3>1, <3>2, WithoutLemma
        <3> HIDE DEF u
        <3> QED BY <1>4, <3>1, <3>3, BecomesLemma
    <2>4. Range(log)' = Range(log)
        BY <1>4
    <2> QED BY <1>1, <1>4, <2>1, <2>2, <2>3, <2>4, TypeParts DEF TypeOK, Conns, Tasks, Pcs
<1> QED BY <1>5, <1>6 DEF Expunge

\* Whichever implementation runs, the other one's variables stay.
LEMMA BasicTypeStep ==
    TypeOK /\ UserInv /\ UnderWayInv /\ WalkInv /\ [SseNext]_sseVars => TypeOK'
<1> SUFFICES ASSUME TypeOK, UserInv, UnderWayInv, WalkInv, [SseNext]_sseVars PROVE TypeOK'
    OBVIOUS
<1>1. CASE UNCHANGED vars
    BY <1>1 DEF vars, TypeOK
<1>2. ASSUME NEW c \in Conn, Serve(c) PROVE TypeOK'
    BY <1>2, ServeType
<1>3. ASSUME NEW t \in Thread, Operate(t) PROVE TypeOK'
    BY <1>3, SendType, WalkType, ExpungeType DEF Operate
<1> QED BY <1>1, <1>2, <1>3 DEF SseNext, Next, sseVars

-----------------------------------------------------------------------------
(* The connections of one instance: the lists.                             *)

ListInv ==
    /\ UserInv
    /\ GoneInv
    /\ UnderWayInv
    /\ MemberInv
    /\ WalkInv
    /\ QuietConnectIsListed

\* Connections that a step leaves where they are.
Stays(S) == \A d \in S : /\ conn'[d].pc = conn[d].pc /\ conn'[d].user = conn[d].user
                         /\ conn'[d].gone = conn[d].gone

\* The steps of a connection that touch neither the lists nor the threads.
LEMMA QuietMoves ==
    ASSUME TypeOK, GoneInv, NEW c \in Conn,
           \/ CountFails(c) \/ FindMissed(c) \/ FindNothing(c) \/ Resend(c) \/ Open(c)
           \/ Leave(c) \/ Complete(c) \/ NothingToRemove(c) \/ Check(c)
    PROVE  /\ UNCHANGED <<data, task>> /\ Stays(Conn \ {c})
           /\ conn'[c].user = conn[c].user /\ conn[c].pc # "new"
           /\ conn'[c].pc \notin {"new", "add", "adding", "removing"}
           /\ conn'[c].pc = "unmap" => data[conn[c].user] = <<>>
           /\ conn'[c].gone => conn'[c].pc \in {"open", "over", "removing", "check", "unmap", "closed"}
           /\ conn[c].gone => conn'[c].gone
           /\ conn[c].pc \in Listable => conn'[c].pc \in Listable \/ data[conn[c].user] \in {NoList, Torn}
           /\ conn'[c].pc \in {"added", "resend", "open"} /\ ~conn'[c].gone
              => conn[c].pc \in {"added", "resend", "open"} /\ ~conn[c].gone
<1>1. /\ conn \in [Conn -> Conns(Range(log))] /\ conn[c] \in Conns(Range(log))
    BY TypeParts
<1>2. UNCHANGED <<data, task>>
    BY DEF CountFails, FindMissed, FindNothing, Resend, Open, Leave, Complete, NothingToRemove, Check
<1>3. CASE CountFails(c)
    BY <1>1, <1>2, <1>3 DEF CountFails, Conns, Stays, Listable, GoneInv
<1>4. CASE FindMissed(c)
    BY <1>1, <1>2, <1>4 DEF FindMissed, Conns, Stays, Listable, GoneInv
<1>5. CASE FindNothing(c)
    BY <1>1, <1>2, <1>5 DEF FindNothing, Conns, Stays, Listable, GoneInv
<1>6. CASE Resend(c)
    BY <1>1, <1>2, <1>6 DEF Resend, Conns, Stays, Listable, GoneInv
<1>7. CASE Open(c)
    <2>1. PICK new : conn' = [conn EXCEPT ![c] = new] /\ new.pc = "open" /\ new.user = conn[c].user
        <3> DEFINE q == conn[c].early
        <3>1. PICK n \in 0 .. Len(q) :
                LET last == IF n = 0 THEN conn[c].last ELSE q[n]
                IN  conn' = [conn EXCEPT ![c].pc = "open", ![c].early = <<>>, ![c].last = last,
                                ![c].had = @ \union {q[i] : i \in 1 .. n},
                                ![c].gone = n < Len(q),
                                ![c].base = IF InOrder(q) \/ n \in {0, Len(q)} THEN @
                                            ELSE Place(last)]
            BY <1>7 DEF Open
        <3> DEFINE last == IF n = 0 THEN conn[c].last ELSE q[n]
                   new == [conn[c] EXCEPT !.pc = "open", !.early = <<>>, !.last = last,
                            !.had = @ \union {q[i] : i \in 1 .. n}, !.gone = n < Len(q),
                            !.base = IF InOrder(q) \/ n \in {0, Len(q)} THEN @ ELSE Place(last)]
        <3>2. conn' = [conn EXCEPT ![c] = new]
            BY <3>1
        <3>3. new.pc = "open" /\ new.user = conn[c].user
            BY <1>1 DEF Conns
        <3> QED BY <3>2, <3>3
    <2>2. /\ conn'[c].pc = "open" /\ conn'[c].user = conn[c].user
          /\ \A d \in Conn \ {c} : conn'[d] = conn[d]
        BY <1>1, <2>1
    <2>3. conn[c].pc = "resend" /\ ~conn[c].gone
        BY <1>7 DEF Open, GoneInv
    <2> QED BY <1>2, <2>2, <2>3 DEF Stays, Listable
<1>8. CASE Leave(c)
    BY <1>1, <1>2, <1>8 DEF Leave, Conns, Stays, Listable, GoneInv
<1>9. CASE Complete(c)
    BY <1>1, <1>2, <1>9 DEF Complete, Conns, Stays, Listable, GoneInv
<1>10. CASE NothingToRemove(c)
    BY <1>1, <1>2, <1>10 DEF NothingToRemove, Deleted, Conns, Stays, Listable, GoneInv
<1>11. CASE Check(c)
    <2>1. PICK pc : /\ conn' = [conn EXCEPT ![c].pc = pc]
                    /\ (pc = "unmap" /\ data[conn[c].user] = <<>>) \/ pc \in {"over", "closed"}
        BY <1>11 DEF Check, Deleted
    <2>2. /\ conn'[c].pc = pc /\ conn'[c].user = conn[c].user /\ conn'[c].gone = conn[c].gone
          /\ \A d \in Conn \ {c} : conn'[d] = conn[d]
        BY <1>1, <2>1 DEF Conns
    <2> QED BY <1>2, <1>11, <2>1, <2>2 DEF Check, Stays, Listable
<1> QED BY <1>3, <1>4, <1>5, <1>6, <1>7, <1>8, <1>9, <1>10, <1>11

\* The actions that neither change a list nor walk one keep ListInv.
LEMMA QuietStep ==
    ASSUME TypeOK, ListInv, NEW c \in Conn,
           \/ CountFails(c) \/ FindMissed(c) \/ FindNothing(c) \/ Resend(c) \/ Open(c)
           \/ Leave(c) \/ Complete(c) \/ NothingToRemove(c) \/ Check(c)
    PROVE  ListInv'
<1> USE QuietMoves DEF ListInv, Stays
<1>1. UserInv'
    BY DEF UserInv
<1>2. GoneInv'
    BY DEF GoneInv
<1>3. UnderWayInv'
    BY DEF UnderWayInv
<1>4. MemberInv'
    BY DEF MemberInv
<1>5. WalkInv'
    <2>1. ASSUME NEW t \in Thread, task[t].user # NoUser, data[task[t].user] # Torn, ~task[t].changed,
                 NEW i \in task[t].failing
          PROVE  conn'[data[task[t].user][i]].gone
        <3>1. data[task[t].user] \in Seq(Conn) /\ i \in DOMAIN data[task[t].user]
            BY <2>1, TypeParts DEF WalkInv, Tasks
        <3>2. data[task[t].user][i] \in Conn
            BY <3>1
        <3> QED BY <2>1, <3>2 DEF WalkInv
    <2> QED BY <2>1 DEF WalkInv
<1>6. QuietConnectIsListed'
    BY DEF QuietConnectIsListed, Listed
<1> QED BY <1>1, <1>2, <1>3, <1>4, <1>5, <1>6

\* connect begins: a list is there from now on.
LEMMA ConnectStep ==
    ASSUME TypeOK, ListInv, NEW c \in Conn, NEW u \in User, Connect(c, u)
    PROVE  ListInv'
<1> DEFINE q == IF data[u] = NoList THEN <<>> ELSE data[u]
<1>1. /\ conn[c].pc = "new" /\ conn'[c].pc = "add" /\ conn'[c].user = u /\ ~conn'[c].gone
      /\ Stays(Conn \ {c})
    <2>1. \A d \in Lost(u) : d \in Conn /\ d # c
        BY BasicSseAssumption DEF Lost, Of, Connect, ListInv, UserInv
    <2>2. conn[c].pc = "new" /\ conn \in [Conn -> Conns(Range(log))]
        BY TypeParts DEF Connect
    <2>3. CASE conn' = [conn EXCEPT ![c] = [NewConn EXCEPT !.pc = "add", !.user = u]]
        BY <2>2, <2>3 DEF NewConn, Stays
    <2>4. CASE \E d \in Lost(u) :
                conn' = [conn EXCEPT
                    ![c] = [NewConn EXCEPT !.pc = "add", !.user = u, !.had = conn[d].had,
                                           !.last = conn[d].last, !.base = conn[d].base],
                    ![d] = [@ EXCEPT !.had = {}, !.last = NoEvent, !.base = 0]]
        <3>1. PICK d \in Conn \ {c} :
                conn' = [conn EXCEPT
                    ![c] = [NewConn EXCEPT !.pc = "add", !.user = u, !.had = conn[d].had,
                                           !.last = conn[d].last, !.base = conn[d].base],
                    ![d] = [@ EXCEPT !.had = {}, !.last = NoEvent, !.base = 0]]
            BY <2>1, <2>4
        <3>2. \A e \in Conn \ {c, d} : conn'[e] = conn[e]
            BY <2>2, <3>1
        <3>3. /\ conn'[d].pc = conn[d].pc /\ conn'[d].user = conn[d].user
              /\ conn'[d].gone = conn[d].gone
            BY <2>2, <3>1 DEF Conns
        <3>4. conn'[c].pc = "add" /\ conn'[c].user = u /\ ~conn'[c].gone
            BY <2>2, <3>1 DEF NewConn
        <3> QED BY <2>2, <3>2, <3>3, <3>4 DEF Stays
    <2> QED BY <2>3, <2>4 DEF Connect
<1>2. Becomes(u, q, c) /\ task' = task
    BY DEF Connect
<1>3. /\ data'[u] \in {q, Torn} /\ q # NoList
      /\ \A v \in User \ {u} : data'[v] = data[v]
      /\ data[u] = Torn => data'[u] = Torn
      /\ \A d \in Conn \ {c} :
            conn[d].user = u /\ conn[d].pc \in {"add", "adding", "removing", "check", "unmap"}
            => data'[u] = Torn
    BY <1>2, BecomesLemma, NoLists
<1>4. data'[u] \in {data[u], Torn} \/ (data[u] = NoList /\ data'[u] = <<>>)
    BY <1>3
<1> HIDE DEF q
<1> USE <1>1, <1>2, <1>3, <1>4 DEF ListInv, Stays
<1>5. UserInv'
    BY DEF UserInv
<1>6. GoneInv'
    BY DEF GoneInv
<1>7. UnderWayInv'
    BY NoLists DEF UnderWayInv, UserInv
<1>8. MemberInv'
    <2>1. Range(<<>>) = {}
        BY DEF Range
    <2> QED BY <2>1 DEF MemberInv, Listable
<1>9. WalkInv'
    <2> SUFFICES ASSUME NEW t \in Thread, task[t].user # NoUser
                 PROVE  /\ data'[task[t].user] = NoList => task[t].at > task[t].upto
                        /\ data'[task[t].user] # Torn /\ ~task[t].changed =>
                            /\ \A d \in Conn : conn'[d].user = task[t].user
                                               => conn'[d].pc \notin {"adding", "removing"}
                            /\ data'[task[t].user] = NoList => task[t].failing = {}
                            /\ \A i \in task[t].failing :
                                /\ i \in DOMAIN data'[task[t].user]
                                /\ conn'[data'[task[t].user][i]].gone
        BY DEF WalkInv
    <2> DEFINE v == task[t].user
    <2>1. v \in User
        BY TypeParts DEF Tasks
    <2>2. ASSUME data'[v] # Torn, ~task[t].changed, NEW i \in task[t].failing
          PROVE  i \in DOMAIN data'[v] /\ conn'[data'[v][i]].gone
        <3>1. data[v] # Torn /\ data[v] # NoList /\ i \in DOMAIN data[v] /\ conn[data[v][i]].gone
            BY <2>1, <2>2 DEF WalkInv
        <3>2. data'[v] = data[v]
            BY <2>1, <2>2, <3>1
        <3>3. data[v][i] \in Conn /\ data[v][i] \in Range(data[v])
            BY <2>1, <3>1, TypeParts DEF Range
        <3>4. data[v][i] # c
            BY <2>1, <3>1, <3>3 DEF MemberInv, Listable
        <3> QED BY <3>1, <3>2, <3>3, <3>4
    <2>3. data'[v] = NoList => data[v] = NoList
        BY <2>1, NoLists
    <2>4. data'[v] # Torn => data[v] # Torn
        BY <2>1
    <2> QED BY <2>1, <2>2, <2>3, <2>4 DEF WalkInv
<1>10. QuietConnectIsListed'
    BY NoLists DEF QuietConnectIsListed, Listed, UserInv
<1> QED BY <1>5, <1>6, <1>7, <1>8, <1>9, <1>10

\* add begins.
LEMMA AddBeginsStep ==
    ASSUME TypeOK, ListInv, NEW c \in Conn, AddBegins(c)
    PROVE  ListInv'
<1>1. /\ conn[c].pc = "add" /\ conn'[c].pc = "adding" /\ conn'[c].user = conn[c].user
      /\ conn'[c].gone = conn[c].gone /\ Stays(Conn \ {c}) /\ data' = data
    BY TypeParts DEF AddBegins, Conns, Stays
<1>2. ASSUME NEW t \in Thread
      PROVE  /\ task'[t].user = task[t].user /\ task'[t].failing = task[t].failing
             /\ task'[t].at = task[t].at /\ task'[t].upto = task[t].upto
             /\ ~task'[t].changed => ~task[t].changed /\ task[t].user # conn[c].user
    BY TypeParts DEF AddBegins, Touch, Tasks
<1> USE <1>1, <1>2 DEF ListInv, Stays
<1>3. UserInv'
    BY DEF UserInv
<1>4. GoneInv'
    BY DEF GoneInv
<1>5. UnderWayInv'
    BY DEF UnderWayInv
<1>6. MemberInv'
    BY DEF MemberInv, Listable
<1>7. WalkInv'
    <2>1. ASSUME NEW t \in Thread, task[t].user # NoUser, data[task[t].user] # Torn,
                 ~task[t].changed, NEW i \in task[t].failing
          PROVE  conn'[data[task[t].user][i]].gone
        <3>1. data[task[t].user] \in Seq(Conn) /\ i \in DOMAIN data[task[t].user]
            BY <2>1, TypeParts DEF WalkInv, Tasks
        <3>2. data[task[t].user][i] \in Conn
            BY <3>1
        <3> QED BY <2>1, <3>2 DEF WalkInv
    <2> QED BY <2>1 DEF WalkInv
<1>8. QuietConnectIsListed'
    BY DEF QuietConnectIsListed, Listed
<1> QED BY <1>3, <1>4, <1>5, <1>6, <1>7, <1>8


\* An appended element is in the list.
LEMMA AppendRange ==
    ASSUME NEW q \in Seq(Conn), NEW c \in Conn
    PROVE  Append(q, c) \in Seq(Conn) /\ Range(Append(q, c)) = Range(q) \union {c}
<1>1. /\ Append(q, c) \in Seq(Conn) /\ DOMAIN q = 1 .. Len(q) /\ Len(q) \in Nat
      /\ DOMAIN Append(q, c) = 1 .. Len(q) + 1
      /\ \A i \in 1 .. Len(q) : Append(q, c)[i] = q[i]
      /\ Append(q, c)[Len(q) + 1] = c
    OBVIOUS
<1>2. Range(q) \union {c} \subseteq Range(Append(q, c))
    BY <1>1 DEF Range
<1>3. ASSUME NEW i \in DOMAIN Append(q, c) PROVE Append(q, c)[i] \in Range(q) \union {c}
    BY <1>1 DEF Range
<1> QED BY <1>1, <1>2, <1>3 DEF Range

\* add ends, remove ends, and a list is forgotten: other threads that walk the list saw
\* that it changed, or it is torn.
LEMMA WalkDisturbed ==
    ASSUME TypeOK, WalkInv, NEW c \in Conn, NEW u \in User,
           \A v \in User \ {u} : data'[v] = data[v],
           data[u] = Torn => data'[u] = Torn,
           data'[u] = Torn \/ (/\ data'[u] # NoList
                               /\ conn[c].user = u /\ conn[c].pc \in {"adding", "removing"}),
           Stays(Conn \ {c}), conn'[c].pc \notin {"adding", "removing"},
           conn'[c].gone = conn[c].gone, task' = task
    PROVE  WalkInv'
<1> SUFFICES ASSUME NEW t \in Thread, task[t].user # NoUser
             PROVE  /\ data'[task[t].user] = NoList => task[t].at > task[t].upto
                    /\ data'[task[t].user] # Torn /\ ~task[t].changed =>
                        /\ \A d \in Conn : conn'[d].user = task[t].user
                                           => conn'[d].pc \notin {"adding", "removing"}
                        /\ data'[task[t].user] = NoList => task[t].failing = {}
                        /\ \A i \in task[t].failing :
                            /\ i \in DOMAIN data'[task[t].user]
                            /\ conn'[data'[task[t].user][i]].gone
    BY DEF WalkInv
<1>1. task[t].user \in User
    BY TypeParts DEF Tasks
<1>2. CASE task[t].user = u
    BY <1>1, <1>2, NoLists DEF WalkInv
<1>3. CASE task[t].user # u
    <2>1. data'[task[t].user] = data[task[t].user]
        BY <1>1, <1>3
    <2>2. ASSUME data[task[t].user] # Torn, ~task[t].changed, NEW i \in task[t].failing
          PROVE  conn'[data[task[t].user][i]].gone
        <3>1. data[task[t].user] \in Seq(Conn) /\ i \in DOMAIN data[task[t].user]
            BY <1>1, <2>2, TypeParts DEF WalkInv
        <3>2. data[task[t].user][i] \in Conn
            BY <3>1
        <3> QED BY <2>2, <3>2 DEF WalkInv, Stays
    <2> QED BY <2>1, <2>2 DEF WalkInv, Stays
<1> QED BY <1>2, <1>3

\* The emitter is in the list, or the list is torn.
LEMMA AddEndsStep ==
    ASSUME TypeOK, ListInv, NEW c \in Conn, AddEnds(c)
    PROVE  ListInv'
<1> DEFINE u == conn[c].user
           q == Append(data[u], c)
<1>1. /\ conn[c].pc = "adding" /\ conn'[c].pc = "added" /\ conn'[c].user = u
      /\ conn'[c].gone = conn[c].gone /\ Stays(Conn \ {c}) /\ task' = task
    BY TypeParts DEF AddEnds, Conns, Stays
<1>2. u \in User /\ Becomes(u, q, c)
    BY <1>1 DEF AddEnds, ListInv, UserInv
<1>3. data[u] \in Seq(Conn) \/ data[u] = Torn
    BY <1>1, <1>2, TypeParts DEF ListInv, UnderWayInv
<1>4. /\ data'[u] \in {q, Torn}
      /\ \A v \in User \ {u} : data'[v] = data[v]
      /\ data[u] = Torn => data'[u] = Torn
      /\ \A d \in Conn \ {c} :
            conn[d].user = u /\ conn[d].pc \in {"add", "adding", "removing", "check", "unmap"}
            => data'[u] = Torn
    <2> HIDE DEF q, u
    <2> QED BY <1>2, BecomesLemma
<1>5. data'[u] = Torn \/ (/\ data'[u] \in Seq(Conn) /\ data[u] \in Seq(Conn)
                          /\ Range(data'[u]) = Range(data[u]) \union {c})
    BY <1>3, <1>4, AppendRange
<1> HIDE DEF q
<1> USE <1>1, <1>2, <1>4, <1>5, NoLists DEF ListInv, Stays
<1>6. UserInv'
    BY DEF UserInv
<1>7. GoneInv'
    BY DEF GoneInv
<1>8. UnderWayInv'
    BY DEF UnderWayInv, UserInv
<1>9. MemberInv'
    BY SMTT(20) DEF MemberInv, Listable
<1>10. WalkInv'
    BY WalkDisturbed
<1>11. QuietConnectIsListed'
    BY DEF QuietConnectIsListed, Listed, UserInv
<1> QED BY <1>6, <1>7, <1>8, <1>9, <1>10, <1>11

\* The emitter is out of the list, or the list is torn.
LEMMA RemoveEndsStep ==
    ASSUME TypeOK, ListInv, NEW c \in Conn, RemoveEnds(c)
    PROVE  ListInv'
<1> DEFINE u == conn[c].user
<1>1. /\ conn[c].pc = "removing" /\ conn'[c].pc = "check" /\ conn'[c].user = u
      /\ conn'[c].gone = conn[c].gone /\ Stays(Conn \ {c}) /\ task' = task
    BY TypeParts DEF RemoveEnds, Conns, Stays
<1>2. PICK rest \in Without(data[u], {c}) : Becomes(u, rest, c)
    BY DEF RemoveEnds
<1>3. u \in User /\ (data[u] \in Seq(Conn) \/ data[u] = Torn)
    BY <1>1, TypeParts DEF ListInv, UnderWayInv, UserInv
<1>4. /\ data'[u] \in {rest, Torn}
      /\ \A v \in User \ {u} : data'[v] = data[v]
      /\ data[u] = Torn => data'[u] = Torn
      /\ \A d \in Conn \ {c} :
            conn[d].user = u /\ conn[d].pc \in {"add", "adding", "removing", "check", "unmap"}
            => data'[u] = Torn
    <2> HIDE DEF u
    <2> QED BY <1>2, <1>3, BecomesLemma
<1>5. data'[u] = Torn \/ (/\ data'[u] \in Seq(Conn) /\ data[u] \in Seq(Conn)
                          /\ Range(data'[u]) = Range(data[u]) \ {c})
    BY <1>2, <1>3, <1>4, WithoutLemma
<1> USE <1>1, <1>3, <1>4, <1>5, NoLists DEF ListInv, Stays
<1>6. UserInv'
    BY DEF UserInv
<1>7. GoneInv'
    BY DEF GoneInv
<1>8. UnderWayInv'
    BY DEF UnderWayInv, UserInv
<1>9. MemberInv'
    BY SMTT(20) DEF MemberInv, Listable
<1>10. WalkInv'
    BY WalkDisturbed
<1>11. QuietConnectIsListed'
    <2>1. ASSUME NEW d \in Conn \ {c}, conn[d].pc \in {"added", "resend", "open"}, ~conn[d].gone
          PROVE  LET v == conn[d].user
                 IN  data'[v] = Torn \/ (data'[v] \notin {NoList, Torn} /\ d \in Range(data'[v]))
        <3>1. conn[d].user \in User
            BY <2>1 DEF UserInv
        <3>2. data[conn[d].user] = Torn \/ (/\ data[conn[d].user] \notin {NoList, Torn}
                                           /\ d \in Range(data[conn[d].user]))
            BY <2>1 DEF QuietConnectIsListed, Listed
        <3>3. CASE conn[d].user = u
            BY <2>1, <3>2, <3>3
        <3>4. CASE conn[d].user # u
            BY <3>1, <3>2, <3>4
        <3> QED BY <3>3, <3>4
    <2> QED BY <2>1 DEF QuietConnectIsListed, Listed
<1> QED BY <1>6, <1>7, <1>8, <1>9, <1>10, <1>11

\* remove begins.
LEMMA RemoveBeginsStep ==
    ASSUME TypeOK, ListInv, NEW c \in Conn, RemoveBegins(c)
    PROVE  ListInv'
<1> DEFINE u == conn[c].user
<1>1. /\ conn[c].pc = "over" /\ conn'[c].user = u /\ data[u] \notin {NoList, Torn}
      /\ conn'[c].gone = conn[c].gone /\ Stays(Conn \ {c})
    BY TypeParts DEF RemoveBegins, Conns, Stays
<1>2. IF Listed(c) THEN conn'[c].pc = "removing" /\ Touch(u)
      ELSE conn'[c].pc = "check" /\ task' = task
    BY TypeParts DEF RemoveBegins, Conns
<1>3. u \in User /\ Becomes(u, data[u], c)
    BY <1>1 DEF RemoveBegins, ListInv, UserInv
<1>4. /\ data'[u] \in {data[u], Torn}
      /\ \A v \in User \ {u} : data'[v] = data[v]
    <2> HIDE DEF u
    <2> QED BY <1>3, BecomesLemma
<1>5. ASSUME NEW t \in Thread
      PROVE  /\ task'[t].user = task[t].user /\ task'[t].failing = task[t].failing
             /\ task'[t].at = task[t].at /\ task'[t].upto = task[t].upto
             /\ ~task'[t].changed => ~task[t].changed
             /\ ~task'[t].changed /\ task[t].user = u => conn'[c].pc = "check"
    <2>1. CASE Touch(u)
        BY <2>1, <1>2, TypeParts DEF Touch, Tasks
    <2> QED BY <1>2, <2>1
<1>6. data' \in [User -> Seq(Conn) \union {NoList, Torn}]
    <2> HIDE DEF u
    <2> QED BY <1>3, BecomesLemma, TypeParts
<1>7. ~Listed(c) => c \notin Range(data[u])
    BY <1>1 DEF Listed
<1>8. conn'[c].pc \in {"removing", "check"}
    BY <1>2
<1>9. conn'[c].pc = "check" => c \notin Range(data[u])
    BY <1>2, <1>7
<1> USE <1>1, <1>3, <1>4, <1>5, <1>8, <1>9, NoLists DEF ListInv, Stays
<1>10. UserInv'
    BY DEF UserInv
<1>11. GoneInv'
    BY DEF GoneInv
<1>12. UnderWayInv'
    BY DEF UnderWayInv, UserInv
<1>13. MemberInv'
    BY DEF MemberInv, Listable
<1>14. WalkInv'
    <2> SUFFICES ASSUME NEW t \in Thread, task[t].user # NoUser, task[t].user \in User
                 PROVE  /\ data'[task[t].user] = NoList => task[t].at > task[t].upto
                        /\ data'[task[t].user] # Torn /\ ~task'[t].changed =>
                            /\ \A d \in Conn : conn'[d].user = task[t].user
                                               => conn'[d].pc \notin {"adding", "removing"}
                            /\ data'[task[t].user] = NoList => task[t].failing = {}
                            /\ \A i \in task[t].failing :
                                /\ i \in DOMAIN data'[task[t].user]
                                /\ conn'[data'[task[t].user][i]].gone
        BY SMTT(20), TypeParts DEF WalkInv, Tasks
    <2> DEFINE v == task[t].user
    <2>1. ASSUME data'[v] # Torn, ~task'[t].changed, NEW i \in task[t].failing
          PROVE  i \in DOMAIN data'[v] /\ conn'[data'[v][i]].gone
        <3>1. data'[v] = data[v] /\ data[v] # Torn
            BY <2>1
        <3>2. data[v] \in Seq(Conn) /\ i \in DOMAIN data[v] /\ conn[data[v][i]].gone
            BY <2>1, <3>1, TypeParts DEF WalkInv
        <3>3. data[v][i] \in Conn
            BY <3>2
        <3> QED BY <3>1, <3>2, <3>3
    <2>2. data'[v] \in {data[v], Torn}
        OBVIOUS
    <2> QED BY SMTT(20), <2>1, <2>2 DEF WalkInv
<1>15. QuietConnectIsListed'
    BY DEF QuietConnectIsListed, Listed, UserInv
<1> QED BY <1>10, <1>11, <1>12, <1>13, <1>14, <1>15

\* A list is forgotten.
LEMMA UnmapStep ==
    ASSUME TypeOK, ListInv, NEW c \in Conn, Unmap(c)
    PROVE  ListInv'
<1> DEFINE u == conn[c].user
<1>1. /\ conn[c].pc = "unmap" /\ conn'[c].user = u /\ conn'[c].pc \in {"over", "closed"}
      /\ conn'[c].gone = conn[c].gone /\ Stays(Conn \ {c})
    BY TypeParts DEF Unmap, Deleted, Conns, Stays
<1>2. u \in User /\ Becomes(u, NoList, c) /\ data[u] \in {<<>>, Torn}
    BY <1>1 DEF Unmap, ListInv, UserInv, UnderWayInv
<1>3. /\ data'[u] \in {NoList, Torn}
      /\ \A v \in User \ {u} : data'[v] = data[v]
      /\ data[u] = Torn => data'[u] = Torn
      /\ \A d \in Conn \ {c} :
            conn[d].user = u /\ conn[d].pc \in {"add", "adding", "removing", "check", "unmap"}
            => data'[u] = Torn
    <2> HIDE DEF u
    <2> QED BY <1>2, BecomesLemma
<1>4. ASSUME NEW t \in Thread
      PROVE  /\ task'[t].user = task[t].user /\ task'[t].failing = task[t].failing
             /\ task'[t].upto = task[t].upto /\ task'[t].changed = task[t].changed
             /\ task'[t].at = IF task[t].user = u THEN task[t].upto + 1 ELSE task[t].at
             /\ task[t].upto \in Nat
    BY TypeParts DEF Unmap, Tasks
<1>5. Range(<<>>) = {}
    BY DEF Range
<1> USE <1>1, <1>2, <1>3, <1>4, <1>5, NoLists DEF ListInv, Stays
<1>6. UserInv'
    BY DEF UserInv
<1>7. GoneInv'
    BY DEF GoneInv
<1>8. UnderWayInv'
    BY DEF UnderWayInv, UserInv
<1>9. MemberInv'
    BY DEF MemberInv, Listable
<1>10. WalkInv'
    <2> SUFFICES ASSUME NEW t \in Thread, task[t].user # NoUser, task[t].user \in User
                 PROVE  /\ data'[task[t].user] = NoList => task'[t].at > task[t].upto
                        /\ data'[task[t].user] # Torn /\ ~task[t].changed =>
                            /\ \A d \in Conn : conn'[d].user = task[t].user
                                               => conn'[d].pc \notin {"adding", "removing"}
                            /\ data'[task[t].user] = NoList => task[t].failing = {}
                            /\ \A i \in task[t].failing :
                                /\ i \in DOMAIN data'[task[t].user]
                                /\ conn'[data'[task[t].user][i]].gone
        BY TypeParts DEF WalkInv, Tasks
    <2> DEFINE v == task[t].user
    <2>1. CASE v = u
        <3>1. data[u] = <<>> /\ ~task[t].changed => task[t].failing = {}
            BY <2>1 DEF WalkInv
        <3> QED BY <2>1, <3>1 DEF WalkInv
    <2>2. CASE v # u
        <3>1. data'[v] = data[v]
            BY <2>2
        <3>2. ASSUME data[v] # Torn, ~task[t].changed, NEW i \in task[t].failing
              PROVE  i \in DOMAIN data[v] /\ conn'[data[v][i]].gone
            <4>1. data[v] \in Seq(Conn) /\ i \in DOMAIN data[v] /\ conn[data[v][i]].gone
                BY <3>2, TypeParts DEF WalkInv
            <4>2. data[v][i] \in Conn
                BY <4>1
            <4> QED BY <4>1, <4>2
        <3> QED BY SMTT(20), <2>2, <3>1, <3>2 DEF WalkInv
    <2> QED BY <2>1, <2>2
<1>11. QuietConnectIsListed'
    BY DEF QuietConnectIsListed, Listed, UserInv
<1> QED BY <1>6, <1>7, <1>8, <1>9, <1>10, <1>11

\* What a thread does when it is not in a list, or leaves it.
LEMMA OutsideStep ==
    ASSUME TypeOK, ListInv, NEW t \in Thread,
           data' = data, Stays(Conn),
           \A s \in Thread \ {t} : task'[s] = task[s],
           task'[t].user = NoUser, task'[t].failing = {}
    PROVE  ListInv'
<1> USE DEF ListInv, Stays
<1>1. UserInv' /\ GoneInv'
    BY DEF UserInv, GoneInv
<1>2. UnderWayInv' /\ MemberInv'
    BY DEF UnderWayInv, MemberInv
<1>3. WalkInv'
    <2> SUFFICES ASSUME NEW s \in Thread \ {t}, task[s].user # NoUser, task[s].user \in User,
                        data[task[s].user] # Torn, ~task[s].changed, NEW i \in task[s].failing
                 PROVE  conn'[data[task[s].user][i]].gone
        <3>1. \A s \in Thread : task[s].user \in User \union {NoUser}
            BY TypeParts DEF Tasks
        <3> QED BY <3>1 DEF WalkInv
    <2>1. data[task[s].user] \in Seq(Conn) /\ i \in DOMAIN data[task[s].user]
        BY TypeParts DEF WalkInv
    <2>2. data[task[s].user][i] \in Conn
        BY <2>1
    <2> QED BY <2>2 DEF WalkInv
<1>4. QuietConnectIsListed'
    BY DEF QuietConnectIsListed, Listed
<1> QED BY <1>1, <1>2, <1>3, <1>4

\* sending leaves connections where they are.
LEMMA SentStays ==
    ASSUME TypeOK, NEW c, NEW e, conn' = Sent(c, e)
    PROVE  Stays(Conn)
BY TypeParts DEF Sent, Conns, Stays

\* A walk begins over the list as it is.
LEMMA EnterStep ==
    ASSUME TypeOK, ListInv, NEW t \in Thread, NEW u \in User, Enter(t, u)
    PROVE  ListInv'
<1>1. /\ task[t].user = NoUser /\ data[u] # NoList /\ conn' = conn
      /\ task'[t].user = u /\ task'[t].failing = {}
      /\ \A s \in Thread \ {t} : task'[s] = task[s]
    BY TypeParts DEF Enter, Tasks, ListInv, WalkInv
<1>2. /\ data'[u] \in {data[u], Torn}
      /\ \A v \in User \ {u} : data'[v] = data[v]
      /\ \A c \in Conn : conn[c].user = u /\ conn[c].pc \in {"adding", "removing"}
                         => data'[u] = Torn
    BY TypeParts DEF Enter, Of
<1> USE <1>1, <1>2, NoLists DEF ListInv
<1>3. UserInv' /\ GoneInv'
    BY DEF UserInv, GoneInv
<1>4. UnderWayInv' /\ MemberInv'
    BY DEF UnderWayInv, MemberInv, UserInv
<1>5. WalkInv'
    <2>1. NoUser \notin User
        BY BasicSseAssumption
    <2>2. ASSUME NEW s \in Thread \ {t}
          PROVE  task[s].user \in User \union {NoUser}
        BY TypeParts DEF Tasks
    <2> QED BY <2>1, <2>2 DEF WalkInv
<1>6. QuietConnectIsListed'
    BY DEF QuietConnectIsListed, Listed, UserInv
<1> QED BY <1>3, <1>4, <1>5, <1>6

\* An element that fails is one whose client has gone.
LEMMA TestStep ==
    ASSUME TypeOK, ListInv, NEW t \in Thread, Test(t)
    PROVE  ListInv'
<1> DEFINE u == task[t].user
           i == task[t].at
           c == data[u][i]
<1>1. u # NoUser /\ i <= task[t].upto /\ data[u] # Torn /\ data' = data
    BY DEF Test
<1>2. CASE Stop(t) /\ UNCHANGED conn
    <2>1. task'[t] = Idle /\ \A s \in Thread \ {t} : task'[s] = task[s]
        BY <1>2, TypeParts DEF Stop
    <2> QED BY <1>1, <1>2, <2>1, OutsideStep DEF Idle, Stays
<1>3. CASE i \in DOMAIN data[u] /\ Reach(t, c)
    <2>1. conn' = Sent(c, task[t].event)
        BY <1>3 DEF Reach
    <2>2. Stays(Conn)
        <3> HIDE DEF c
        <3> QED BY <2>1, SentStays
    <2>3. /\ task'[t].user = u /\ task'[t].upto = task[t].upto
          /\ task'[t].changed = task[t].changed
          /\ task'[t].failing = task[t].failing
             \/ (conn[c].gone /\ task'[t].failing = task[t].failing \union {i})
          /\ \A s \in Thread \ {t} : task'[s] = task[s]
        <3>1. PICK failing \in {{}} \union (IF conn[c].gone THEN {{i}} ELSE {}) :
                task' = [task EXCEPT ![t].at = @ + 1, ![t].failing = @ \union failing]
            BY <1>3 DEF Reach
        <3>2. failing = {} \/ (conn[c].gone /\ failing = {i})
            BY <3>1
        <3>3. task \in [Thread -> Tasks(Range(log))] /\ task[t] \in Tasks(Range(log))
            BY TypeParts
        <3>4. /\ task'[t] = [task[t] EXCEPT !.at = @ + 1, !.failing = @ \union failing]
              /\ \A s \in Thread \ {t} : task'[s] = task[s]
            BY <3>1, <3>3
        <3> HIDE DEF c, u, i
        <3>5. /\ task'[t].user = task[t].user /\ task'[t].upto = task[t].upto
              /\ task'[t].changed = task[t].changed
              /\ task'[t].failing = task[t].failing \union failing
            BY <3>3, <3>4 DEF Tasks
        <3> QED BY <3>2, <3>4, <3>5 DEF u
    <2>4. u \in User /\ data[u] # NoList
        BY <1>1, TypeParts DEF Tasks, ListInv, WalkInv
    <2> USE <1>1, <2>2, <2>3, <2>4 DEF ListInv, Stays
    <2>5. UserInv' /\ GoneInv'
        BY DEF UserInv, GoneInv
    <2>6. UnderWayInv' /\ MemberInv'
        BY DEF UnderWayInv, MemberInv
    <2>7. WalkInv'
        <3>1. ASSUME NEW s \in Thread, task[s].user # NoUser, data[task[s].user] # Torn,
                     ~task[s].changed, NEW k \in task[s].failing
              PROVE  conn'[data[task[s].user][k]].gone
            <4>1. data[task[s].user] \in Seq(Conn) /\ k \in DOMAIN data[task[s].user]
                BY <3>1, TypeParts DEF WalkInv, Tasks
            <4>2. data[task[s].user][k] \in Conn
                BY <4>1
            <4> QED BY <3>1, <4>2 DEF WalkInv
        <3>2. conn[c].gone => conn'[c].gone
            <4>1. data[u] \in Seq(Conn)
                BY TypeParts
            <4>2. c \in Conn
                BY <1>3, <4>1
            <4> QED BY <4>2
        <3>3. ASSUME NEW s \in Thread \ {t}
              PROVE  task'[s] = task[s]
            OBVIOUS
        <3>4. ASSUME ~task[t].changed, NEW k \in task'[t].failing
              PROVE  k \in DOMAIN data[u] /\ conn'[data[u][k]].gone
            <4>1. CASE k \in task[t].failing
                BY <3>1, <3>4, <4>1 DEF WalkInv
            <4>2. CASE conn[c].gone /\ k = i
                BY <1>3, <3>2, <4>2
            <4> QED BY <3>4, <4>1, <4>2
        <3> HIDE DEF c
        <3>5. ASSUME NEW s \in Thread \ {t}
              PROVE  /\ task'[s].user = NoUser => task'[s].failing = {}
                     /\ task'[s].user # NoUser /\ data'[task'[s].user] = NoList
                        => task'[s].at > task'[s].upto
                     /\ task'[s].user # NoUser /\ data'[task'[s].user] # Torn /\ ~task'[s].changed =>
                        /\ \A d \in Conn : conn'[d].user = task'[s].user
                                           => conn'[d].pc \notin {"adding", "removing"}
                        /\ data'[task'[s].user] = NoList => task'[s].failing = {}
                        /\ \A k \in task'[s].failing : /\ k \in DOMAIN data'[task'[s].user]
                                                      /\ conn'[data'[task'[s].user][k]].gone
            BY <3>1, <3>3 DEF WalkInv
        <3>6. /\ task'[t].user # NoUser /\ data'[task'[t].user] # NoList
              /\ ~task'[t].changed =>
                        /\ \A d \in Conn : conn'[d].user = task'[t].user
                                           => conn'[d].pc \notin {"adding", "removing"}
                        /\ \A k \in task'[t].failing : /\ k \in DOMAIN data'[task'[t].user]
                                                      /\ conn'[data'[task'[t].user][k]].gone
            BY <3>4 DEF WalkInv
        <3> QED BY <3>5, <3>6 DEF WalkInv
    <2>8. QuietConnectIsListed'
        BY DEF QuietConnectIsListed, Listed
    <2> QED BY <2>5, <2>6, <2>7, <2>8
<1> QED BY <1>2, <1>3 DEF Test

\* What is expunged are the failed ones, at the places they were found.
LEMMA ExpungeStep ==
    ASSUME TypeOK, ListInv, NEW t \in Thread, Expunge(t)
    PROVE  ListInv'
<1> DEFINE u == task[t].user
           q == data[u]
           failed == {q[i] : i \in DOMAIN q \intersect task[t].failing}
<1>1. u # NoUser /\ u \in User /\ q # Torn /\ ~task[t].changed /\ conn' = conn
    BY TypeParts DEF Expunge, Tasks
<1>2. task'[t] = GoOn(t)[t] /\ GoOn(t)[t].user = NoUser /\ GoOn(t)[t].failing = {}
    BY TypeParts DEF Expunge, GoOn, Idle
<1>3. CASE task' = GoOn(t) /\ data' = data
    <2>1. \A s \in Thread \ {t} : task'[s] = task[s]
        BY <1>3, TypeParts DEF GoOn
    <2> QED BY <1>1, <1>2, <1>3, <2>1, OutsideStep DEF Stays
<1>4. CASE /\ task[t].failing # {}
           /\ \E rest \in Without(q, failed) : Becomes(u, rest, NoUser)
           /\ task' = [s \in Thread |->
                IF s = t THEN GoOn(t)[t]
                ELSE [task[s] EXCEPT !.changed = @ \/ task[s].user = u]]
    <2>1. q \in Seq(Conn)
        BY <1>1, <1>4, TypeParts DEF ListInv, WalkInv
    <2>2. PICK rest \in Without(q, failed) : Becomes(u, rest, NoUser)
        BY <1>4
    <2>3. rest \in Seq(Conn) /\ Range(rest) = Range(q) \ failed
        BY <2>1, <2>2, WithoutLemma
    <2>4. /\ data'[u] \in {rest, Torn}
          /\ \A v \in User \ {u} : data'[v] = data[v]
          /\ \A d \in Conn :
                conn[d].user = u /\ conn[d].pc \in {"add", "adding", "removing", "check", "unmap"}
                => data'[u] = Torn
        <3> HIDE DEF u
        <3> QED BY <1>1, <2>2, NoLists, BecomesLemma
    <2>5. \A d \in failed : conn[d].gone
        BY <1>1 DEF ListInv, WalkInv
    <2>6. ASSUME NEW s \in Thread \ {t}
          PROVE  /\ task'[s].user = task[s].user /\ task'[s].failing = task[s].failing
                 /\ task'[s].at = task[s].at /\ task'[s].upto = task[s].upto
                 /\ ~task'[s].changed => ~task[s].changed /\ task[s].user # u
        BY <1>4, TypeParts DEF Tasks
    <2> HIDE DEF failed
    <2> USE <1>1, <1>2, <2>3, <2>4, <2>5, <2>6, NoLists DEF ListInv
    <2>7. UserInv' /\ GoneInv'
        BY DEF UserInv, GoneInv
    <2>8. UnderWayInv'
        <3>1. ASSUME NEW d \in Conn,
                     conn[d].pc \in {"add", "adding", "removing", "unmap"}
              PROVE  data'[conn[d].user] \in {data[conn[d].user], Torn}
            BY <3>1 DEF UserInv
        <3> QED BY <3>1 DEF UnderWayInv
    <2>9. MemberInv'
        BY <2>1 DEF MemberInv
    <2>10. WalkInv'
        <3>1. \A s \in Thread : task[s].user \in User \union {NoUser}
            BY TypeParts DEF Tasks
        <3> QED BY <3>1 DEF WalkInv
    <2>11. QuietConnectIsListed'
        <3>1. ASSUME NEW d \in Conn, conn[d].pc \in {"added", "resend", "open"}, ~conn[d].gone
              PROVE  LET v == conn[d].user
                     IN  data'[v] = Torn
                         \/ (data'[v] \notin {NoList, Torn} /\ d \in Range(data'[v]))
            <4>1. conn[d].user \in User
                BY <3>1 DEF UserInv
            <4>2. data[conn[d].user] = Torn \/ (/\ data[conn[d].user] \notin {NoList, Torn}
                                               /\ d \in Range(data[conn[d].user]))
                BY <3>1 DEF QuietConnectIsListed, Listed
            <4>3. CASE conn[d].user = u
                BY <3>1, <4>2, <4>3
            <4>4. CASE conn[d].user # u
                BY <4>1, <4>2, <4>4
            <4> QED BY <4>3, <4>4
        <3> QED BY <3>1 DEF QuietConnectIsListed, Listed
    <2> QED BY <2>7, <2>8, <2>9, <2>10, <2>11
<1> QED BY <1>3, <1>4 DEF Expunge

\* Every step keeps ListInv.
LEMMA ListStep == TypeOK /\ ListInv /\ [SseNext]_sseVars => ListInv'
<1> SUFFICES ASSUME TypeOK, ListInv, [SseNext]_sseVars PROVE ListInv'
    OBVIOUS
<1>1. CASE UNCHANGED vars
    BY <1>1 DEF vars, ListInv, UserInv, GoneInv, UnderWayInv, MemberInv, WalkInv,
                QuietConnectIsListed, Listed
<1>2. ASSUME NEW c \in Conn, Serve(c) PROVE ListInv'
    BY <1>2, ConnectStep, AddBeginsStep, AddEndsStep, QuietStep, RemoveBeginsStep, RemoveEndsStep,
       UnmapStep DEF Serve
<1>3. ASSUME NEW t \in Thread, Operate(t) PROVE ListInv'
    <2>1. ASSUME NEW e \in Event, NEW R \in SUBSET User, Send(t, e, R) PROVE ListInv'
        <3>1. /\ UNCHANGED <<data, conn>> /\ \A s \in Thread \ {t} : task'[s] = task[s]
              /\ task'[t].user = NoUser /\ task'[t].failing = {}
            BY <2>1, TypeParts DEF Send, Tasks, Idle
        <3> QED BY <3>1, OutsideStep DEF Stays
    <2>2. ASSUME NEW u \in User, Skip(t, u) PROVE ListInv'
        <3>1. /\ UNCHANGED <<data, conn>> /\ \A s \in Thread \ {t} : task'[s] = task[s]
              /\ task'[t].user = NoUser /\ task'[t].failing = {}
            BY <2>2, TypeParts DEF Skip, Tasks, ListInv, WalkInv
        <3> QED BY <3>1, OutsideStep DEF Stays
    <2>3. CASE ExpungeFails(t) \/ Finish(t) \/ WalkTorn(t)
        <3>1. /\ UNCHANGED <<data, conn>>
              /\ Stop(t) \/ task' = GoOn(t)
            BY <2>3 DEF ExpungeFails, Finish, WalkTorn
        <3>2. PICK new :
                task' = [task EXCEPT ![t] = new] /\ new.user = NoUser /\ new.failing = {}
            <4>1. Idle.user = NoUser /\ Idle.failing = {}
                BY DEF Idle
            <4>2. \A e, l : /\ [Idle EXCEPT !.event = e, !.left = l].user = NoUser
                           /\ [Idle EXCEPT !.event = e, !.left = l].failing = {}
                BY DEF Idle
            <4>3. CASE Stop(t)
                BY <4>1, <4>3 DEF Stop
            <4>4. CASE task' = GoOn(t)
                <5> DEFINE new == [Idle EXCEPT !.event = task[t].event, !.left = task[t].left]
                <5>1. task' = [task EXCEPT ![t] = new]
                    BY <4>4 DEF GoOn
                <5>2. new.user = NoUser /\ new.failing = {}
                    BY <4>2
                <5> HIDE DEF new
                <5> QED BY <5>1, <5>2
            <4> QED BY <3>1, <4>3, <4>4
        <3>3. /\ \A s \in Thread \ {t} : task'[s] = task[s]
              /\ task'[t].user = NoUser /\ task'[t].failing = {}
            BY <3>2, TypeParts
        <3> QED BY <3>1, <3>3, OutsideStep DEF Stays
    <2> QED BY <1>3, <2>1, <2>2, <2>3, EnterStep, TestStep, ExpungeStep DEF Operate
<1> QED BY <1>1, <1>2, <1>3 DEF SseNext, Next, sseVars

\* ListInv holds of no connections.
LEMMA ListInit == Init => ListInv
<1> SUFFICES ASSUME Init PROVE ListInv
    OBVIOUS
<1>1. Range(<<>>) = {}
    BY DEF Range
<1> QED BY <1>1, BasicSseAssumption
        DEF Init, NewConn, Idle, ListInv, UserInv, GoneInv, UnderWayInv, MemberInv, WalkInv,
            QuietConnectIsListed, Listed

\* Types and lists, of every behaviour.
LEMMA SseInvariant == SseSpec => [](TypeOK /\ ListInv)
<1>1. SseInit => TypeOK /\ ListInv
    BY BasicTypeInit, ListInit DEF SseInit
<1>2. TypeOK /\ ListInv /\ [SseNext]_sseVars => (TypeOK /\ ListInv)'
    BY BasicTypeStep, ListStep DEF ListInv
<1> QED BY <1>1, <1>2, PTL DEF SseSpec

\* The variables of both implementations have their types.
THEOREM TypeCorrect == SseSpec => [](TypeOK /\ Redis!TypeOK)
BY SseInvariant, RedisTypeInit, RedisTypeStep, PTL DEF SseSpec

\* Unless two operations on the list of its user overlapped, an emitter whose client reads
\* is in the list: whoever is connected is heard of.
THEOREM QuietConnectsAreListed == SseSpec => []QuietConnectIsListed
<1>1. TypeOK /\ ListInv => QuietConnectIsListed
    BY DEF ListInv
<1> QED BY <1>1, SseInvariant, PTL

\* An emitter that is over is in no list any more.
THEOREM OversAreForgotten == SseSpec => []OverIsForgotten
<1>1. TypeOK /\ ListInv => OverIsForgotten
    BY DEF ListInv, UserInv, MemberInv, Listable, OverIsForgotten, Listed
<1> QED BY <1>1, SseInvariant, PTL
-----------------------------------------------------------------------------
(* The connections of one instance: nothing is skipped.  SkipInv follows   *)
(* an event from the log to the client that it is owed to: a thread still  *)
(* has it to send, or it waits in the emitter or among the missed ones, or *)
(* the client has it.                                                      *)

\* An event is saved once.
LogInv == \A i, j \in DOMAIN log : log[i] = log[j] => i = j

\* A walk that saw no change is on a list as long as it was, or on one that was forgotten
\* meanwhile and begun anew.
WalkerInv ==
    \A t \in Thread :
        /\ task[t].user = NoUser => ~task[t].changed
        /\ task[t].user # NoUser => task[t].at > 0
        /\ /\ task[t].user # NoUser /\ ~task[t].changed
           /\ data[task[t].user] \notin {NoList, Torn}
           => \/ task[t].upto = Len(data[task[t].user])
              \/ data[task[t].user] = <<>> /\ task[t].at > task[t].upto

Readable == {"added", "resend", "open"}

\* An event that is owed while it is sent is owed to those the call still has to come to,
\* its walk was not disturbed, and no emitter in the lists of its receivers is complete.
OwedInv ==
    \A t \in Thread :
        task[t].event # NoEvent /\ owed[task[t].event] # {} =>
            /\ task[t].left \subseteq owed[task[t].event]
            /\ task[t].user # NoUser => task[t].user \in owed[task[t].event]
            /\ ~task[t].changed
            /\ \A u \in owed[task[t].event] : data[u] \notin {NoList, Torn} =>
                \A c \in Range(data[u]) : conn[c].pc \in Readable

\* Missed events are asked for once the emitter is added, and all of them, with what waits
\* in it, are sent before the response is open.
WaitInv ==
    \A c \in Conn :
        /\ conn[c].pc \in {"new", "add", "adding", "added", "open"} => conn[c].missed = <<>>
        /\ conn[c].pc = "open" => conn[c].early = <<>>

\* What connection c should have: the k-th event of the log.
Owing(c, k) == k > conn[c].base /\ conn[c].user \in owed[log[k]]

\* A client that will connect again with the id of the last event it read, or has done so,
\* has all it should have up to that event.
Whole(c) ==
    /\ conn[c].gone \/ conn[c].pc \in {"add", "adding", "added", "resend"}
    /\ conn[c].last # NoEvent
    /\ data[conn[c].user] # Torn
    => \A k, m \in DOMAIN log :
         Owing(c, k) /\ log[m] = conn[c].last /\ k <= m => log[k] \in conn[c].had
WholeInv == \A c \in Conn : Whole(c)

\* Thread t still has event e to send to connection c.
Ahead(t, c, e) ==
    /\ task[t].event = e
    /\ \/ conn[c].user \in task[t].left
       \/ /\ task[t].user = conn[c].user /\ ~task[t].changed
          /\ \E i \in DOMAIN data[conn[c].user] :
                i >= task[t].at /\ data[conn[c].user][i] = c

Has(c, e) ==
    e \in conn[c].had \/ e \in Range(conn[c].early) \/ e \in Range(conn[c].missed)

\* It is still to be asked for.
Unasked(c, k) ==
    /\ conn[c].pc = "added" /\ conn[c].last # NoEvent
    /\ \A m \in DOMAIN log : log[m] = conn[c].last => k > m

Quiet(c) == conn[c].pc \in Readable /\ ~conn[c].gone /\ data[conn[c].user] # Torn

\* What a connection should have it has, or it is on its way.
Reached(c) ==
    Quiet(c) =>
        \A k \in DOMAIN log : Owing(c, k) =>
            Has(c, log[k]) \/ Unasked(c, k) \/ \E t \in Thread : Ahead(t, c, log[k])
ReachInv == \A c \in Conn : Reached(c)

SkipInv == LogInv /\ WalkerInv /\ OwedInv /\ WaitInv /\ WholeInv /\ ReachInv

\* Sendings are only ever disturbed, a torn list stays torn.
Lessened == \A e \in Event : owed'[e] \in {owed[e], {}}
Lasting  == \A u \in User : data[u] = Torn => data'[u] = Torn

\* The types the steps need, field by field.
LEMMA ConnFields ==
    ASSUME TypeOK, NEW c \in Conn
    PROVE  /\ conn[c].user \in User \union {NoUser} /\ conn[c].pc \in Pcs
           /\ conn[c].had \subseteq Range(log) /\ conn[c].base \in Nat
           /\ conn[c].early \in Seq(Range(log)) /\ conn[c].missed \in Seq(Range(log))
           /\ conn[c].last \in Range(log) \union {NoEvent} /\ conn[c].gone \in BOOLEAN
BY TypeParts DEF Conns

\* The fields of a call,
LEMMA TaskFields ==
    ASSUME TypeOK, NEW t \in Thread
    PROVE  /\ task[t].event \in Range(log) \union {NoEvent} /\ task[t].left \subseteq User
           /\ task[t].user \in User \union {NoUser} /\ task[t].at \in Nat
           /\ task[t].upto \in Nat /\ task[t].changed \in BOOLEAN
BY TypeParts DEF Tasks

\* and what the log holds.
LEMMA LogFields ==
    ASSUME TypeOK
    PROVE  /\ Len(log) \in Nat /\ DOMAIN log = 1 .. Len(log) /\ Range(log) \subseteq Event
           /\ \A k \in DOMAIN log : log[k] \in Event /\ log[k] \in Range(log)
           /\ NoEvent \notin Event
BY TypeParts, BasicSseAssumption DEF Range

\* Nobody who is sent something is owed it any more.
LEMMA DisturbLemma ==
    ASSUME TypeOK, NEW T \in SUBSET Thread, NEW u, DisturbAt(T, u)
    PROVE  /\ Lessened
           /\ \A t \in T : task[t].event # NoEvent => u \notin owed'[task[t].event]
           /\ \A t \in T : /\ task[t].event # NoEvent /\ u \in owed[task[t].event]
                           => owed'[task[t].event] = {}
<1>1. \A e \in Event : owed'[e] = IF u \in owed[e] /\ \E t \in T : task[t].event = e
                                  THEN {} ELSE owed[e]
    BY DEF DisturbAt
<1>2. \A t \in T : task[t].event # NoEvent => task[t].event \in Event
    BY TaskFields, LogFields
<1> QED BY <1>1, <1>2 DEF Lessened

\* A call that stops is over, and its event is owed to nobody more than before.
LEMMA StopLemma ==
    ASSUME TypeOK, NEW t \in Thread, Stop(t)
    PROVE  /\ Lessened
           /\ task'[t] = Idle /\ \A s \in Thread \ {t} : task'[s] = task[s]
           /\ task[t].event # NoEvent /\ (\E u \in owed[task[t].event] : data[u] = Torn)
              => owed'[task[t].event] = {}
<1>1. task[t].event # NoEvent => task[t].event \in Event
    BY TaskFields, LogFields
<1> QED BY <1>1, TypeParts DEF Stop, Lessened

\* The frame of Whole.
LEMMA WholeKeeps ==
    ASSUME TypeOK, NEW c \in Conn, Whole(c), conn[c].user \in User, log' = log, Lessened, Lasting,
           conn'[c].user = conn[c].user, conn'[c].had = conn[c].had,
           conn'[c].last = conn[c].last, conn'[c].base = conn[c].base,
           conn'[c].gone \/ conn'[c].pc \in {"add", "adding", "added", "resend"}
           => conn[c].gone \/ conn[c].pc \in {"add", "adding", "added", "resend"}
    PROVE  Whole(c)'
<1>1. \A k \in DOMAIN log : Owing(c, k)' => Owing(c, k)
    BY LogFields DEF Owing, Lessened
<1> QED BY <1>1 DEF Whole, Lasting

\* The frame of Reached.
LEMMA ReachKeeps ==
    ASSUME TypeOK, NEW c \in Conn, Reached(c), log' = log, Lessened,
           Quiet(c)' => Quiet(c),
           conn'[c].user = conn[c].user, conn'[c].base = conn[c].base,
           conn[c].pc = "added" => conn'[c].pc = "added" /\ conn'[c].last = conn[c].last,
           \A e \in Range(log) : Has(c, e) => Has(c, e)',
           \A t \in Thread, e \in Range(log) :
                Quiet(c) /\ Quiet(c)' /\ Ahead(t, c, e) /\ conn[c].user \in owed'[e] /\ e \in Event
                => Has(c, e)' \/ \E s \in Thread : Ahead(s, c, e)'
    PROVE  Reached(c)'
<1> SUFFICES ASSUME Quiet(c)', NEW k \in DOMAIN log, Owing(c, k)'
             PROVE  Has(c, log[k])' \/ Unasked(c, k)' \/ \E t \in Thread : Ahead(t, c, log[k])'
    BY DEF Reached
<1>1. log[k] \in Event /\ log[k] \in Range(log)
    BY LogFields
<1>2. Owing(c, k) /\ conn[c].user \in owed'[log[k]]
    BY <1>1 DEF Owing, Lessened
<1>3. Unasked(c, k) => Unasked(c, k)'
    BY DEF Unasked
<1>4. Has(c, log[k]) => Has(c, log[k])'
    BY <1>1
<1>5. (\E t \in Thread : Ahead(t, c, log[k])) =>
          Has(c, log[k])' \/ \E s \in Thread : Ahead(s, c, log[k])'
    BY <1>1, <1>2
<1> QED BY <1>2, <1>3, <1>4, <1>5 DEF Reached

\* A step of the connections S that leaves the other ones as they are.
LEMMA OthersKeep ==
    ASSUME TypeOK, ListInv, WholeInv, ReachInv, NEW S \in SUBSET Conn, log' = log, Lessened, Lasting,
           \A d \in Conn \ S : conn'[d] = conn[d],
           \A d \in Conn \ S, t \in Thread, e \in Event :
                Quiet(d) /\ Quiet(d)' /\ Ahead(t, d, e) /\ conn[d].user \in owed'[e]
                => Ahead(t, d, e)',
           \A d \in S : Whole(d)' /\ Reached(d)'
    PROVE  WholeInv' /\ ReachInv'
<1>1. ASSUME NEW d \in Conn \ S PROVE Whole(d)' /\ Reached(d)'
    <2>1. conn'[d] = conn[d] /\ Whole(d) /\ Reached(d)
        BY <1>1 DEF WholeInv, ReachInv
    <2>2. CASE conn[d].pc = "new"
        <3>1. ~conn[d].gone /\ conn[d].pc \notin {"add", "adding", "added", "resend"} \union Readable
            BY <2>2 DEF ListInv, GoneInv, Readable
        <3> QED BY <2>1, <3>1 DEF Whole, Reached, Quiet
    <2>3. CASE conn[d].pc # "new"
        <3>1. conn[d].user \in User
            BY <2>3 DEF ListInv, UserInv
        <3>2. Whole(d)'
            BY <2>1, <3>1, WholeKeeps
        <3>3. Quiet(d)' => Quiet(d)
            BY <2>1, <3>1 DEF Quiet, Lasting
        <3>4. \A e \in Range(log) : Has(d, e) => Has(d, e)'
            BY <2>1 DEF Has
        <3>5. ASSUME NEW t \in Thread, NEW e \in Range(log), Quiet(d), Quiet(d)', Ahead(t, d, e),
                     conn[d].user \in owed'[e], e \in Event
              PROVE  \E s \in Thread : Ahead(s, d, e)'
            <4>1. Ahead(t, d, e)'
                BY <3>5
            <4> QED BY <4>1
        <3>6. Reached(d)'
            BY <2>1, <3>3, <3>4, <3>5, ReachKeeps
        <3> QED BY <3>2, <3>6
    <2> QED BY <2>2, <2>3
<1>2. \A d \in Conn : Whole(d)' /\ Reached(d)'
    BY <1>1
<1> QED BY <1>2 DEF WholeInv, ReachInv

\* Who has still to send to a connection stays while its list and the walks through it do.
LEMMA AheadSame ==
    ASSUME NEW d \in Conn, conn'[d].user = conn[d].user, NEW t \in Thread, NEW e,
           data'[conn[d].user] = data[conn[d].user],
           task'[t].event = task[t].event, task'[t].left = task[t].left,
           task'[t].user = task[t].user,
           task[t].user = conn[d].user =>
                task'[t].at = task[t].at /\ task'[t].changed = task[t].changed
    PROVE  Ahead(t, d, e)' = Ahead(t, d, e)
BY DEF Ahead

\* A quiet connection is in its user's list.
LEMMA QuietListed ==
    ASSUME ListInv, NEW d \in Conn, Quiet(d)
    PROVE  /\ conn[d].user \in User
           /\ data[conn[d].user] \notin {NoList, Torn} /\ d \in Range(data[conn[d].user])
BY DEF ListInv, UserInv, QuietConnectIsListed, Quiet, Readable, Listed

\* The frame of OwedInv: connections, lists and sendings.
LEMMA OwedKeeps ==
    ASSUME TypeOK, OwedInv, Lessened,
           \A t \in Thread : /\ task'[t].event = task[t].event
                             /\ task'[t].left \subseteq task[t].left
                             /\ task'[t].user \in {task[t].user, NoUser}
                             /\ task'[t].changed =>
                                    \/ task[t].changed
                                    \/ task[t].event # NoEvent => owed'[task[t].event] = {},
           \A t \in Thread, u \in User :
                /\ task[t].event # NoEvent /\ u \in owed'[task[t].event]
                /\ data'[u] \notin {NoList, Torn}
                /\ data[u] \notin {NoList, Torn} => \A c \in Range(data[u]) : conn[c].pc \in Readable
                => \A c \in Range(data'[u]) : conn'[c].pc \in Readable
    PROVE  OwedInv'
<1> SUFFICES ASSUME NEW t \in Thread, task[t].event # NoEvent, owed'[task[t].event] # {}
             PROVE  /\ task'[t].left \subseteq owed'[task[t].event]
                    /\ task'[t].user # NoUser => task'[t].user \in owed'[task[t].event]
                    /\ ~task'[t].changed
                    /\ \A u \in owed'[task[t].event] : data'[u] \notin {NoList, Torn} =>
                        \A c \in Range(data'[u]) : conn'[c].pc \in Readable
    BY DEF OwedInv
<1>1. task[t].event \in Event
    BY TaskFields, LogFields
<1>2. owed'[task[t].event] = owed[task[t].event] /\ owed[task[t].event] \subseteq User
    BY <1>1, TypeParts DEF Lessened
<1> QED BY <1>1, <1>2 DEF OwedInv

\* The frame of WalkerInv.
LEMMA WalkerKeeps ==
    ASSUME TypeOK, WalkerInv, WalkInv, Lasting,
           \A t \in Thread : /\ task'[t].user = task[t].user /\ task'[t].upto = task[t].upto
                             /\ task'[t].at = task[t].at
                             /\ ~task'[t].changed => ~task[t].changed
                             /\ task'[t].changed => task[t].changed \/ task[t].user # NoUser,
           \A t \in Thread :
                task[t].user # NoUser /\ ~task'[t].changed /\ data'[task[t].user] # Torn
                => \/ data'[task[t].user] \in {data[task[t].user], NoList}
                   \/ data[task[t].user] = NoList /\ data'[task[t].user] = <<>>
    PROVE  WalkerInv'
<1> SUFFICES ASSUME NEW t \in Thread, task[t].user # NoUser, ~task'[t].changed,
                    data'[task[t].user] \notin {NoList, Torn}
             PROVE  \/ task[t].upto = Len(data'[task[t].user])
                    \/ data'[task[t].user] = <<>> /\ task[t].at > task[t].upto
    BY DEF WalkerInv
<1>1. task[t].user \in User
    BY TaskFields
<1>2. data[task[t].user] # Torn
    BY <1>1 DEF Lasting
<1> QED BY <1>1, <1>2 DEF WalkerInv, WalkInv

\* A step of connection c that touches neither the lists nor the threads.
LEMMA MoveKeeps ==
    ASSUME TypeOK, ListInv, SkipInv, NEW c \in Conn, conn[c].user \in User, log' = log, Lessened,
           UNCHANGED <<data, task>>, conn'[c].user = conn[c].user,
           \A d \in Conn \ {c} : conn'[d] = conn[d],
           \/ conn[c].pc \in Readable => conn'[c].pc \in Readable
           \/ data[conn[c].user] \in {NoList, Torn}
           \/ \A t \in Thread : task[t].event # NoEvent => conn[c].user \notin owed'[task[t].event],
           conn'[c].pc \in {"new", "add", "adding", "added", "open"} => conn'[c].missed = <<>>,
           conn'[c].pc = "open" => conn'[c].early = <<>>,
           Whole(c)', Reached(c)'
    PROVE  SkipInv'
<1>1. LogInv'
    BY DEF SkipInv, LogInv
<1>2. WalkerInv'
    BY DEF SkipInv, WalkerInv
<1>3. OwedInv'
    <2>1. ASSUME NEW t \in Thread, NEW u \in User, task[t].event # NoEvent,
                 u \in owed'[task[t].event], data[u] \notin {NoList, Torn},
                 \A d \in Range(data[u]) : conn[d].pc \in Readable,
                 NEW d \in Range(data[u])
          PROVE  conn'[d].pc \in Readable
        <3>1. d \in Conn
            BY <2>1, TypeParts DEF Range
        <3>2. conn[d].user = u
            BY <2>1, <3>1 DEF ListInv, MemberInv
        <3> QED BY <2>1, <3>1, <3>2
    <2> QED BY <2>1, OwedKeeps DEF SkipInv
<1>4. WaitInv'
    BY DEF SkipInv, WaitInv
<1>5. WholeInv' /\ ReachInv'
    <2>1. \A d \in Conn \ {c}, t \in Thread, e \in Event : Ahead(t, d, e) => Ahead(t, d, e)'
        BY AheadSame
    <2>2. \A d \in {c} : Whole(d)' /\ Reached(d)'
        OBVIOUS
    <2>3. WholeInv /\ ReachInv /\ Lasting /\ {c} \in SUBSET Conn
        BY DEF SkipInv, Lasting
    <2> QED BY <2>1, <2>2, <2>3, OthersKeep
<1> QED BY <1>1, <1>2, <1>3, <1>4, <1>5 DEF SkipInv

\* The client is lost: it has what it should have up to the event it read last.
LEMMA LostIsWhole ==
    ASSUME TypeOK, ListInv, SkipInv, NEW c \in Conn, conn[c].pc = "open", ~conn[c].gone,
           Disturb(conn[c].user), log' = log, data' = data,
           conn'[c].user = conn[c].user, conn'[c].had = conn[c].had,
           conn'[c].last = conn[c].last, conn'[c].base = conn[c].base
    PROVE  Whole(c)'
<1> SUFFICES ASSUME data[conn[c].user] # Torn, NEW k \in DOMAIN log, Owing(c, k)'
             PROVE  log[k] \in conn[c].had
    BY DEF Whole
<1>1. log[k] \in Event /\ NoEvent \notin Event
    BY LogFields
<1>2. Lessened /\ \A t \in Thread : task[t].event # NoEvent => conn[c].user \notin owed'[task[t].event]
    BY DisturbLemma DEF Disturb
<1>3. Owing(c, k) /\ conn[c].user \in owed'[log[k]]
    BY <1>1, <1>2 DEF Owing, Lessened
<1>4. \A t \in Thread : ~Ahead(t, c, log[k])
    BY <1>1, <1>2, <1>3 DEF Ahead
<1>5. conn[c].early = <<>> /\ conn[c].missed = <<>>
    BY DEF SkipInv, WaitInv
<1>6. Quiet(c) /\ Reached(c) /\ ~Unasked(c, k)
    BY DEF Quiet, Readable, SkipInv, ReachInv, Unasked
<1>7. Has(c, log[k])
    BY <1>3, <1>4, <1>6 DEF Reached
<1>8. Range(<<>>) = {}
    BY DEF Range
<1> QED BY <1>5, <1>7, <1>8 DEF Has

\* What each action leaves of SkipInv. A client that leaves has all up to its last event.
LEMMA EndSkips ==
    ASSUME TypeOK, ListInv, SkipInv, NEW c \in Conn, Leave(c) \/ Complete(c)
    PROVE  SkipInv'
<1>1. /\ conn[c].pc = "open" /\ log' = log /\ UNCHANGED <<data, task>> /\ Disturb(conn[c].user)
      /\ conn'[c].gone /\ conn'[c].pc \in {"open", "over"}
      /\ conn'[c].user = conn[c].user /\ conn'[c].had = conn[c].had
      /\ conn'[c].last = conn[c].last /\ conn'[c].base = conn[c].base
      /\ conn'[c].missed = conn[c].missed /\ conn'[c].early = conn[c].early
      /\ \A d \in Conn \ {c} : conn'[d] = conn[d]
    BY TypeParts DEF Leave, Complete, Conns
<1>2. conn[c].user \in User
    BY <1>1 DEF ListInv, UserInv
<1>3. Lessened /\ \A t \in Thread : task[t].event # NoEvent => conn[c].user \notin owed'[task[t].event]
    BY <1>1, DisturbLemma DEF Disturb
<1>4. Whole(c)'
    <2>1. CASE conn[c].gone
        BY <1>1, <1>2, <1>3, <2>1, WholeKeeps DEF SkipInv, WholeInv, Lasting
    <2>2. CASE ~conn[c].gone
        BY <1>1, <2>2, LostIsWhole
    <2> QED BY <2>1, <2>2
<1>5. Reached(c)'
    BY <1>1 DEF Reached, Quiet
<1>6. conn'[c].missed = <<>> /\ conn'[c].early = <<>>
    BY <1>1 DEF SkipInv, WaitInv
<1> QED BY <1>1, <1>2, <1>3, <1>4, <1>5, <1>6, MoveKeeps

\* What has no client that reads.
LEMMA IdleSkips ==
    ASSUME TypeOK, ListInv, SkipInv, NEW c \in Conn,
           CountFails(c) \/ NothingToRemove(c) \/ Check(c)
    PROVE  SkipInv'
<1>1. /\ conn[c].pc \in {"added", "over", "check"} /\ UNCHANGED <<log, data, task, owed>>
      /\ conn'[c].pc \in {"failed", "over", "closed", "unmap"}
      /\ conn[c].pc = "added" => data[conn[c].user] \in {NoList, Torn}
      /\ conn'[c].user = conn[c].user /\ conn'[c].gone = conn[c].gone
      /\ conn'[c].had = conn[c].had /\ conn'[c].last = conn[c].last /\ conn'[c].base = conn[c].base
      /\ \A d \in Conn \ {c} : conn'[d] = conn[d]
    <2>1. CASE CountFails(c)
        BY <2>1, TypeParts DEF CountFails, Conns
    <2>2. CASE NothingToRemove(c) \/ Check(c)
        <3>1. PICK pc \in {"over", "closed", "unmap"} : conn' = [conn EXCEPT ![c].pc = pc]
            BY <2>2 DEF NothingToRemove, Check, Deleted
        <3>2. conn[c].pc \in {"over", "check"} /\ UNCHANGED <<log, data, task, owed>>
            BY <2>2 DEF NothingToRemove, Check
        <3> QED BY <3>1, <3>2, TypeParts DEF Conns
    <2> QED BY <2>1, <2>2
<1>2. conn[c].user \in User
    BY <1>1 DEF ListInv, UserInv
<1>3. Lessened /\ Lasting
    BY <1>1 DEF Lessened, Lasting
<1>4. Whole(c)'
    BY <1>1, <1>2, <1>3, WholeKeeps DEF SkipInv, WholeInv
<1>5. Reached(c)'
    BY <1>1 DEF Reached, Quiet, Readable
<1> QED BY <1>1, <1>2, <1>3, <1>4, <1>5, MoveKeeps DEF Readable

\* The missed events are those after the last one.
LEMMA FindSkips ==
    ASSUME TypeOK, ListInv, SkipInv, NEW c \in Conn, FindMissed(c) \/ FindNothing(c)
    PROVE  SkipInv'
<1>1. /\ conn[c].pc = "added" /\ UNCHANGED <<log, data, task, owed>>
      /\ conn'[c].pc = "resend" /\ conn'[c].user = conn[c].user /\ conn'[c].gone = conn[c].gone
      /\ conn'[c].had = conn[c].had /\ conn'[c].last = conn[c].last
      /\ conn'[c].early = conn[c].early
      /\ \/ /\ conn'[c].base = conn[c].base
            /\ conn[c].last # NoEvent =>
                    conn'[c].missed = SubSeq(log, Place(conn[c].last) + 1, Len(log))
         \/ conn'[c].base = Len(log)
      /\ \A d \in Conn \ {c} : conn'[d] = conn[d]
    BY TypeParts DEF FindMissed, FindNothing, Conns
<1>2. conn[c].user \in User /\ ~conn[c].gone
    BY <1>1 DEF ListInv, UserInv, GoneInv
<1>3. Lessened /\ Lasting
    BY <1>1 DEF Lessened, Lasting
<1>4. /\ \A k \in DOMAIN log : Owing(c, k)' =>
            conn'[c].base = conn[c].base /\ Owing(c, k)
      /\ conn'[c].base # conn[c].base => \A k \in DOMAIN log : ~Owing(c, k)'
    BY <1>1, LogFields DEF Owing
<1>5. Whole(c)'
    <2>1. Whole(c)
        BY DEF SkipInv, WholeInv
    <2> QED BY <1>1, <1>4, <2>1 DEF Whole
<1>6. Reached(c)'
    <2> SUFFICES ASSUME Quiet(c)', NEW k \in DOMAIN log, Owing(c, k)'
                 PROVE  Has(c, log[k])' \/ \E t \in Thread : Ahead(t, c, log[k])'
        BY <1>1 DEF Reached
    <2>1. Quiet(c) /\ Owing(c, k)
        BY <1>1, <1>4 DEF Quiet, Readable
    <2>2. Has(c, log[k]) \/ Unasked(c, k) \/ \E t \in Thread : Ahead(t, c, log[k])
        BY <2>1 DEF SkipInv, ReachInv, Reached
    <2>3. CASE Has(c, log[k])
        <3>1. conn[c].missed = <<>> /\ Range(<<>>) = {}
            BY <1>1 DEF SkipInv, WaitInv, Range
        <3> QED BY <1>1, <2>3, <3>1 DEF Has
    <2>4. CASE \E t \in Thread : Ahead(t, c, log[k])
        BY <1>1, <2>4, AheadSame
    <2>5. CASE Unasked(c, k)
        <3> DEFINE m == Place(conn[c].last)
                   q == SubSeq(log, m + 1, Len(log))
        <3>1. conn[c].last \in Range(log)
            BY <2>5, ConnFields DEF Unasked
        <3>2. m \in 1 .. Len(log) /\ log[m] = conn[c].last
            BY <3>1, PlaceLemma
        <3>3. k > m /\ k \in 1 .. Len(log) /\ Len(log) \in Nat /\ log \in Seq(Event)
            BY <2>5, <3>2, LogFields, TypeParts DEF Unasked
        <3>4. \/ conn'[c].missed = q
              \/ conn'[c].base = Len(log)
            BY <1>1, <2>5 DEF Unasked
        <3>5. conn'[c].missed = q
            BY <3>3, <3>4 DEF Owing
        <3> HIDE DEF m
        <3>6. k - m \in DOMAIN q /\ q[k - m] = log[k]
            <4>1. m + 1 \in 1 .. Len(log) /\ Len(log) \in m .. Len(log)
                BY <3>2, <3>3
            <4>2. /\ q \in Seq(Event) /\ Len(q) = Len(log) - m
                  /\ \A i \in 1 .. Len(log) - m : q[i] = log[m + i]
                BY <3>2, <3>3, <4>1
            <4>3. k - m \in 1 .. Len(log) - m /\ m + (k - m) = k
                BY <3>2, <3>3
            <4> QED BY <4>2, <4>3
        <3> HIDE DEF q
        <3>7. log[k] \in Range(q)
            BY <3>6 DEF Range
        <3> QED BY <1>1, <3>5, <3>7 DEF Has
    <2> QED BY <2>2, <2>3, <2>4, <2>5
<1> QED BY <1>1, <1>2, <1>3, <1>5, <1>6, MoveKeeps DEF Readable

\* What is in a queue is in what was taken from it or is left.
LEMMA HeadTailRange ==
    ASSUME NEW S, NEW q \in Seq(S), NEW p \in Seq(S), q # <<>>
    PROVE  /\ Append(p, Head(q)) \in Seq(S) /\ Tail(q) \in Seq(S)
           /\ Range(q) \union Range(p) \subseteq Range(Tail(q)) \union Range(Append(p, Head(q)))
<1>1. /\ Append(p, Head(q)) \in Seq(S) /\ Tail(q) \in Seq(S)
      /\ Len(q) \in Nat /\ Len(p) \in Nat /\ Len(q) > 0
      /\ DOMAIN q = 1 .. Len(q) /\ DOMAIN p = 1 .. Len(p)
      /\ DOMAIN Tail(q) = 1 .. Len(q) - 1 /\ DOMAIN Append(p, Head(q)) = 1 .. Len(p) + 1
      /\ \A i \in 1 .. Len(q) - 1 : Tail(q)[i] = q[i + 1]
      /\ \A i \in 1 .. Len(p) : Append(p, Head(q))[i] = p[i]
      /\ Append(p, Head(q))[Len(p) + 1] = q[1]
    OBVIOUS
<1>2. ASSUME NEW i \in DOMAIN q PROVE q[i] \in Range(Tail(q)) \union Range(Append(p, Head(q)))
    <2>1. CASE i = 1
        BY <1>1, <2>1 DEF Range
    <2>2. CASE i # 1
        <3>1. i - 1 \in DOMAIN Tail(q) /\ Tail(q)[i - 1] = q[i]
            BY <1>1, <2>2
        <3> QED BY <3>1 DEF Range
    <2> QED BY <2>1, <2>2
<1>3. Range(p) \subseteq Range(Append(p, Head(q)))
    BY <1>1 DEF Range
<1> QED BY <1>1, <1>2, <1>3 DEF Range

\* What was missed reaches the client, or nothing more does and it will ask again.
LEMMA ResendSkips ==
    ASSUME TypeOK, ListInv, SkipInv, NEW c \in Conn, Resend(c)
    PROVE  SkipInv'
<1>1. /\ conn[c].pc = "resend" /\ UNCHANGED <<log, data, task, owed>>
      /\ conn[c].missed # <<>>
      /\ conn'[c].pc = "resend" /\ conn'[c].user = conn[c].user /\ conn'[c].gone = conn[c].gone
      /\ conn'[c].had = conn[c].had /\ conn'[c].last = conn[c].last
      /\ conn'[c].base = conn[c].base
      /\ conn'[c].missed = Tail(conn[c].missed)
      /\ conn'[c].early = Append(conn[c].early, Head(conn[c].missed))
      /\ \A d \in Conn \ {c} : conn'[d] = conn[d]
    BY TypeParts DEF Resend, Conns
<1>2. conn[c].user \in User
    BY <1>1 DEF ListInv, UserInv
<1>3. Lessened /\ Lasting
    BY <1>1 DEF Lessened, Lasting
<1>4. Whole(c)'
    BY <1>1, <1>2, <1>3, WholeKeeps DEF SkipInv, WholeInv
<1>5. Reached(c)'
    <2>1. \A e \in Range(log) : Has(c, e) => Has(c, e)'
        <3>1. Range(conn[c].missed) \union Range(conn[c].early)
                \subseteq Range(conn'[c].missed) \union Range(conn'[c].early)
            BY <1>1, ConnFields, HeadTailRange
        <3> QED BY <1>1, <3>1 DEF Has
    <2>2. \A t \in Thread, e \in Range(log) : Ahead(t, c, e) => Ahead(t, c, e)'
        BY <1>1, AheadSame
    <2>3. Reached(c) /\ (Quiet(c)' => Quiet(c))
        BY <1>1 DEF SkipInv, ReachInv, Quiet
    <2> QED BY <1>1, <1>3, <2>1, <2>2, <2>3, ReachKeeps
<1> QED BY <1>1, <1>2, <1>3, <1>4, <1>5, MoveKeeps DEF Readable

\* What Open changes, with no EXCEPT: the client got n of the events that waited for it.
LEMMA OpenSteps ==
    ASSUME TypeOK, NEW c \in Conn, Open(c)
    PROVE  LET q == conn[c].early
           IN  /\ conn[c].pc = "resend" /\ conn[c].missed = <<>>
               /\ UNCHANGED <<log, data, task>>
               /\ conn'[c].pc = "open" /\ conn'[c].user = conn[c].user
               /\ conn'[c].missed = <<>> /\ conn'[c].early = <<>>
               /\ \A d \in Conn \ {c} : conn'[d] = conn[d]
               /\ \E n \in 0 .. Len(q) :
                    /\ conn'[c].had = conn[c].had \union {q[i] : i \in 1 .. n}
                    /\ conn'[c].gone <=> n < Len(q)
                    /\ conn'[c].last = IF n = 0 THEN conn[c].last ELSE q[n]
                    /\ conn'[c].base = IF InOrder(q) \/ n \in {0, Len(q)} THEN conn[c].base
                                       ELSE Place(q[n])
                    /\ IF n < Len(q) THEN Disturb(conn[c].user) ELSE UNCHANGED owed
<1> DEFINE q == conn[c].early
<1>1. PICK n \in 0 .. Len(q) :
        LET last == IF n = 0 THEN conn[c].last ELSE q[n]
        IN  /\ conn' = [conn EXCEPT ![c].pc = "open", ![c].early = <<>>, ![c].last = last,
                            ![c].had = @ \union {q[i] : i \in 1 .. n},
                            ![c].gone = n < Len(q),
                            ![c].base = IF InOrder(q) \/ n \in {0, Len(q)} THEN @
                                        ELSE Place(last)]
            /\ IF n < Len(q) THEN Disturb(conn[c].user) ELSE UNCHANGED owed
    BY DEF Open
<1> DEFINE last == IF n = 0 THEN conn[c].last ELSE q[n]
           had  == conn[c].had \union {q[i] : i \in 1 .. n}
           base == IF InOrder(q) \/ n \in {0, Len(q)} THEN conn[c].base ELSE Place(last)
           gone == n < Len(q)
<1>2. conn' = [conn EXCEPT ![c] = [conn[c] EXCEPT !.pc = "open", !.early = <<>>, !.last = last,
                                        !.had = had, !.gone = gone, !.base = base]]
    BY <1>1
<1>3. n # 0 => last = q[n]
    OBVIOUS
<1> HIDE DEF last, had, base, gone
<1>4. conn[c].pc = "resend" /\ conn[c].missed = <<>> /\ UNCHANGED <<log, data, task>>
    BY DEF Open
<1>5. conn \in [Conn -> Conns(Range(log))] /\ conn[c] \in Conns(Range(log))
    BY TypeParts
<1>6. /\ conn'[c].pc = "open" /\ conn'[c].user = conn[c].user
      /\ conn'[c].missed = <<>> /\ conn'[c].early = <<>> /\ conn'[c].last = last
      /\ conn'[c].had = had /\ conn'[c].gone = gone /\ conn'[c].base = base
      /\ \A d \in Conn \ {c} : conn'[d] = conn[d]
    BY <1>2, <1>4, <1>5 DEF Conns
<1> QED BY <1>1, <1>3, <1>4, <1>6 DEF last, had, base, gone

\* Of what waited for the response the client has all, or a beginning.
LEMMA OpenSkips ==
    ASSUME TypeOK, ListInv, SkipInv, NEW c \in Conn, Open(c)
    PROVE  SkipInv'
<1> DEFINE q == conn[c].early
<1>1. /\ conn[c].pc = "resend" /\ conn[c].missed = <<>> /\ UNCHANGED <<log, data, task>>
      /\ conn'[c].pc = "open" /\ conn'[c].user = conn[c].user
      /\ conn'[c].missed = <<>> /\ conn'[c].early = <<>>
      /\ \A d \in Conn \ {c} : conn'[d] = conn[d]
    BY OpenSteps
<1>2. PICK n \in 0 .. Len(q) :
        /\ conn'[c].had = conn[c].had \union {q[i] : i \in 1 .. n}
        /\ conn'[c].gone <=> n < Len(q)
        /\ conn'[c].last = IF n = 0 THEN conn[c].last ELSE q[n]
        /\ conn'[c].base = IF InOrder(q) \/ n \in {0, Len(q)} THEN conn[c].base
                           ELSE Place(q[n])
        /\ IF n < Len(q) THEN Disturb(conn[c].user) ELSE UNCHANGED owed
    BY OpenSteps
<1>3. conn[c].user \in User /\ ~conn[c].gone
    BY <1>1 DEF ListInv, UserInv, GoneInv
<1>4. /\ q \in Seq(Range(log)) /\ Len(q) \in Nat /\ DOMAIN q = 1 .. Len(q)
      /\ \A i \in DOMAIN q : q[i] \in Range(log)
    BY ConnFields
<1>5. Range(<<>>) = {}
    BY DEF Range
<1>6. Lessened
    BY <1>2, DisturbLemma DEF Disturb, Lessened
<1>7. CASE n = Len(q)
    <2>1. ~conn'[c].gone /\ owed' = owed /\ conn'[c].base = conn[c].base
        BY <1>2, <1>4, <1>7
    <2>2. Whole(c)'
        BY <1>1, <2>1 DEF Whole
    <2>3. \A e \in Range(log) : Has(c, e) => Has(c, e)'
        <3>1. conn'[c].had = conn[c].had \union Range(q)
            BY <1>2, <1>4, <1>7 DEF Range
        <3> QED BY <1>1, <1>5, <3>1 DEF Has
    <2>4. \A t \in Thread, e \in Range(log) : Ahead(t, c, e) => Ahead(t, c, e)'
        BY <1>1, AheadSame
    <2>5. Reached(c) /\ (Quiet(c)' => Quiet(c))
        BY <1>1, <1>3 DEF SkipInv, ReachInv, Quiet, Readable
    <2>6. Reached(c)'
        BY <1>1, <1>6, <2>1, <2>3, <2>4, <2>5, ReachKeeps
    <2> QED BY <1>1, <1>3, <1>6, <2>2, <2>6, MoveKeeps DEF Readable
<1>8. CASE n < Len(q)
    <2>1. conn'[c].gone /\ Disturb(conn[c].user)
        BY <1>2, <1>8
    <2>2. Reached(c)'
        BY <2>1 DEF Reached, Quiet
    <2>3. Whole(c)'
        <3> SUFFICES ASSUME conn'[c].last # NoEvent, data[conn[c].user] # Torn,
                            NEW k \in DOMAIN log, NEW m \in DOMAIN log,
                            Owing(c, k)', log[m] = conn'[c].last, k <= m
                     PROVE  log[k] \in conn'[c].had
            BY <1>1 DEF Whole
        <3>1. log[k] \in Event /\ NoEvent \notin Event /\ DOMAIN log \subseteq Nat
            BY LogFields
        <3>2. \A t \in Thread : task[t].event # NoEvent => conn[c].user \notin owed'[task[t].event]
            BY <2>1, DisturbLemma DEF Disturb
        <3>3. conn[c].user \in owed'[log[k]] /\ conn[c].user \in owed[log[k]] /\ k > conn'[c].base
            BY <1>1, <1>6, <3>1 DEF Owing, Lessened
        <3>4. \A t \in Thread : ~Ahead(t, c, log[k])
            BY <3>1, <3>2, <3>3 DEF Ahead
        <3>5. Quiet(c) /\ Reached(c) /\ Whole(c) /\ ~Unasked(c, k)
            BY <1>1, <1>3 DEF Quiet, Readable, SkipInv, ReachInv, WholeInv, Unasked
        <3>6. n # 0 => /\ q[n] \in Range(log) /\ q[n] = log[m] /\ n \in DOMAIN q
                       /\ Place(q[n]) = m
            <4> SUFFICES ASSUME n # 0
                         PROVE  /\ q[n] \in Range(log) /\ q[n] = log[m] /\ n \in DOMAIN q
                                /\ Place(q[n]) = m
                OBVIOUS
            <4>1. n \in DOMAIN q /\ q[n] \in Range(log) /\ q[n] = log[m]
                BY <1>2, <1>4
            <4>2. Place(q[n]) \in DOMAIN log /\ log[Place(q[n])] = q[n]
                BY <4>1, PlaceLemma, LogFields
            <4> QED BY <4>1, <4>2 DEF SkipInv, LogInv
        <3>7. CASE n = 0
            BY <1>1, <1>2, <3>3, <3>5, <3>7 DEF Whole, Owing
        <3>8. CASE n # 0 /\ InOrder(q)
            <4>1. Owing(c, k)
                BY <1>2, <3>3, <3>8 DEF Owing
            <4>2. log[k] \in conn[c].had \/ log[k] \in Range(q)
                BY <1>1, <1>5, <3>4, <3>5, <4>1 DEF Reached, Has
            <4>3. ASSUME NEW j \in DOMAIN q, log[k] = q[j] PROVE log[k] \in conn'[c].had
                <5>1. CASE j \in 1 .. n
                    BY <1>2, <4>3, <5>1
                <5>2. CASE j > n
                    <6>1. Place(q[j]) = k
                        <7>1. Place(q[j]) \in DOMAIN log /\ log[Place(q[j])] = q[j]
                            BY <1>4, PlaceLemma, LogFields
                        <7> QED BY <4>3, <7>1 DEF SkipInv, LogInv
                    <6>2. m <= k
                        BY <3>6, <3>8, <5>2, <6>1 DEF InOrder
                    <6>3. k = m
                        BY <6>2, <3>1
                    <6> QED BY <1>2, <3>6, <3>8, <6>3
                <5> QED BY <1>4, <5>1, <5>2
            <4> QED BY <1>2, <4>2, <4>3 DEF Range
        <3>9. CASE n # 0 /\ ~InOrder(q)
            BY <1>2, <1>4, <1>8, <3>1, <3>3, <3>6, <3>9
        <3> QED BY <3>7, <3>8, <3>9
    <2> QED BY <1>1, <1>3, <1>6, <2>2, <2>3, MoveKeeps DEF Readable
<1> QED BY <1>2, <1>4, <1>7, <1>8

\* add and remove begin: whatever is being sent to the user is disturbed.
LEMMA BeginsSkip ==
    ASSUME TypeOK, ListInv, SkipInv, NEW c \in Conn,
           AddBegins(c) \/ (RemoveBegins(c) /\ Listed(c))
    PROVE  SkipInv'
<1> DEFINE u == conn[c].user
<1>1. /\ conn[c].pc \in {"add", "over"} /\ Touch(u) /\ Disturb(u) /\ log' = log
      /\ conn'[c].pc \in {"adding", "removing"}
      /\ conn[c].pc = "add" <=> conn'[c].pc = "adding"
      /\ conn'[c].user = u /\ conn'[c].had = conn[c].had
      /\ conn'[c].last = conn[c].last /\ conn'[c].base = conn[c].base
      /\ conn'[c].gone = conn[c].gone /\ conn'[c].missed = conn[c].missed
      /\ \A d \in Conn \ {c} : conn'[d] = conn[d]
    BY TypeParts DEF AddBegins, RemoveBegins, Conns
<1>2. u \in User /\ u # NoUser
    BY <1>1, BasicSseAssumption DEF ListInv, UserInv
<1>3. /\ data'[u] \in {data[u], Torn}
      /\ data[u] = Torn => data'[u] = Torn
      /\ \A v \in User \ {u} : data'[v] = data[v]
    <2>1. CASE AddBegins(c)
        BY <2>1 DEF AddBegins
    <2>2. CASE RemoveBegins(c)
        <3>1. Becomes(u, data[u], c)
            BY <2>2 DEF RemoveBegins
        <3> HIDE DEF u
        <3> QED BY <1>2, <3>1, BecomesLemma
    <2> QED BY <2>1, <2>2
<1>4. /\ Lessened
      /\ \A t \in Thread : task[t].event # NoEvent =>
            /\ u \notin owed'[task[t].event]
            /\ u \in owed[task[t].event] => owed'[task[t].event] = {}
    BY <1>1, DisturbLemma DEF Disturb
<1>5. ASSUME NEW t \in Thread
      PROVE  /\ task'[t].event = task[t].event /\ task'[t].left = task[t].left
             /\ task'[t].user = task[t].user
             /\ task'[t].at = task[t].at /\ task'[t].upto = task[t].upto
             /\ task'[t].changed <=> task[t].changed \/ task[t].user = u
             /\ task[t].user # u => task'[t].changed = task[t].changed
    BY <1>1, TypeParts DEF Touch, Tasks
<1>6. Lasting
    BY <1>3 DEF Lasting
<1> HIDE DEF u
<1>7. LogInv'
    BY <1>1 DEF SkipInv, LogInv
<1>8. WalkerInv'
    <2>1. \A t \in Thread : task[t].user # NoUser => task[t].user \in User
        BY TaskFields
    <2> QED BY <1>2, <1>3, <1>5, <1>6, <2>1, WalkerKeeps DEF SkipInv, ListInv
<1>9. OwedInv'
    <2>1. ASSUME NEW t \in Thread, task'[t].changed, ~task[t].changed, task[t].event # NoEvent
          PROVE  owed'[task[t].event] = {}
        <3>1. task[t].user = u /\ task[t].event \in Event
            BY <1>5, <2>1, TaskFields, LogFields
        <3>2. owed[task[t].event] = {} \/ u \in owed[task[t].event]
            BY <1>2, <2>1, <3>1 DEF SkipInv, OwedInv
        <3> QED BY <1>4, <2>1, <3>1, <3>2 DEF Lessened
    <2>2. ASSUME NEW t \in Thread, NEW v \in User, task[t].event # NoEvent,
                 v \in owed'[task[t].event], data'[v] \notin {NoList, Torn},
                 data[v] \notin {NoList, Torn} => \A d \in Range(data[v]) : conn[d].pc \in Readable,
                 NEW d \in Range(data'[v])
          PROVE  conn'[d].pc \in Readable
        <3>1. v # u
            BY <1>4, <2>2
        <3>2. data'[v] = data[v] /\ d \in Conn /\ conn[d].user = v
            BY <1>3, <2>2, <3>1, TypeParts DEF Range, ListInv, MemberInv
        <3> QED BY <1>1, <2>2, <3>1, <3>2 DEF u
    <2> QED BY <1>4, <1>5, <2>1, <2>2, OwedKeeps DEF SkipInv
<1>10. WaitInv'
    BY <1>1 DEF SkipInv, WaitInv
<1>11. WholeInv' /\ ReachInv'
    <2>1. Whole(c)' /\ Reached(c)'
        <3>1. conn'[c].gone \/ conn'[c].pc \in {"add", "adding", "added", "resend"}
              => conn[c].gone \/ conn[c].pc \in {"add", "adding", "added", "resend"}
            BY <1>1
        <3>2. Whole(c)'
            BY <1>1, <1>2, <1>4, <1>6, <3>1, WholeKeeps DEF SkipInv, WholeInv, u
        <3> QED BY <1>1, <3>2 DEF Reached, Quiet, Readable
    <2>2. ASSUME NEW d \in Conn \ {c}, NEW t \in Thread, NEW e \in Event, Quiet(d), Quiet(d)',
                 Ahead(t, d, e), conn[d].user \in owed'[e]
          PROVE  Ahead(t, d, e)'
        <3>1. conn[d].user \in User /\ task[t].event = e /\ e # NoEvent
            BY <2>2, QuietListed, LogFields DEF Ahead
        <3>2. conn[d].user # u
            BY <1>4, <2>2, <3>1
        <3>3. data'[conn[d].user] = data[conn[d].user]
            BY <1>3, <3>1, <3>2
        <3> QED BY <1>1, <1>5, <2>2, <3>2, <3>3, AheadSame
    <2>3. WholeInv /\ ReachInv /\ {c} \in SUBSET Conn /\ \A d \in {c} : Whole(d)' /\ Reached(d)'
        BY <2>1 DEF SkipInv
    <2> QED BY <1>1, <1>4, <1>6, <2>2, <2>3, OthersKeep
<1> QED BY <1>7, <1>8, <1>9, <1>10, <1>11 DEF SkipInv

\* Operations of a connection on the list of its user during which no thread walks it
\* unnoticed.
LEMMA EndsSkip ==
    ASSUME TypeOK, ListInv, SkipInv, NEW c \in Conn, UNCHANGED <<log, task, owed>>,
           conn[c].user \in User, conn'[c].user = conn[c].user,
           \A d \in Conn \ {c} : conn'[d] = conn[d],
           Lasting, data[conn[c].user] # NoList,
           \A v \in User \ {conn[c].user} : data'[v] = data[v],
           \/ conn[c].pc \in {"adding", "removing"}
           \/ data'[conn[c].user] \in {data[conn[c].user], Torn},
           data'[conn[c].user] \notin {NoList, Torn} =>
                Range(data'[conn[c].user]) \ {c} \subseteq Range(data[conn[c].user]),
           data'[conn[c].user] \notin {NoList, Torn} /\ c \in Range(data'[conn[c].user])
                => conn'[c].pc \in Readable,
           conn'[c].pc \in {"new", "add", "adding", "added", "open"} => conn'[c].missed = <<>>,
           conn'[c].pc # "open", Whole(c)', Reached(c)'
    PROVE  SkipInv'
<1> DEFINE u == conn[c].user
<1>1. Lessened
    BY DEF Lessened
<1>2. \A t \in Thread : task[t].user = u /\ data'[u] # Torn =>
        data'[u] = data[u] \/ task[t].changed
    <2>1. u # NoUser
        BY BasicSseAssumption
    <2> QED BY <2>1 DEF ListInv, WalkInv, Lasting
<1>3. LogInv'
    BY DEF SkipInv, LogInv
<1>4. WalkerInv'
    <2>1. \A t \in Thread : task[t].user # NoUser => task[t].user \in User
        BY TaskFields
    <2> QED BY <1>2, <2>1, WalkerKeeps DEF SkipInv, ListInv
<1>5. OwedInv'
    <2>1. ASSUME NEW t \in Thread, NEW v \in User, task[t].event # NoEvent,
                 v \in owed'[task[t].event], data'[v] \notin {NoList, Torn},
                 data[v] \notin {NoList, Torn} => \A d \in Range(data[v]) : conn[d].pc \in Readable,
                 NEW d \in Range(data'[v])
          PROVE  conn'[d].pc \in Readable
        <3>1. CASE v = u
            <4>1. data[u] \notin {NoList, Torn}
                BY <2>1, <3>1 DEF Lasting
            <4>2. d = c \/ d \in Range(data[u])
                BY <2>1, <3>1
            <4>3. data[u] \in Seq(Conn)
                BY <4>1, TypeParts
            <4>4. d = c \/ d \in Conn
                BY <4>2, <4>3 DEF Range
            <4> QED BY <2>1, <3>1, <4>1, <4>2, <4>4
        <3>2. CASE v # u
            <4>1. data'[v] = data[v] /\ d \in Conn /\ conn[d].user = v
                BY <2>1, <3>2, TypeParts DEF Range, ListInv, MemberInv
            <4> QED BY <2>1, <3>2, <4>1
        <3> QED BY <3>1, <3>2
    <2> QED BY <1>1, <2>1, OwedKeeps DEF SkipInv
<1>6. WaitInv'
    BY DEF SkipInv, WaitInv
<1>7. WholeInv' /\ ReachInv'
    <2>1. ASSUME NEW d \in Conn \ {c}, NEW t \in Thread, NEW e \in Event, Quiet(d), Quiet(d)',
                 Ahead(t, d, e)
          PROVE  Ahead(t, d, e)'
        <3>1. conn[d].user \in User /\ conn'[d] = conn[d]
            BY <2>1, QuietListed
        <3>2. CASE conn[d].user = u /\ task[t].user = u /\ ~task[t].changed
            <4>1. data'[u] = data[u]
                BY <1>2, <2>1, <3>1, <3>2 DEF Quiet
            <4> QED BY <2>1, <3>1, <3>2, <4>1, AheadSame
        <3>3. CASE conn[d].user \in task[t].left
            BY <2>1, <3>1, <3>3 DEF Ahead
        <3>4. CASE conn[d].user # u
            BY <2>1, <3>1, <3>4, AheadSame
        <3> QED BY <2>1, <3>2, <3>3, <3>4 DEF Ahead
    <2>2. WholeInv /\ ReachInv /\ {c} \in SUBSET Conn /\ \A d \in {c} : Whole(d)' /\ Reached(d)'
        BY DEF SkipInv
    <2> QED BY <1>1, <2>1, <2>2, OthersKeep
<1> QED BY <1>3, <1>4, <1>5, <1>6, <1>7 DEF SkipInv

\* add ends: what a client that connects again lacks is still to be asked for.
LEMMA AddEndsSkips ==
    ASSUME TypeOK, ListInv, SkipInv, NEW c \in Conn, AddEnds(c)
    PROVE  SkipInv'
<1> DEFINE u == conn[c].user
           q == Append(data[u], c)
<1>1. /\ conn[c].pc = "adding" /\ UNCHANGED <<log, task, owed>> /\ Becomes(u, q, c)
      /\ conn'[c].pc = "added" /\ conn'[c].user = u /\ conn'[c].gone = conn[c].gone
      /\ conn'[c].had = conn[c].had /\ conn'[c].last = conn[c].last
      /\ conn'[c].missed = conn[c].missed
      /\ conn'[c].base = IF conn[c].last = NoEvent THEN Len(log) ELSE conn[c].base
      /\ \A d \in Conn \ {c} : conn'[d] = conn[d]
    BY TypeParts DEF AddEnds, Conns
<1>2. u \in User /\ data[u] # NoList
    BY <1>1 DEF ListInv, UserInv, UnderWayInv
<1>3. /\ data'[u] \in {q, Torn}
      /\ \A v \in User \ {u} : data'[v] = data[v]
      /\ data[u] = Torn => data'[u] = Torn
    <2> HIDE DEF q, u
    <2> QED BY <1>1, <1>2, BecomesLemma
<1>4. data'[u] \notin {NoList, Torn} => Range(data'[u]) \ {c} \subseteq Range(data[u])
    <2>1. data[u] # Torn => data[u] \in Seq(Conn)
        BY <1>2, TypeParts
    <2>2. data[u] # Torn => Range(q) = Range(data[u]) \union {c}
        BY <2>1, AppendRange
    <2> HIDE DEF q
    <2> QED BY <1>3, <2>2
<1> HIDE DEF q
<1>5. Lasting /\ Lessened
    BY <1>1, <1>3 DEF Lasting, Lessened
<1>6. /\ conn[c].last # NoEvent => conn'[c].base = conn[c].base
      /\ conn[c].last = NoEvent => conn'[c].base = Len(log)
    BY <1>1
<1>7. conn'[c].missed = <<>>
    BY <1>1 DEF SkipInv, WaitInv
<1>8. Whole(c)'
    <2>1. CASE conn[c].last = NoEvent
        BY <1>1, <2>1 DEF Whole
    <2>2. CASE conn[c].last # NoEvent
        BY <1>1, <1>2, <1>5, <1>6, <2>2, WholeKeeps DEF SkipInv, WholeInv
    <2> QED BY <2>1, <2>2
<1>9. Reached(c)'
    <2> SUFFICES ASSUME Quiet(c)', NEW k \in DOMAIN log, Owing(c, k)'
                 PROVE  Has(c, log[k])' \/ Unasked(c, k)'
        BY <1>1 DEF Reached
    <2>1. CASE conn[c].last = NoEvent
        BY <1>1, <1>6, <2>1, LogFields DEF Owing
    <2>2. CASE conn[c].last # NoEvent
        <3>1. data'[u] # Torn
            BY <1>1 DEF Quiet
        <3>2. ASSUME NEW m \in DOMAIN log, log[m] = conn[c].last, ~(k > m)
              PROVE  log[k] \in conn'[c].had
            <4>1. k <= m
                BY <3>2, LogFields
            <4> QED BY <1>1, <1>8, <2>2, <3>1, <3>2, <4>1 DEF Whole
        <3> QED BY <1>1, <2>2, <3>2 DEF Has, Unasked
    <2> QED BY <2>1, <2>2
<1> QED BY <1>1, <1>2, <1>3, <1>4, <1>5, <1>7, <1>8, <1>9, EndsSkip DEF Readable

\* remove ends, or had nothing to remove.
LEMMA RemoveSkips ==
    ASSUME TypeOK, ListInv, SkipInv, NEW c \in Conn,
           RemoveEnds(c) \/ (RemoveBegins(c) /\ ~Listed(c))
    PROVE  SkipInv'
<1> DEFINE u == conn[c].user
<1>1. /\ conn[c].pc \in {"over", "removing"} /\ UNCHANGED <<log, task, owed>>
      /\ conn'[c].pc = "check" /\ conn'[c].user = u /\ conn'[c].gone = conn[c].gone
      /\ conn'[c].had = conn[c].had /\ conn'[c].last = conn[c].last
      /\ conn'[c].base = conn[c].base
      /\ \A d \in Conn \ {c} : conn'[d] = conn[d]
    BY TypeParts DEF RemoveEnds, RemoveBegins, Conns
<1>2. u \in User /\ data[u] # NoList
    BY <1>1 DEF ListInv, UserInv, UnderWayInv, RemoveBegins, RemoveEnds
<1>3. /\ \A v \in User \ {u} : data'[v] = data[v]
      /\ data[u] = Torn => data'[u] = Torn
      /\ conn[c].pc = "removing" \/ data'[u] \in {data[u], Torn}
      /\ data'[u] \notin {NoList, Torn} =>
            c \notin Range(data'[u]) /\ Range(data'[u]) \ {c} \subseteq Range(data[u])
    <2>1. CASE RemoveEnds(c)
        <3>1. PICK rest \in Without(data[u], {c}) : Becomes(u, rest, c)
            BY <2>1 DEF RemoveEnds
        <3>2. /\ data'[u] \in {rest, Torn}
              /\ \A v \in User \ {u} : data'[v] = data[v]
              /\ data[u] = Torn => data'[u] = Torn
            <4> HIDE DEF u
            <4> QED BY <1>2, <3>1, BecomesLemma
        <3>3. data[u] # Torn => Range(rest) = Range(data[u]) \ {c}
            BY <1>2, <3>1, TypeParts, WithoutLemma
        <3> QED BY <2>1, <3>2, <3>3 DEF RemoveEnds
    <2>2. CASE RemoveBegins(c) /\ ~Listed(c)
        <3>1. Becomes(u, data[u], c) /\ data[u] \notin {NoList, Torn}
            BY <2>2 DEF RemoveBegins
        <3>2. /\ data'[u] \in {data[u], Torn}
              /\ \A v \in User \ {u} : data'[v] = data[v]
            <4> HIDE DEF u
            <4> QED BY <1>2, <3>1, BecomesLemma
        <3>3. c \notin Range(data[u])
            BY <2>2, <3>1 DEF Listed
        <3> QED BY <3>1, <3>2, <3>3
    <2> QED BY <2>1, <2>2
<1>4. Lasting /\ Lessened
    BY <1>1, <1>3 DEF Lasting, Lessened
<1>5. Whole(c)'
    BY <1>1, <1>2, <1>4, WholeKeeps DEF SkipInv, WholeInv
<1>6. Reached(c)'
    BY <1>1 DEF Reached, Quiet, Readable
<1> QED BY <1>1, <1>2, <1>3, <1>4, <1>5, <1>6, EndsSkip

\* An empty list is forgotten: nobody reads, and walks through it are over.
LEMMA UnmapSkips ==
    ASSUME TypeOK, ListInv, SkipInv, NEW c \in Conn, Unmap(c)
    PROVE  SkipInv'
<1> DEFINE u == conn[c].user
<1>1. /\ conn[c].pc = "unmap" /\ conn'[c].user = u /\ conn'[c].pc \in {"over", "closed"}
      /\ conn'[c].gone = conn[c].gone /\ UNCHANGED <<log, owed>>
      /\ conn'[c].had = conn[c].had /\ conn'[c].last = conn[c].last
      /\ conn'[c].base = conn[c].base
      /\ \A d \in Conn \ {c} : conn'[d] = conn[d]
    BY TypeParts DEF Unmap, Deleted, Conns
<1>2. u \in User /\ Becomes(u, NoList, c) /\ data[u] \in {<<>>, Torn}
    BY <1>1 DEF Unmap, ListInv, UserInv, UnderWayInv
<1>3. /\ data'[u] \in {NoList, Torn}
      /\ \A v \in User \ {u} : data'[v] = data[v]
      /\ data[u] = Torn => data'[u] = Torn
    <2> HIDE DEF u
    <2> QED BY <1>2, BecomesLemma
<1>4. ASSUME NEW t \in Thread
      PROVE  /\ task'[t].event = task[t].event /\ task'[t].left = task[t].left
             /\ task'[t].user = task[t].user /\ task'[t].upto = task[t].upto
             /\ task'[t].changed = task[t].changed
             /\ task'[t].at = IF task[t].user = u THEN task[t].upto + 1 ELSE task[t].at
             /\ task[t].upto \in Nat
    BY TypeParts DEF Unmap, Tasks
<1>5. Lasting /\ Lessened
    BY <1>1, <1>3 DEF Lasting, Lessened
<1>6. LogInv'
    BY <1>1 DEF SkipInv, LogInv
<1>7. WalkerInv'
    <2>1. \A t \in Thread : task[t].user # NoUser => task[t].user \in User
        BY TaskFields
    <2>2. ASSUME NEW t \in Thread, task[t].user = u
          PROVE  task'[t].at > 0 /\ data'[task[t].user] \in {NoList, Torn}
        BY <1>3, <1>4, <2>2
    <2> QED BY <1>3, <1>4, <2>1, <2>2 DEF SkipInv, WalkerInv
<1>8. OwedInv'
    <2>1. ASSUME NEW t \in Thread, NEW v \in User, task[t].event # NoEvent,
                 v \in owed'[task[t].event], data'[v] \notin {NoList, Torn},
                 data[v] \notin {NoList, Torn} => \A d \in Range(data[v]) : conn[d].pc \in Readable,
                 NEW d \in Range(data'[v])
          PROVE  conn'[d].pc \in Readable
        <3>1. v # u
            BY <1>3, <2>1
        <3>2. data'[v] = data[v] /\ d \in Conn /\ conn[d].user = v
            BY <1>3, <2>1, <3>1, TypeParts DEF Range, ListInv, MemberInv
        <3> QED BY <1>1, <2>1, <3>1, <3>2
    <2> QED BY <1>4, <1>5, <2>1, OwedKeeps DEF SkipInv
<1>9. WaitInv'
    BY <1>1 DEF SkipInv, WaitInv
<1>10. WholeInv' /\ ReachInv'
    <2>1. Whole(c)'
        BY <1>1, <1>2, <1>5, WholeKeeps DEF SkipInv, WholeInv
    <2>2. Reached(c)'
        BY <1>1 DEF Reached, Quiet, Readable
    <2>3. ASSUME NEW d \in Conn \ {c}, NEW t \in Thread, NEW e \in Event, Quiet(d), Quiet(d)',
                 Ahead(t, d, e)
          PROVE  Ahead(t, d, e)'
        <3>1. /\ conn[d].user \in User /\ data[conn[d].user] \notin {NoList, Torn}
              /\ d \in Range(data[conn[d].user])
            BY <2>3, QuietListed
        <3>2. Range(<<>>) = {}
            BY DEF Range
        <3>3. conn[d].user # u
            BY <1>2, <3>1, <3>2
        <3> QED BY <1>1, <1>3, <1>4, <2>3, <3>1, <3>3, AheadSame
    <2>4. WholeInv /\ ReachInv /\ {c} \in SUBSET Conn /\ \A d \in {c} : Whole(d)' /\ Reached(d)'
        BY <2>1, <2>2 DEF SkipInv
    <2> QED BY <1>1, <1>5, <2>3, <2>4, OthersKeep
<1> QED BY <1>6, <1>7, <1>8, <1>9, <1>10 DEF SkipInv

\* What Connect changes, with no EXCEPT: a client may take along what it has from a
\* connection it lost.
LEMMA ConnectSteps ==
    ASSUME TypeOK, UserInv, NEW c \in Conn, NEW u \in User, Connect(c, u)
    PROVE  /\ conn[c].pc = "new" /\ UNCHANGED <<log, task, owed>>
           /\ conn'[c].pc = "add" /\ conn'[c].user = u /\ ~conn'[c].gone
           /\ conn'[c].missed = <<>>
           /\ \E S \in SUBSET Conn :
                /\ c \notin S
                /\ \A d \in Conn \ S : d # c => conn'[d] = conn[d]
                /\ \A d \in S :
                    /\ conn[d].gone /\ conn'[d].gone /\ conn[d].user = u /\ conn'[d].user = u
                    /\ conn'[d].pc = conn[d].pc /\ conn'[d].missed = conn[d].missed
                    /\ conn'[d].early = conn[d].early /\ conn'[d].last = NoEvent
                /\ \/ conn'[c].last = NoEvent
                   \/ \E d \in S : /\ conn'[c].had = conn[d].had /\ conn'[c].last = conn[d].last
                                   /\ conn'[c].base = conn[d].base
<1> DEFINE new == [NewConn EXCEPT !.pc = "add", !.user = u]
<1>1. conn[c].pc = "new" /\ UNCHANGED <<log, task, owed>>
    BY DEF Connect
<1>2. conn \in [Conn -> Conns(Range(log))]
    BY TypeParts
<1>3. CASE conn' = [conn EXCEPT ![c] = new]
    <2>1. /\ conn'[c].pc = "add" /\ conn'[c].user = u /\ ~conn'[c].gone
          /\ conn'[c].missed = <<>> /\ conn'[c].last = NoEvent
          /\ \A d \in Conn \ {} : d # c => conn'[d] = conn[d]
        BY <1>2, <1>3 DEF NewConn
    <2>2. c \notin {} /\ {} \in SUBSET Conn
        OBVIOUS
    <2> QED BY <1>1, <2>1, <2>2
<1>4. ASSUME NEW d \in Lost(u),
             conn' = [conn EXCEPT
                ![c] = [new EXCEPT !.had = conn[d].had, !.last = conn[d].last,
                                   !.base = conn[d].base],
                ![d] = [@ EXCEPT !.had = {}, !.last = NoEvent, !.base = 0]]
      PROVE  /\ conn'[c].pc = "add" /\ conn'[c].user = u /\ ~conn'[c].gone
             /\ conn'[c].missed = <<>>
             /\ \E S \in SUBSET Conn :
                /\ c \notin S
                /\ \A e \in Conn \ S : e # c => conn'[e] = conn[e]
                /\ \A e \in S :
                    /\ conn[e].gone /\ conn'[e].gone /\ conn[e].user = u /\ conn'[e].user = u
                    /\ conn'[e].pc = conn[e].pc /\ conn'[e].missed = conn[e].missed
                    /\ conn'[e].early = conn[e].early /\ conn'[e].last = NoEvent
                /\ \E e \in S : /\ conn'[c].had = conn[e].had /\ conn'[c].last = conn[e].last
                                /\ conn'[c].base = conn[e].base
    <2>1. d \in Conn /\ d # c /\ conn[d].user = u /\ conn[d].gone
        BY <1>1, BasicSseAssumption DEF Lost, Of, UserInv
    <2>2. \A e \in Conn \ {d} : e # c => conn'[e] = conn[e]
        BY <1>2, <1>4
    <2>3. /\ conn'[d].gone /\ conn'[d].user = u
          /\ conn'[d].pc = conn[d].pc /\ conn'[d].missed = conn[d].missed
          /\ conn'[d].early = conn[d].early /\ conn'[d].last = NoEvent
        <3>1. conn'[d] = [conn[d] EXCEPT !.had = {}, !.last = NoEvent, !.base = 0]
            BY <1>2, <1>4, <2>1
        <3>2. conn[d] \in Conns(Range(log))
            BY <1>2, <2>1
        <3> QED BY <2>1, <3>1, <3>2 DEF Conns
    <2>4. /\ conn'[c].pc = "add" /\ conn'[c].user = u /\ ~conn'[c].gone /\ conn'[c].missed = <<>>
          /\ conn'[c].had = conn[d].had /\ conn'[c].last = conn[d].last
          /\ conn'[c].base = conn[d].base
        <3>1. conn'[c] = [new EXCEPT !.had = conn[d].had, !.last = conn[d].last,
                                     !.base = conn[d].base]
            BY <1>2, <1>4, <2>1
        <3> QED BY <3>1 DEF NewConn
    <2>5. {d} \in SUBSET Conn /\ c \notin {d}
        BY <2>1
    <2> QED BY <2>1, <2>2, <2>3, <2>4, <2>5
<1>5. (conn' = [conn EXCEPT ![c] = new]) \/ \E d \in Lost(u) :
        conn' = [conn EXCEPT
            ![c] = [new EXCEPT !.had = conn[d].had, !.last = conn[d].last,
                               !.base = conn[d].base],
            ![d] = [@ EXCEPT !.had = {}, !.last = NoEvent, !.base = 0]]
    BY DEF Connect
<1> HIDE DEF new
<1> QED BY <1>1, <1>3, <1>4, <1>5

\* A client comes back with the last event it has, or for the first time.
LEMMA ConnectSkips ==
    ASSUME TypeOK, ListInv, SkipInv, NEW c \in Conn, NEW u \in User, Connect(c, u)
    PROVE  SkipInv'
<1>1. /\ conn[c].pc = "new" /\ UNCHANGED <<log, task, owed>>
      /\ conn'[c].pc = "add" /\ conn'[c].user = u /\ ~conn'[c].gone
      /\ conn'[c].missed = <<>>
    BY ConnectSteps DEF ListInv
<1>2. PICK S \in SUBSET Conn :
        /\ c \notin S
        /\ \A d \in Conn \ S : d # c => conn'[d] = conn[d]
        /\ \A d \in S :
            /\ conn[d].gone /\ conn'[d].gone /\ conn[d].user = u /\ conn'[d].user = u
            /\ conn'[d].pc = conn[d].pc /\ conn'[d].missed = conn[d].missed
            /\ conn'[d].early = conn[d].early /\ conn'[d].last = NoEvent
        /\ \/ conn'[c].last = NoEvent
           \/ \E d \in S : /\ conn'[c].had = conn[d].had /\ conn'[c].last = conn[d].last
                           /\ conn'[c].base = conn[d].base
    BY ConnectSteps DEF ListInv
<1>3. /\ data'[u] \in {data[u], Torn} \/ (data[u] = NoList /\ data'[u] = <<>>)
      /\ \A v \in User \ {u} : data'[v] = data[v]
      /\ data[u] = Torn => data'[u] = Torn
    <2>1. Becomes(u, IF data[u] = NoList THEN <<>> ELSE data[u], c)
        BY DEF Connect
    <2> QED BY <2>1, BecomesLemma
<1>4. Lasting /\ Lessened
    BY <1>1, <1>3 DEF Lasting, Lessened
<1>5. LogInv'
    BY <1>1 DEF SkipInv, LogInv
<1>6. WalkerInv'
    <2>1. \A t \in Thread : task[t].user # NoUser => task[t].user \in User
        BY TaskFields
    <2>2. ASSUME NEW v \in User, data'[v] # Torn
          PROVE  data'[v] \in {data[v], NoList} \/ (data[v] = NoList /\ data'[v] = <<>>)
        BY <1>3, <2>2
    <2> QED BY <1>1, <1>4, <2>1, <2>2, WalkerKeeps DEF SkipInv, ListInv
<1>7. OwedInv'
    <2>1. ASSUME NEW t \in Thread, NEW v \in User, task[t].event # NoEvent,
                 v \in owed'[task[t].event], data'[v] \notin {NoList, Torn},
                 data[v] \notin {NoList, Torn} => \A d \in Range(data[v]) : conn[d].pc \in Readable,
                 NEW d \in Range(data'[v])
          PROVE  conn'[d].pc \in Readable
        <3>1. Range(<<>>) = {}
            BY DEF Range
        <3>2. data'[v] = data[v]
            BY <1>3, <2>1, <3>1
        <3>3. d \in Conn /\ conn[d].pc \in Readable
            BY <2>1, <3>2, TypeParts DEF Range
        <3>4. d # c
            BY <1>1, <3>3 DEF Readable
        <3> QED BY <1>2, <3>3, <3>4
    <2> QED BY <1>1, <1>4, <2>1, OwedKeeps DEF SkipInv
<1>8. WaitInv'
    <2>1. ASSUME NEW d \in Conn \ {c}
          PROVE  /\ conn'[d].pc = conn[d].pc /\ conn'[d].missed = conn[d].missed
                 /\ conn'[d].early = conn[d].early
        BY <1>2
    <2> QED BY <1>1, <2>1 DEF SkipInv, WaitInv
<1>9. WholeInv' /\ ReachInv'
    <2>1. Whole(c)'
        <3>1. CASE conn'[c].last = NoEvent
            BY <3>1 DEF Whole
        <3>2. ASSUME NEW d \in S, conn'[c].had = conn[d].had, conn'[c].last = conn[d].last,
                     conn'[c].base = conn[d].base
              PROVE  Whole(c)'
            <4>1. Whole(d) /\ conn[d].gone /\ conn[d].user = u
                BY <1>2 DEF SkipInv, WholeInv
            <4> QED BY <1>1, <1>3, <3>2, <4>1 DEF Whole, Owing
        <3> QED BY <1>2, <3>1, <3>2
    <2>2. Reached(c)'
        BY <1>1 DEF Reached, Quiet, Readable
    <2>3. \A d \in S : Whole(d)' /\ Reached(d)'
        BY <1>2 DEF Whole, Reached, Quiet
    <2>4. ASSUME NEW d \in Conn \ (S \union {c}), NEW t \in Thread, NEW e \in Event,
                 Quiet(d), Quiet(d)', Ahead(t, d, e)
          PROVE  Ahead(t, d, e)'
        <3>1. conn[d].user \in User /\ data[conn[d].user] \notin {NoList, Torn}
            BY <2>4, QuietListed
        <3>2. conn'[d] = conn[d]
            BY <1>2
        <3>3. data'[conn[d].user] = data[conn[d].user]
            BY <1>3, <2>4, <3>1, <3>2 DEF Quiet
        <3> QED BY <1>1, <2>4, <3>2, <3>3, AheadSame
    <2>5. /\ WholeInv /\ ReachInv /\ S \union {c} \in SUBSET Conn
          /\ \A d \in S \union {c} : Whole(d)' /\ Reached(d)'
          /\ \A d \in Conn \ (S \union {c}) : conn'[d] = conn[d]
        BY <1>2, <2>1, <2>2, <2>3 DEF SkipInv
    <2> QED BY <1>1, <1>4, <2>4, <2>5, OthersKeep
<1> QED BY <1>5, <1>6, <1>7, <1>8, <1>9 DEF SkipInv

\* Every step of a request or of the container for one connection, together.
LEMMA ServeSkips ==
    ASSUME TypeOK, ListInv, SkipInv, NEW c \in Conn, Serve(c)
    PROVE  SkipInv'
<1>1. ASSUME NEW u \in User, Connect(c, u) PROVE SkipInv'
    BY <1>1, ConnectSkips
<1>2. CASE AddBegins(c) \/ RemoveBegins(c)
    BY <1>2, BeginsSkip, RemoveSkips
<1>3. CASE AddEnds(c) \/ RemoveEnds(c) \/ Unmap(c)
    BY <1>3, AddEndsSkips, RemoveSkips, UnmapSkips
<1>4. CASE FindMissed(c) \/ FindNothing(c) \/ Resend(c) \/ Open(c)
    BY <1>4, FindSkips, ResendSkips, OpenSkips
<1>5. CASE Leave(c) \/ Complete(c)
    BY <1>5, EndSkips
<1>6. CASE CountFails(c) \/ NothingToRemove(c) \/ Check(c)
    BY <1>6, IdleSkips
<1> QED BY <1>1, <1>2, <1>3, <1>4, <1>5, <1>6 DEF Serve

\* A step of thread t that leaves the connections as they are, and the lists, unless they
\* are torn.
LEMMA ThreadKeeps ==
    ASSUME TypeOK, ListInv, SkipInv, NEW t \in Thread, UNCHANGED <<log, conn>>, Lessened,
           \A v \in User : data'[v] \in {data[v], Torn},
           \A s \in Thread \ {t} : task'[s] = task[s],
           task'[t].user = NoUser => ~task'[t].changed,
           /\ task'[t].user # NoUser
           => /\ task'[t].at > 0 /\ task'[t].user \in User
              /\ /\ ~task'[t].changed
                 /\ data'[task'[t].user] \notin {NoList, Torn}
                 => task'[t].upto = Len(data'[task'[t].user]),
           /\ task'[t].event # NoEvent
           /\ owed'[task'[t].event] # {}
           => /\ task'[t].event = task[t].event
              /\ task'[t].left \subseteq owed[task[t].event]
              /\ task'[t].user # NoUser => task'[t].user \in owed[task[t].event]
              /\ ~task'[t].changed,
           \A d \in Conn, e \in Event :
                Quiet(d) /\ Quiet(d)' /\ Ahead(t, d, e) /\ conn[d].user \in owed'[e]
                => Ahead(t, d, e)'
    PROVE  SkipInv'
<1>1. Lasting
    BY DEF Lasting
<1>2. LogInv' /\ WaitInv'
    BY DEF SkipInv, LogInv, WaitInv
<1>3. WalkerInv'
    <2>1. ASSUME NEW s \in Thread \ {t}, task[s].user # NoUser, ~task[s].changed,
                 data'[task[s].user] \notin {NoList, Torn}
          PROVE  data'[task[s].user] = data[task[s].user]
        <3>1. task[s].user \in User
            BY <2>1, TaskFields
        <3> QED BY <2>1, <3>1
    <2>2. ASSUME NEW s \in Thread \ {t}
          PROVE  /\ task'[s].user = NoUser => ~task'[s].changed
                 /\ task'[s].user # NoUser => task'[s].at > 0
                 /\ /\ task'[s].user # NoUser /\ ~task'[s].changed
                    /\ data'[task'[s].user] \notin {NoList, Torn}
                    => \/ task'[s].upto = Len(data'[task'[s].user])
                       \/ data'[task'[s].user] = <<>> /\ task'[s].at > task'[s].upto
        BY <2>1 DEF SkipInv, WalkerInv
    <2> QED BY <2>2 DEF WalkerInv
<1>4. OwedInv'
    <2>1. ASSUME NEW s \in Thread, task'[s].event # NoEvent, owed'[task'[s].event] # {}
          PROVE  /\ task'[s].event = task[s].event /\ task[s].event \in Event
                 /\ owed'[task[s].event] = owed[task[s].event]
                 /\ task'[s].left \subseteq owed[task[s].event]
                 /\ task'[s].user # NoUser => task'[s].user \in owed[task[s].event]
                 /\ ~task'[s].changed
        <3>1. task'[s].event = task[s].event
            BY <2>1
        <3>2. task[s].event \in Event
            BY <2>1, <3>1, TaskFields, LogFields
        <3>3. owed'[task[s].event] = owed[task[s].event]
            BY <2>1, <3>1, <3>2 DEF Lessened
        <3>4. CASE s = t
            BY <2>1, <3>1, <3>2, <3>3, <3>4
        <3>5. CASE s # t
            BY <2>1, <3>1, <3>2, <3>3, <3>5 DEF SkipInv, OwedInv
        <3> QED BY <3>4, <3>5
    <2>2. ASSUME NEW s \in Thread, task[s].event # NoEvent, NEW u \in owed[task[s].event],
                 task[s].event \in Event, data'[u] \notin {NoList, Torn}
          PROVE  \A c \in Range(data'[u]) : conn[c].pc \in Readable
        <3>1. u \in User
            BY <2>2, TypeParts
        <3>2. data'[u] = data[u]
            BY <2>2, <3>1
        <3> QED BY <2>2, <3>2 DEF SkipInv, OwedInv
    <2> QED BY <2>1, <2>2 DEF OwedInv
<1>5. WholeInv' /\ ReachInv'
    <2>1. ASSUME NEW d \in Conn, NEW s \in Thread, NEW e \in Event, Quiet(d), Quiet(d)',
                 Ahead(s, d, e), conn[d].user \in owed'[e]
          PROVE  Ahead(s, d, e)'
        <3>1. CASE s = t
            BY <2>1, <3>1
        <3>2. CASE s # t
            <4>1. conn[d].user \in User
                BY <2>1, QuietListed
            <4>2. data'[conn[d].user] = data[conn[d].user] /\ task'[s] = task[s]
                BY <2>1, <3>2, <4>1 DEF Quiet
            <4> QED BY <2>1, <4>2, AheadSame
        <3> QED BY <3>1, <3>2
    <2>2. WholeInv /\ ReachInv /\ {} \in SUBSET Conn /\ \A d \in {} : Whole(d)' /\ Reached(d)'
        BY DEF SkipInv
    <2>3. \A d \in Conn \ {} : conn'[d] = conn[d]
        OBVIOUS
    <2> QED BY <1>1, <2>1, <2>2, <2>3, OthersKeep
<1> QED BY <1>2, <1>3, <1>4, <1>5 DEF SkipInv

\* What is ahead of a quiet connection, for a receiver that is owed it.
LEMMA AheadFacts ==
    ASSUME TypeOK, ListInv, SkipInv, Lessened, NEW t \in Thread, NEW d \in Conn,
           NEW e \in Event, Quiet(d), Ahead(t, d, e), conn[d].user \in owed'[e]
    PROVE  /\ task[t].event = e /\ e # NoEvent /\ owed[e] # {} /\ owed'[e] # {}
           /\ conn[d].user \in User /\ conn[d].user # NoUser
           /\ data[conn[d].user] \notin {NoList, Torn} /\ d \in Range(data[conn[d].user])
           /\ ~task[t].changed /\ task[t].left \subseteq owed[e]
           /\ task[t].user # NoUser => task[t].user \in owed[e]
           /\ \A u \in owed[e] : data[u] \notin {NoList, Torn} =>
                \A c \in Range(data[u]) : conn[c].pc \in Readable
<1>1. task[t].event = e /\ e # NoEvent
    BY LogFields DEF Ahead
<1>2. owed[e] # {} /\ owed'[e] # {}
    BY DEF Lessened
<1>3. /\ conn[d].user \in User
      /\ data[conn[d].user] \notin {NoList, Torn} /\ d \in Range(data[conn[d].user])
    BY QuietListed
<1> QED BY <1>1, <1>2, <1>3, BasicSseAssumption DEF SkipInv, OwedInv

\* A receiver without a list is nobody who reads.
LEMMA SkipSkips ==
    ASSUME TypeOK, ListInv, SkipInv, NEW t \in Thread, NEW u \in User, Skip(t, u)
    PROVE  SkipInv'
<1>1. /\ UNCHANGED <<data, conn, log, owed>> /\ task[t].user = NoUser /\ data[u] = NoList
      /\ task'[t].event = task[t].event /\ task'[t].left = task[t].left \ {u}
      /\ task'[t].user = NoUser /\ task'[t].changed = task[t].changed
      /\ \A s \in Thread \ {t} : task'[s] = task[s]
    BY TypeParts DEF Skip, Tasks
<1>2. Lessened
    BY <1>1 DEF Lessened
<1>3. ~task[t].changed
    BY <1>1 DEF SkipInv, WalkerInv
<1>4. task[t].event # NoEvent /\ owed[task[t].event] # {} =>
        task[t].left \subseteq owed[task[t].event]
    BY DEF SkipInv, OwedInv
<1>5. ASSUME NEW d \in Conn, NEW e \in Event, Quiet(d), Ahead(t, d, e), conn[d].user \in owed'[e]
      PROVE  Ahead(t, d, e)'
    BY <1>1, <1>2, <1>5, AheadFacts DEF Ahead
<1> QED BY <1>1, <1>2, <1>3, <1>4, <1>5, ThreadKeeps

\* Whoever is in the list when a walk begins is ahead of it.
LEMMA EnterSkips ==
    ASSUME TypeOK, ListInv, SkipInv, NEW t \in Thread, NEW u \in User, Enter(t, u)
    PROVE  SkipInv'
<1>1. /\ UNCHANGED <<conn, log, owed>> /\ task[t].user = NoUser /\ data[u] # NoList
      /\ u \in task[t].left \/ task[t].event = NoEvent
      /\ task'[t].event = task[t].event /\ task'[t].left = task[t].left \ {u}
      /\ task'[t].user = u /\ task'[t].at = 1 /\ task'[t].changed = task[t].changed
      /\ data[u] # Torn => task'[t].upto = Len(data[u])
      /\ \A s \in Thread \ {t} : task'[s] = task[s]
    BY TypeParts DEF Enter, Tasks, Idle
<1>2. \A v \in User : data'[v] \in {data[v], Torn}
    BY TypeParts DEF Enter
<1>3. Lessened
    BY <1>1 DEF Lessened
<1>4. ~task[t].changed /\ u # NoUser
    BY <1>1, BasicSseAssumption DEF SkipInv, WalkerInv
<1>5. data'[u] \notin {NoList, Torn} => data'[u] = data[u]
    BY <1>2
<1>6. task[t].event # NoEvent /\ owed[task[t].event] # {} =>
        task[t].left \subseteq owed[task[t].event]
    BY DEF SkipInv, OwedInv
<1>7. ASSUME NEW d \in Conn, NEW e \in Event, Quiet(d), Quiet(d)', Ahead(t, d, e),
             conn[d].user \in owed'[e]
      PROVE  Ahead(t, d, e)'
    <2>1. /\ task[t].event = e /\ conn[d].user \in User /\ conn[d].user # NoUser
          /\ data[conn[d].user] \notin {NoList, Torn} /\ d \in Range(data[conn[d].user])
        BY <1>3, <1>7, AheadFacts
    <2>2. conn[d].user \in task[t].left
        BY <1>1, <1>7, <2>1 DEF Ahead
    <2>3. data'[conn[d].user] = data[conn[d].user]
        BY <1>1, <1>2, <1>7, <2>1 DEF Quiet
    <2>4. CASE conn[d].user = u
        <3>1. data[u] \in Seq(Conn)
            BY <2>1, <2>4, TypeParts
        <3>2. \E i \in DOMAIN data[u] : i >= 1 /\ data[u][i] = d
            BY <2>1, <2>4, <3>1 DEF Range
        <3> QED BY <1>1, <1>4, <2>1, <2>3, <2>4, <3>2 DEF Ahead
    <2>5. CASE conn[d].user # u
        BY <1>1, <2>1, <2>2, <2>5 DEF Ahead
    <2> QED BY <2>4, <2>5
<1> QED BY <1>1, <1>2, <1>3, <1>4, <1>5, <1>6, <1>7, ThreadKeeps

\* The call ends: it is over, or disturbed.
LEMMA StopSkips ==
    ASSUME TypeOK, ListInv, SkipInv, NEW t \in Thread, Stop(t), UNCHANGED <<log, conn, data>>,
           \A d \in Conn, e \in Event :
                ~(Quiet(d) /\ Ahead(t, d, e) /\ conn[d].user \in owed'[e])
    PROVE  SkipInv'
<1>1. /\ Lessened /\ task'[t] = Idle
      /\ \A s \in Thread \ {t} : task'[s] = task[s]
    BY StopLemma
<1>2. Idle.user = NoUser /\ ~Idle.changed /\ Idle.event = NoEvent
    BY DEF Idle
<1> QED BY <1>1, <1>2, ThreadKeeps

\* The call goes on to the receivers that are left.
LEMMA GoOnSkips ==
    ASSUME TypeOK, ListInv, SkipInv, NEW t \in Thread, task' = GoOn(t),
           UNCHANGED <<log, conn, data, owed>>,
           \A d \in Conn, e \in Event :
                Quiet(d) /\ Ahead(t, d, e) /\ conn[d].user \in owed[e]
                => conn[d].user \in task[t].left
    PROVE  SkipInv'
<1>1. /\ task'[t].event = task[t].event /\ task'[t].left = task[t].left
      /\ task'[t].user = NoUser /\ ~task'[t].changed
      /\ \A s \in Thread \ {t} : task'[s] = task[s]
    BY TypeParts DEF GoOn, Idle
<1>2. Lessened
    BY DEF Lessened
<1>3. task[t].event # NoEvent /\ owed[task[t].event] # {} =>
        task[t].left \subseteq owed[task[t].event]
    BY DEF SkipInv, OwedInv
<1>4. ASSUME NEW d \in Conn, NEW e \in Event, Quiet(d), Ahead(t, d, e), conn[d].user \in owed'[e]
      PROVE  Ahead(t, d, e)'
    BY <1>1, <1>4 DEF Ahead
<1> QED BY <1>1, <1>2, <1>3, <1>4, ThreadKeeps

\* Walks that have come to their end have nothing ahead in the list.
LEMMA WalkedThrough ==
    ASSUME TypeOK, ListInv, SkipInv, NEW t \in Thread, NEW d \in Conn, NEW e,
           task[t].at > task[t].upto, Quiet(d), Ahead(t, d, e)
    PROVE  conn[d].user \in task[t].left
<1> SUFFICES ASSUME task[t].user = conn[d].user, ~task[t].changed,
                    NEW i \in DOMAIN data[conn[d].user], i >= task[t].at
             PROVE  FALSE
    BY DEF Ahead
<1>1. conn[d].user \in User /\ data[conn[d].user] \notin {NoList, Torn} /\ conn[d].user # NoUser
    BY QuietListed, BasicSseAssumption
<1>2. data[conn[d].user] \in Seq(Conn)
    BY <1>1, TypeParts
<1>3. task[t].upto = Len(data[conn[d].user]) \/ data[conn[d].user] = <<>>
    BY <1>1 DEF SkipInv, WalkerInv
<1>4. task[t].at \in Nat /\ task[t].upto \in Nat
    BY TaskFields
<1> QED BY <1>2, <1>3, <1>4

\* When a walk ends, nobody is ahead of it.
LEMMA WalkEndSkips ==
    ASSUME TypeOK, ListInv, SkipInv, NEW t \in Thread,
           ExpungeFails(t) \/ WalkTorn(t) \/ Finish(t)
    PROVE  SkipInv'
<1>1. CASE ExpungeFails(t)
    <2>1. Stop(t) /\ UNCHANGED <<log, conn, data>> /\ task[t].changed
        BY <1>1 DEF ExpungeFails
    <2>2. Lessened
        BY <2>1, StopLemma
    <2>3. \A d \in Conn, e \in Event :
            ~(Quiet(d) /\ Ahead(t, d, e) /\ conn[d].user \in owed'[e])
        BY <2>1, <2>2, AheadFacts
    <2> QED BY <2>1, <2>3, StopSkips
<1>2. CASE Finish(t)
    <2>1. Stop(t) /\ UNCHANGED <<log, conn, data>> /\ task[t].user = NoUser /\ task[t].left = {}
        BY <1>2 DEF Finish
    <2>2. Lessened
        BY <2>1, StopLemma
    <2>3. ASSUME NEW d \in Conn, NEW e \in Event, Quiet(d), Ahead(t, d, e),
                 conn[d].user \in owed'[e]
          PROVE  FALSE
        <3>1. conn[d].user # NoUser
            BY <2>2, <2>3, AheadFacts
        <3> QED BY <2>1, <2>3, <3>1 DEF Ahead
    <2> QED BY <2>1, <2>3, StopSkips
<1>3. CASE WalkTorn(t) /\ Stop(t)
    <2>1. UNCHANGED <<log, conn, data>> /\ task[t].user # NoUser /\ data[task[t].user] = Torn
        BY <1>3 DEF WalkTorn
    <2>2. /\ Lessened
          /\ task[t].event # NoEvent /\ (\E u \in owed[task[t].event] : data[u] = Torn)
             => owed'[task[t].event] = {}
        BY <1>3, StopLemma
    <2>3. ASSUME NEW d \in Conn, NEW e \in Event, Quiet(d), Ahead(t, d, e),
                 conn[d].user \in owed'[e]
          PROVE  FALSE
        <3>1. task[t].event = e /\ e # NoEvent /\ owed'[e] # {} /\ task[t].user \in owed[e]
            BY <2>1, <2>2, <2>3, AheadFacts
        <3> QED BY <2>1, <2>2, <3>1
    <2> QED BY <1>3, <2>1, <2>3, StopSkips
<1>4. CASE WalkTorn(t) /\ task' = GoOn(t) /\ UNCHANGED owed
    <2>1. UNCHANGED <<log, conn, data>> /\ data[task[t].user] = Torn
        BY <1>4 DEF WalkTorn
    <2>2. \A d \in Conn, e \in Event :
            Quiet(d) /\ Ahead(t, d, e) => conn[d].user \in task[t].left
        BY <2>1 DEF Ahead, Quiet
    <2> QED BY <1>4, <2>1, <2>2, GoOnSkips
<1> QED BY <1>1, <1>2, <1>3, <1>4 DEF WalkTorn

\* What has failed is dropped: the other walks through the list are disturbed.
LEMMA ExpungeSkips ==
    ASSUME TypeOK, ListInv, SkipInv, NEW t \in Thread, Expunge(t)
    PROVE  SkipInv'
<1> DEFINE u == task[t].user
           q == data[u]
           failed == {q[i] : i \in DOMAIN q \intersect task[t].failing}
<1>1. /\ UNCHANGED <<conn, log>> /\ u # NoUser /\ u \in User /\ q # Torn /\ ~task[t].changed
      /\ task[t].at > task[t].upto
    BY TaskFields DEF Expunge
<1>2. CASE task' = GoOn(t) /\ UNCHANGED <<data, owed>>
    BY <1>1, <1>2, WalkedThrough, GoOnSkips
<1>3. CASE /\ task[t].failing # {}
           /\ \E rest \in Without(q, failed) : Becomes(u, rest, NoUser)
           /\ DisturbAt(Thread \ {t}, u)
           /\ task' = [s \in Thread |->
                IF s = t THEN GoOn(t)[t]
                ELSE [task[s] EXCEPT !.changed = @ \/ task[s].user = u]]
    <2>1. q \in Seq(Conn)
        BY <1>1, <1>3, TypeParts DEF ListInv, WalkInv
    <2>2. PICK rest \in Without(q, failed) : Becomes(u, rest, NoUser)
        BY <1>3
    <2>3. rest \in Seq(Conn) /\ Range(rest) \subseteq Range(q)
        BY <2>1, <2>2, WithoutLemma
    <2>4. /\ data'[u] \in {rest, Torn}
          /\ \A v \in User \ {u} : data'[v] = data[v]
        <3> HIDE DEF u
        <3> QED BY <1>1, <2>2, BecomesLemma
    <2>5. /\ Lessened
          /\ \A s \in Thread \ {t} : task[s].event # NoEvent =>
                /\ u \notin owed'[task[s].event]
                /\ u \in owed[task[s].event] => owed'[task[s].event] = {}
        BY <1>3, DisturbLemma
    <2>6. ASSUME NEW s \in Thread \ {t}
          PROVE  /\ task'[s].event = task[s].event /\ task'[s].left = task[s].left
                 /\ task'[s].user = task[s].user
                 /\ task'[s].at = task[s].at /\ task'[s].upto = task[s].upto
                 /\ task'[s].changed <=> task[s].changed \/ task[s].user = u
                 /\ task[s].user # u => task'[s].changed = task[s].changed
        BY <1>3, TypeParts DEF Tasks
    <2>7. /\ task'[t].event = task[t].event /\ task'[t].left = task[t].left
          /\ task'[t].user = NoUser /\ ~task'[t].changed
        BY <1>3, TypeParts DEF GoOn, Idle
    <2>8. Lasting
        BY <1>1, <2>4 DEF Lasting
    <2> HIDE DEF failed
    <2>9. LogInv' /\ WaitInv'
        BY <1>1 DEF SkipInv, LogInv, WaitInv
    <2>10. WalkerInv'
        <3>1. ASSUME NEW s \in Thread \ {t}
              PROVE  /\ task'[s].user = NoUser => ~task'[s].changed
                     /\ task'[s].user # NoUser => task'[s].at > 0
                     /\ /\ task'[s].user # NoUser /\ ~task'[s].changed
                        /\ data'[task'[s].user] \notin {NoList, Torn}
                        => \/ task'[s].upto = Len(data'[task'[s].user])
                           \/ data'[task'[s].user] = <<>> /\ task'[s].at > task'[s].upto
            <4>1. task[s].user # NoUser => task[s].user \in User
                BY TaskFields
            <4>2. ASSUME ~task'[s].changed, task[s].user # NoUser
                  PROVE  data'[task[s].user] = data[task[s].user] /\ ~task[s].changed
                BY <2>4, <2>6, <4>1, <4>2
            <4> QED BY <1>1, <2>6, <4>2 DEF SkipInv, WalkerInv
        <3> QED BY <2>7, <3>1 DEF WalkerInv
    <2>11. OwedInv'
        <3>1. ASSUME NEW s \in Thread, task'[s].changed, ~task[s].changed, task[s].event # NoEvent
              PROVE  owed'[task[s].event] = {}
            <4>1. s # t /\ task[s].user = u /\ task[s].event \in Event
                BY <2>6, <2>7, <3>1, TaskFields, LogFields
            <4>2. owed[task[s].event] = {} \/ u \in owed[task[s].event]
                BY <1>1, <3>1, <4>1 DEF SkipInv, OwedInv
            <4> QED BY <2>5, <3>1, <4>1, <4>2 DEF Lessened
        <3>2. ASSUME NEW v \in User, data'[v] \notin {NoList, Torn},
                     data[v] \notin {NoList, Torn} => \A d \in Range(data[v]) : conn[d].pc \in Readable,
                     NEW d \in Range(data'[v])
              PROVE  conn'[d].pc \in Readable
            <4>1. CASE v = u
                BY <1>1, <2>1, <2>3, <2>4, <3>2, <4>1, NoLists
            <4>2. CASE v # u
                BY <1>1, <2>4, <3>2, <4>2
            <4> QED BY <4>1, <4>2
        <3>3. \A s \in Thread : /\ task'[s].event = task[s].event
                                /\ task'[s].left \subseteq task[s].left
                                /\ task'[s].user \in {task[s].user, NoUser}
            BY <2>6, <2>7
        <3> QED BY <2>5, <3>1, <3>2, <3>3, OwedKeeps DEF SkipInv
    <2>12. WholeInv' /\ ReachInv'
        <3>1. ASSUME NEW d \in Conn, NEW s \in Thread, NEW e \in Event, Quiet(d), Quiet(d)',
                     Ahead(s, d, e), conn[d].user \in owed'[e]
              PROVE  Ahead(s, d, e)'
            <4>1. task[s].event = e /\ e # NoEvent /\ conn[d].user \in User
                BY <2>5, <3>1, AheadFacts
            <4>2. CASE s = t
                <5>1. conn[d].user \in task[t].left
                    BY <1>1, <3>1, <4>2, WalkedThrough
                <5> QED BY <1>1, <2>7, <4>1, <4>2, <5>1 DEF Ahead
            <4>3. CASE s # t
                <5>1. conn[d].user # u
                    BY <2>5, <3>1, <4>1, <4>3
                <5>2. data'[conn[d].user] = data[conn[d].user]
                    BY <2>4, <4>1, <5>1
                <5> QED BY <1>1, <2>6, <3>1, <4>3, <5>1, <5>2, AheadSame
            <4> QED BY <4>2, <4>3
        <3>2. /\ WholeInv /\ ReachInv /\ {} \in SUBSET Conn
              /\ \A d \in {} : Whole(d)' /\ Reached(d)'
              /\ \A d \in Conn \ {} : conn'[d] = conn[d]
            BY <1>1 DEF SkipInv
        <3> QED BY <1>1, <2>5, <2>8, <3>1, <3>2, OthersKeep
    <2> QED BY <2>9, <2>10, <2>11, <2>12 DEF SkipInv
<1> QED BY <1>2, <1>3 DEF Expunge

\* An emitter is sent the event that the call is about.
LEMMA SentSteps ==
    ASSUME TypeOK, NEW c \in Conn, NEW e, conn' = Sent(c, e)
    PROVE  /\ \A d \in Conn \ {c} : conn'[d] = conn[d]
           /\ conn'[c].pc = conn[c].pc /\ conn'[c].user = conn[c].user
           /\ conn'[c].gone = conn[c].gone /\ conn'[c].base = conn[c].base
           /\ conn'[c].missed = conn[c].missed
           /\ \/ conn[c].pc = "open" /\ conn'[c].early = conn[c].early
              \/ conn'[c].had = conn[c].had /\ conn'[c].last = conn[c].last
           /\ conn[c].pc = "open" => conn'[c].early = conn[c].early
           /\ conn[c].gone => conn'[c] = conn[c]
           /\ conn[c].had \subseteq conn'[c].had
           /\ Range(conn[c].early) \subseteq Range(conn'[c].early)
           /\ e # NoEvent /\ ~conn[c].gone => e \in conn'[c].had \/ e \in Range(conn'[c].early)
<1>1. conn \in [Conn -> Conns(Range(log))] /\ conn[c] \in Conns(Range(log))
    BY TypeParts
<1>2. CASE e = NoEvent \/ conn[c].gone
    BY <1>2 DEF Sent
<1>3. CASE ~(e = NoEvent \/ conn[c].gone) /\ conn[c].pc = "open"
    BY <1>1, <1>3 DEF Sent, Conns
<1>4. CASE ~(e = NoEvent \/ conn[c].gone) /\ conn[c].pc # "open"
    <2> DEFINE q == conn[c].early
    <2>1. conn' = [conn EXCEPT ![c].early = Append(@, e)]
        BY <1>4 DEF Sent
    <2>2. /\ \A d \in Conn \ {c} : conn'[d] = conn[d]
          /\ conn'[c].pc = conn[c].pc /\ conn'[c].user = conn[c].user
          /\ conn'[c].gone = conn[c].gone /\ conn'[c].base = conn[c].base
          /\ conn'[c].missed = conn[c].missed /\ conn'[c].had = conn[c].had
          /\ conn'[c].last = conn[c].last
          /\ conn'[c].early = Append(q, e)
        BY <1>1, <2>1 DEF Conns
    <2>3. q \in Seq(Range(log))
        BY ConnFields
    <2>4. /\ DOMAIN q = 1 .. Len(q) /\ Len(q) \in Nat
          /\ DOMAIN Append(q, e) = 1 .. Len(q) + 1
          /\ \A i \in 1 .. Len(q) : Append(q, e)[i] = q[i]
          /\ Append(q, e)[Len(q) + 1] = e
        BY <2>3
    <2>5. Range(q) \subseteq Range(Append(q, e)) /\ e \in Range(Append(q, e))
        BY <2>4 DEF Range
    <2> QED BY <1>4, <2>2, <2>5
<1> QED BY <1>2, <1>3, <1>4

\* The predicate of removeIf comes to the next emitter.
LEMMA ReachSkips ==
    ASSUME TypeOK, ListInv, SkipInv, NEW t \in Thread, NEW c \in Conn,
           task[t].user \in User, data[task[t].user] \notin {NoList, Torn},
           task[t].at \in DOMAIN data[task[t].user], c = data[task[t].user][task[t].at],
           Reach(t, c), UNCHANGED <<data, log, owed>>
    PROVE  SkipInv'
<1> DEFINE u == task[t].user
           e == task[t].event
<1>1. conn' = Sent(c, e)
    BY DEF Reach
<1>2. /\ task'[t].event = e /\ task'[t].left = task[t].left /\ task'[t].user = u
      /\ task'[t].at = task[t].at + 1 /\ task'[t].upto = task[t].upto
      /\ task'[t].changed = task[t].changed
      /\ \A s \in Thread \ {t} : task'[s] = task[s]
    <2>1. PICK failing :
            task' = [task EXCEPT ![t].at = @ + 1, ![t].failing = @ \union failing]
        BY DEF Reach
    <2>2. task \in [Thread -> Tasks(Range(log))] /\ task[t] \in Tasks(Range(log))
        BY TypeParts
    <2>3. /\ task'[t] = [task[t] EXCEPT !.at = @ + 1, !.failing = @ \union failing]
          /\ \A s \in Thread \ {t} : task'[s] = task[s]
        BY <2>1, <2>2
    <2> QED BY <2>2, <2>3 DEF Tasks
<1>3. /\ \A d \in Conn \ {c} : conn'[d] = conn[d]
      /\ conn'[c].pc = conn[c].pc /\ conn'[c].user = conn[c].user
      /\ conn'[c].gone = conn[c].gone /\ conn'[c].base = conn[c].base
      /\ conn'[c].missed = conn[c].missed
      /\ \/ conn[c].pc = "open" /\ conn'[c].early = conn[c].early
         \/ conn'[c].had = conn[c].had /\ conn'[c].last = conn[c].last
      /\ conn[c].pc = "open" => conn'[c].early = conn[c].early
      /\ conn[c].gone => conn'[c] = conn[c]
      /\ conn[c].had \subseteq conn'[c].had
      /\ Range(conn[c].early) \subseteq Range(conn'[c].early)
      /\ e # NoEvent /\ ~conn[c].gone => e \in conn'[c].had \/ e \in Range(conn'[c].early)
    BY <1>1, SentSteps
<1>4. u # NoUser /\ task[t].at \in Nat /\ task[t].upto \in Nat
    BY TaskFields, BasicSseAssumption
<1>5. c \in Range(data[u]) /\ conn[c].user = u /\ conn[c].pc \in Listable
    <2>1. c \in Range(data[u])
        BY DEF Range
    <2> QED BY <2>1 DEF ListInv, MemberInv
<1>6. Lessened /\ Lasting
    BY DEF Lessened, Lasting
<1>7. LogInv'
    BY DEF SkipInv, LogInv
<1>8. WalkerInv'
    <2>1. /\ task[t].at > 0
          /\ ~task[t].changed => \/ task[t].upto = Len(data[u])
                                 \/ data[u] = <<>> /\ task[t].at > task[t].upto
        BY <1>4 DEF SkipInv, WalkerInv
    <2>2. /\ task'[t].user # NoUser /\ task'[t].at > 0
          /\ ~task'[t].changed => \/ task'[t].upto = Len(data'[u])
                                  \/ data'[u] = <<>> /\ task'[t].at > task'[t].upto
        BY <1>2, <1>4, <2>1
    <2>3. \A s \in Thread \ {t} : task'[s] = task[s]
        BY <1>2
    <2>4. ASSUME NEW s \in Thread \ {t}
          PROVE  /\ task'[s].user = NoUser => ~task'[s].changed
                 /\ task'[s].user # NoUser => task'[s].at > 0
                 /\ /\ task'[s].user # NoUser /\ ~task'[s].changed
                    /\ data'[task'[s].user] \notin {NoList, Torn}
                    => \/ task'[s].upto = Len(data'[task'[s].user])
                       \/ data'[task'[s].user] = <<>> /\ task'[s].at > task'[s].upto
        BY <2>3 DEF SkipInv, WalkerInv
    <2> QED BY <1>2, <2>2, <2>4 DEF WalkerInv
<1>9. OwedInv'
    <2>1. \A s \in Thread : /\ task'[s].event = task[s].event /\ task'[s].left = task[s].left
                            /\ task'[s].user = task[s].user
                            /\ task'[s].changed = task[s].changed
        BY <1>2
    <2>2. \A d \in Conn : conn'[d].pc = conn[d].pc
        BY <1>3
    <2>3. \A v \in User : data[v] \notin {NoList, Torn} => Range(data[v]) \subseteq Conn
        BY TypeParts DEF Range
    <2> QED BY <1>6, <2>1, <2>2, <2>3, OwedKeeps DEF SkipInv
<1>10. WaitInv'
    <2>1. ASSUME NEW d \in Conn
          PROVE  /\ conn'[d].pc = conn[d].pc /\ conn'[d].missed = conn[d].missed
                 /\ conn[d].pc = "open" => conn'[d].early = conn[d].early
        BY <1>3
    <2> QED BY <2>1 DEF SkipInv, WaitInv
<1>11. Whole(c)'
    <2>1. CASE conn'[c].had = conn[c].had /\ conn'[c].last = conn[c].last
        BY <1>3, <1>5, <1>6, <2>1, WholeKeeps DEF SkipInv, WholeInv
    <2>2. CASE conn[c].pc = "open" /\ ~conn[c].gone
        BY <1>3, <2>2 DEF Whole
    <2> QED BY <1>3, <2>1, <2>2
<1>12. ASSUME NEW d \in Conn, NEW s \in Thread, NEW f \in Event, Quiet(d), Ahead(s, d, f),
              conn[d].user \in owed'[f]
       PROVE  Ahead(s, d, f)' \/ (d = c /\ Has(d, f)')
    <2>1. conn'[d].user = conn[d].user
        BY <1>3
    <2>2. CASE s # t
        BY <1>2, <1>12, <2>1, <2>2, AheadSame
    <2>3. CASE s = t
        <3>1. f = e /\ f # NoEvent
            BY <1>12, <2>3, LogFields DEF Ahead
        <3>2. CASE conn[d].user \in task[t].left
            BY <1>2, <2>1, <2>3, <3>1, <3>2 DEF Ahead
        <3>3. ASSUME u = conn[d].user, ~task[t].changed,
                     NEW i \in DOMAIN data[conn[d].user], i >= task[t].at,
                     data[conn[d].user][i] = d
              PROVE  Ahead(s, d, f)' \/ (d = c /\ Has(d, f)')
            <4>1. CASE i = task[t].at
                <5>1. d = c /\ ~conn[c].gone
                    BY <1>12, <3>3, <4>1 DEF Quiet
                <5> QED BY <1>3, <3>1, <5>1 DEF Has
            <4>2. CASE i # task[t].at
                <5>1. i \in Nat
                    BY <3>3, TypeParts
                <5>2. i >= task[t].at + 1
                    BY <1>4, <3>3, <4>2, <5>1
                <5> QED BY <1>2, <2>1, <2>3, <3>1, <3>3, <5>2 DEF Ahead
            <4> QED BY <4>1, <4>2
        <3> QED BY <1>12, <2>3, <3>2, <3>3 DEF Ahead
    <2> QED BY <2>2, <2>3
<1>13. Reached(c)'
    <2>1. \A f \in Range(log) : Has(c, f) => Has(c, f)'
        BY <1>3 DEF Has
    <2>2. Quiet(c)' => Quiet(c)
        BY <1>3 DEF Quiet
    <2>3. conn[c].pc = "added" => conn'[c].pc = "added" /\ conn'[c].last = conn[c].last
        BY <1>3
    <2> QED BY <1>3, <1>6, <1>12, <2>1, <2>2, <2>3, ReachKeeps DEF SkipInv, ReachInv
<1>14. WholeInv' /\ ReachInv'
    <2>1. /\ WholeInv /\ ReachInv /\ {c} \in SUBSET Conn
          /\ \A d \in {c} : Whole(d)' /\ Reached(d)'
        BY <1>11, <1>13 DEF SkipInv
    <2> QED BY <1>3, <1>6, <1>12, <2>1, OthersKeep
<1> QED BY <1>7, <1>8, <1>9, <1>10, <1>14 DEF SkipInv

\* An element is sent the event, or has failed.
LEMMA TestSkips ==
    ASSUME TypeOK, ListInv, SkipInv, NEW t \in Thread, Test(t)
    PROVE  SkipInv'
<1> DEFINE u == task[t].user
           q == data[u]
<1>1. /\ u # NoUser /\ u \in User /\ task[t].at <= task[t].upto /\ q # Torn
      /\ UNCHANGED <<data, log>> /\ task[t].at \in Nat /\ task[t].upto \in Nat
    BY TaskFields DEF Test
<1>2. q # NoList /\ q \in Seq(Conn)
    <2>1. q # NoList
        BY <1>1 DEF ListInv, WalkInv
    <2> QED BY <1>1, <2>1, TypeParts
<1>3. CASE task[t].at \in DOMAIN q /\ Reach(t, q[task[t].at]) /\ UNCHANGED owed
    <2>1. q[task[t].at] \in Conn
        BY <1>2, <1>3
    <2> QED BY <1>1, <1>2, <1>3, <2>1, ReachSkips
<1>4. CASE ~(task[t].at \in DOMAIN q /\ ~IsComplete(q[task[t].at])) /\ Stop(t) /\ UNCHANGED conn
    <2>1. Lessened
        BY <1>4, StopLemma
    <2>2. ASSUME NEW d \in Conn, NEW e \in Event, Quiet(d), Ahead(t, d, e),
                 conn[d].user \in owed'[e]
          PROVE  FALSE
        <3>1. /\ u \in owed[e] /\ ~task[t].changed
              /\ \A v \in owed[e] : data[v] \notin {NoList, Torn} =>
                    \A c \in Range(data[v]) : conn[c].pc \in Readable
            BY <1>1, <2>1, <2>2, AheadFacts
        <3>2. task[t].at > 0 /\ task[t].upto = Len(q)
            BY <1>1, <1>2, <3>1 DEF SkipInv, WalkerInv
        <3>3. task[t].at \in DOMAIN q
            BY <1>1, <1>2, <3>2
        <3>4. q[task[t].at] \in Range(q)
            BY <3>3 DEF Range
        <3>5. conn[q[task[t].at]].pc \in Readable
            BY <1>1, <1>2, <3>1, <3>4
        <3> QED BY <1>4, <3>3, <3>5 DEF IsComplete, Readable
    <2> QED BY <1>1, <1>4, <2>2, StopSkips
<1> QED BY <1>3, <1>4 DEF Test

\* An event is saved, and is ahead of all it is sent to.
LEMMA SendSkips ==
    ASSUME TypeOK, ListInv, SkipInv, NEW t \in Thread, NEW e \in Event, NEW R \in SUBSET User,
           Send(t, e, R)
    PROVE  SkipInv'
<1>1. /\ task[t] = Idle /\ log' = Append(log, e) /\ UNCHANGED <<data, conn>>
      /\ task'[t].event = e /\ task'[t].left = R /\ task'[t].user = NoUser /\ ~task'[t].changed
      /\ \A s \in Thread \ {t} : task'[s] = task[s]
      /\ owed'[e] = (IF \E u \in R : Unsettled(u) THEN {} ELSE R)
      /\ \A f \in Event \ {e} : owed'[f] = owed[f]
    BY TypeParts DEF Send, Tasks, Idle
<1>2. /\ Len(log) \in Nat /\ DOMAIN log = 1 .. Len(log) /\ DOMAIN log' = 1 .. Len(log) + 1
      /\ \A k \in DOMAIN log : log'[k] = log[k] /\ log[k] \in Event /\ log[k] # e
      /\ log'[Len(log) + 1] = e /\ NoEvent \notin Event
    BY <1>1, TypeParts, LogFields DEF Send
<1>3. e \notin Range(log)
    BY <1>2 DEF Range
<1>4. LogInv'
    <2>1. ASSUME NEW i \in DOMAIN log', NEW j \in DOMAIN log', log'[i] = log'[j]
          PROVE  i = j
        <3>1. CASE i \in DOMAIN log /\ j \in DOMAIN log
            BY <1>2, <2>1, <3>1 DEF SkipInv, LogInv
        <3>2. CASE i \notin DOMAIN log \/ j \notin DOMAIN log
            BY <1>2, <2>1, <3>2
        <3> QED BY <3>1, <3>2
    <2> QED BY <2>1 DEF LogInv
<1>5. WalkerInv'
    <2>1. ASSUME NEW s \in Thread \ {t}
          PROVE  /\ task'[s].user = NoUser => ~task'[s].changed
                 /\ task'[s].user # NoUser => task'[s].at > 0
                 /\ /\ task'[s].user # NoUser /\ ~task'[s].changed
                    /\ data'[task'[s].user] \notin {NoList, Torn}
                    => \/ task'[s].upto = Len(data'[task'[s].user])
                       \/ data'[task'[s].user] = <<>> /\ task'[s].at > task'[s].upto
        BY <1>1 DEF SkipInv, WalkerInv
    <2> QED BY <1>1, <2>1 DEF WalkerInv
<1>6. OwedInv'
    <2>1. ASSUME NEW s \in Thread \ {t}, task[s].event # NoEvent
          PROVE  owed'[task[s].event] = owed[task[s].event]
        <3>1. task[s].event \in Range(log) /\ task[s].event \in Event
            BY <2>1, TaskFields, LogFields
        <3> QED BY <1>1, <1>3, <3>1
    <2>2. ASSUME NEW s \in Thread \ {t}, task'[s].event # NoEvent, owed'[task'[s].event] # {}
          PROVE  /\ task'[s].left \subseteq owed'[task'[s].event]
                 /\ task'[s].user # NoUser => task'[s].user \in owed'[task'[s].event]
                 /\ ~task'[s].changed
                 /\ \A u \in owed'[task'[s].event] : data'[u] \notin {NoList, Torn} =>
                        \A c \in Range(data'[u]) : conn'[c].pc \in Readable
        BY <1>1, <2>1, <2>2 DEF SkipInv, OwedInv
    <2>3. ASSUME owed'[e] # {}
          PROVE  /\ R \subseteq owed'[e]
                 /\ \A u \in owed'[e] : data[u] \notin {NoList, Torn} =>
                        \A c \in Range(data[u]) : conn[c].pc \in Readable
        <3>1. owed'[e] = R /\ \A u \in R : ~Unsettled(u)
            BY <1>1, <2>3
        <3>2. ASSUME NEW u \in R, data[u] \notin {NoList, Torn}, NEW c \in Range(data[u])
              PROVE  conn[c].pc \in Readable
            <4>1. c \in Conn
                BY <3>2, TypeParts DEF Range
            <4>2. conn[c].user = u /\ conn[c].pc \in Listable
                BY <3>2, <4>1 DEF ListInv, MemberInv
            <4> QED BY <3>1, <4>1, <4>2 DEF Unsettled, Of, Listable, Readable
        <3> QED BY <3>1, <3>2
    <2> QED BY <1>1, <2>2, <2>3 DEF OwedInv
<1>7. WaitInv'
    BY <1>1 DEF SkipInv, WaitInv
<1>8. ASSUME NEW c \in Conn, NEW k \in DOMAIN log
      PROVE  Owing(c, k)' => Owing(c, k)
    BY <1>1, <1>2 DEF Owing
<1>9. ASSUME NEW c \in Conn, conn[c].last # NoEvent, NEW m \in DOMAIN log',
             log'[m] = conn[c].last
      PROVE  m \in DOMAIN log /\ log[m] = conn[c].last
    <2>1. conn[c].last # e
        BY <1>3, <1>9, ConnFields
    <2> QED BY <1>2, <1>9, <2>1
<1>10. ASSUME NEW c \in Conn PROVE Whole(c)'
    <2> SUFFICES ASSUME conn[c].gone \/ conn[c].pc \in {"add", "adding", "added", "resend"},
                        conn[c].last # NoEvent, data[conn[c].user] # Torn,
                        NEW k \in DOMAIN log', NEW m \in DOMAIN log',
                        Owing(c, k)', log'[m] = conn[c].last, k <= m
                 PROVE  log'[k] \in conn[c].had
        BY <1>1 DEF Whole
    <2>1. m \in DOMAIN log /\ log[m] = conn[c].last
        BY <1>9
    <2>2. k \in DOMAIN log /\ log'[k] = log[k]
        BY <1>2, <2>1
    <2> QED BY <1>8, <2>1, <2>2 DEF SkipInv, WholeInv, Whole
<1>11. ASSUME NEW c \in Conn PROVE Reached(c)'
    <2> SUFFICES ASSUME Quiet(c), NEW k \in DOMAIN log', Owing(c, k)'
                 PROVE  Has(c, log[k])' \/ Unasked(c, k)' \/ \E s \in Thread : Ahead(s, c, log[k])'
        BY <1>1 DEF Reached, Quiet
    <2>1. CASE k \in DOMAIN log
        <3>1. Has(c, log[k]) \/ Unasked(c, k) \/ \E s \in Thread : Ahead(s, c, log[k])
            BY <1>8, <2>1 DEF SkipInv, ReachInv, Reached
        <3>2. log'[k] = log[k] /\ log[k] \in Event
            BY <1>2, <2>1
        <3>3. Has(c, log[k]) => Has(c, log[k])'
            BY <1>1, <3>2 DEF Has
        <3>4. Unasked(c, k) => Unasked(c, k)'
            BY <1>1, <1>9 DEF Unasked
        <3>5. ASSUME NEW s \in Thread, Ahead(s, c, log[k]) PROVE Ahead(s, c, log[k])'
            <4>1. s # t
                BY <1>1, <1>2, <3>2, <3>5 DEF Ahead, Idle
            <4>2. task'[s] = task[s]
                BY <1>1, <4>1
            <4> QED BY <1>1, <3>2, <3>5, <4>2 DEF Ahead
        <3> QED BY <3>1, <3>3, <3>4, <3>5
    <2>2. CASE k = Len(log) + 1
        <3>1. log'[k] = e /\ conn[c].user \in owed'[e]
            BY <1>1, <1>2, <2>2 DEF Owing
        <3>2. conn[c].user \in R
            BY <1>1, <3>1
        <3> QED BY <1>1, <3>1, <3>2 DEF Ahead
    <2> QED BY <1>2, <2>1, <2>2
<1> QED BY <1>4, <1>5, <1>6, <1>7, <1>10, <1>11 DEF SkipInv, WholeInv, ReachInv

\* Every step keeps SkipInv.
LEMMA SkipStep == TypeOK /\ ListInv /\ SkipInv /\ [SseNext]_sseVars => SkipInv'
<1> SUFFICES ASSUME TypeOK, ListInv, SkipInv, [SseNext]_sseVars PROVE SkipInv'
    OBVIOUS
<1>1. CASE UNCHANGED vars
    <2>1. LogInv' /\ WalkerInv' /\ OwedInv' /\ WaitInv'
        BY <1>1 DEF vars, SkipInv, LogInv, WalkerInv, OwedInv, WaitInv
    <2>2. WholeInv' /\ ReachInv'
        BY <1>1 DEF vars, SkipInv, WholeInv, Whole, ReachInv, Reached, Quiet, Owing, Has, Unasked,
                    Ahead
    <2> QED BY <2>1, <2>2 DEF SkipInv
<1>2. ASSUME NEW c \in Conn, Serve(c) PROVE SkipInv'
    BY <1>2, ServeSkips
<1>3. ASSUME NEW t \in Thread, Operate(t) PROVE SkipInv'
    <2>1. ASSUME NEW e \in Event, NEW R \in SUBSET User \ {{}}, Send(t, e, R) PROVE SkipInv'
        BY <2>1, SendSkips
    <2>2. ASSUME NEW u \in User, Enter(t, u) \/ Skip(t, u) PROVE SkipInv'
        BY <2>2, EnterSkips, SkipSkips
    <2>3. CASE Test(t) \/ Expunge(t) \/ ExpungeFails(t) \/ WalkTorn(t) \/ Finish(t)
        BY <2>3, TestSkips, ExpungeSkips, WalkEndSkips
    <2> QED BY <1>3, <2>1, <2>2, <2>3 DEF Operate
<1> QED BY <1>1, <1>2, <1>3 DEF SseNext, Next, sseVars

\* SkipInv holds of an empty log.
LEMMA SkipInit == Init => SkipInv
<1> SUFFICES ASSUME Init PROVE SkipInv
    OBVIOUS
<1>1. DOMAIN log = {}
    BY DEF Init
<1>2. \A t \in Thread : task[t].user = NoUser /\ ~task[t].changed /\ task[t].event = NoEvent
    BY DEF Init, Idle
<1>3. \A c \in Conn : conn[c].missed = <<>> /\ conn[c].early = <<>>
    BY DEF Init, NewConn
<1>4. LogInv /\ WholeInv /\ ReachInv
    BY <1>1 DEF LogInv, WholeInv, Whole, ReachInv, Reached
<1> QED BY <1>2, <1>3, <1>4 DEF SkipInv, WalkerInv, OwedInv, WaitInv

\* A client has every event that was sent to it since it first connected, over however many
\* connections, unless the call was disturbed: whatever interleaves, send, connect and the
\* callbacks of the container lose nothing between the log, the emitter and the client.
THEOREM NothingSkipped == SseSpec => []NothingIsSkipped
<1>1. SseInit => SkipInv
    BY SkipInit DEF SseInit
<1>2. TypeOK /\ ListInv /\ SkipInv => NothingIsSkipped
    <2> SUFFICES ASSUME TypeOK, SkipInv, NEW c \in Conn,
                        conn[c].pc = "open" \/ (conn[c].pc = "resend" /\ conn[c].missed = <<>>),
                        ~conn[c].gone, data[conn[c].user] # Torn,
                        NEW k \in DOMAIN log, Owing(c, k),
                        \A t \in Thread : task[t].event # log[k]
                 PROVE  log[k] \in conn[c].had \union Range(conn[c].early)
        BY DEF NothingIsSkipped, Owing
    <2>1. Quiet(c) /\ ~Unasked(c, k)
        BY DEF Quiet, Readable, Unasked
    <2>2. \A t \in Thread : ~Ahead(t, c, log[k])
        BY DEF Ahead
    <2>3. Has(c, log[k])
        BY <2>1, <2>2 DEF SkipInv, ReachInv, Reached
    <2>4. conn[c].missed = <<>> /\ Range(<<>>) = {}
        BY DEF SkipInv, WaitInv, Range
    <2> QED BY <2>3, <2>4 DEF Has
<1> QED BY <1>1, <1>2, SkipStep, SseInvariant, PTL DEF SseSpec
=============================================================================
