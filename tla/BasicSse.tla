------------------------------ MODULE BasicSse ------------------------------
(***************************************************************************)
(* service/basic/BasicSseService and repository/SseEmitterRepository: the  *)
(* connections of one instance.  A client connects, threads send events to *)
(* the emitters of their receivers, a scheduler writes heartbeats and pings*)
(* to all of them, and the container's callbacks take away the emitters of *)
(* connections that are over.                                              *)
(*                                                                         *)
(* The emitters of a user are in an ArrayList, which is not made for       *)
(* threads.  When one operation on it begins before another one has ended, *)
(* an element may be lost, stay, or leave a null behind, and delete may    *)
(* forget a list that was filled again: from then on the list is Torn, and *)
(* whatever is done with it may have any outcome.                          *)
(*                                                                         *)
(* SseMessageRepository is the log here that SseMessageStore implements: a *)
(* call takes one step, and the client's last event may be forgotten by    *)
(* then, as events for others are stored there, too.  A client that lost   *)
(* its connection connects again with the id it read last.                 *)
(***************************************************************************)
EXTENDS Integers, Sequences, FiniteSets, Functions

CONSTANTS
    User,
    Conn,     \* emitters, one for each connection (the bound of a run)
    Event,    \* what is sent, each once (the bound of a run)
    Thread    \* the threads that send, and the scheduler's

NoList  == <<"nolist">>
Torn    == <<"torn">>
NoEvent == "noevent"
NoUser  == "nouser"

ASSUME BasicSseAssumption ==
    /\ Conn \intersect {"nolist", "torn", NoUser} = {}
    /\ NoEvent \notin Event
    /\ NoUser \notin User

VARIABLES
    data,    \* [User -> the list of its emitters, NoList or Torn]
    conn,    \* [Conn -> what there is to know of a connection]
    task,    \* [Thread -> what it is doing]
    log,     \* the events that were saved, in order
    owed     \* history: [Event -> its receivers, {} once its sending was disturbed]

vars == <<data, conn, task, log, owed>>

\* missed: events that are still to be sent again; early: what was sent before the
\* response began and waits in the emitter.  had and last: the events the client has,
\* and the last one it read; base: it should have what comes after this place of the
\* log.  gone: the client has left.
NewConn == [pc |-> "new", user |-> NoUser, missed |-> <<>>, early |-> <<>>, had |-> {},
            last |-> NoEvent, base |-> 0, gone |-> FALSE]

\* left: the receivers to come; user, at, upto: removeIf is at element `at` of the list
\* of a user, which had `upto` of them; failing: those its predicate was true of;
\* changed: modCount is not what it was.
Idle == [event |-> NoEvent, left |-> {}, user |-> NoUser, at |-> 0, upto |-> 0,
         failing |-> {}, changed |-> FALSE]

Init ==
    /\ data = [u \in User |-> NoList]
    /\ conn = [c \in Conn |-> NewConn]
    /\ task = [t \in Thread |-> Idle]
    /\ log = <<>>
    /\ owed = [e \in Event |-> {}]
-----------------------------------------------------------------------------
(* What the actions share.                                                 *)

Of(u) == {c \in Conn : conn[c].user = u}

\* The list of u becomes q by an operation of c, unless another one is under way that
\* began before.
Becomes(u, q, c) ==
    data' = [data EXCEPT ![u] =
        IF @ = Torn \/ \E d \in Of(u) \ {c} :
                            conn[d].pc \in {"add", "adding", "removing", "check", "unmap"}
        THEN Torn ELSE q]

\* What the threads T are sending to u is disturbed: the call may end early, for all
\* receivers.
DisturbAt(T, u) ==
    owed' = [e \in Event |-> IF u \in owed[e] /\ \E t \in T : task[t].event = e
                             THEN {} ELSE owed[e]]

Disturb(u) == DisturbAt(Thread, u)

\* modCount++ of the list of u.
Touch(u) == task' = [t \in Thread |-> [task[t] EXCEPT !.changed = @ \/ task[t].user = u]]

Listed(c) == data[conn[c].user] \notin {NoList, Torn} /\ c \in Range(data[conn[c].user])

\* q without the emitters S, which are in it once.
Without(q, S) ==
    LET kept == {i \in DOMAIN q : q[i] \notin S}
    IN  {rest \in [1 .. Cardinality(kept) -> {q[i] : i \in kept}] :
            /\ Range(rest) = {q[i] : i \in kept}
            /\ \A i, j \in DOMAIN rest :
                i < j => \E k, l \in kept : k < l /\ rest[i] = q[k] /\ rest[j] = q[l]}

\* The place of an event in the log.
Place(e) == CHOOSE k \in DOMAIN log : log[k] = e
-----------------------------------------------------------------------------
(* connect, in a request's thread.                                         *)

\* Connections of u that have ended for their clients, which read an event of them.
Lost(u) == {d \in Of(u) : conn[d].gone /\ conn[d].last # NoEvent}

\* save: computeIfAbsent.  A client that connects again takes along what it has.
Connect(c, u) ==
    /\ conn[c].pc = "new"
    /\ LET new == [NewConn EXCEPT !.pc = "add", !.user = u]
       IN  \/ conn' = [conn EXCEPT ![c] = new]
           \/ \E d \in Lost(u) :
                conn' = [conn EXCEPT
                    ![c] = [new EXCEPT !.had = conn[d].had, !.last = conn[d].last,
                                       !.base = conn[d].base],
                    ![d] = [@ EXCEPT !.had = {}, !.last = NoEvent, !.base = 0]]
    /\ Becomes(u, IF data[u] = NoList THEN <<>> ELSE data[u], c)
    /\ UNCHANGED <<task, log, owed>>

\* add begins with modCount++ ...
AddBegins(c) ==
    /\ conn[c].pc = "add"
    /\ conn' = [conn EXCEPT ![c].pc = "adding"]
    /\ Touch(conn[c].user) /\ Disturb(conn[c].user)
    /\ UNCHANGED <<data, log>>

\* ... and ends with the new size.  The client should have what is sent from now on, or
\* since it first connected.
AddEnds(c) ==
    /\ conn[c].pc = "adding"
    /\ Becomes(conn[c].user, Append(data[conn[c].user], c), c)
    /\ conn' = [conn EXCEPT ![c].pc = "added",
                    ![c].base = IF conn[c].last = NoEvent THEN Len(log) ELSE @]
    /\ UNCHANGED <<task, log, owed>>

\* The size is logged: no list, no connection.
CountFails(c) ==
    /\ conn[c].pc = "added" /\ data[conn[c].user] \in {NoList, Torn}
    /\ conn' = [conn EXCEPT ![c].pc = "failed"]
    /\ UNCHANGED <<data, task, log, owed>>

\* MUTANT: the event after the last one is passed over, too
FindMissedLate(c) ==
    /\ conn[c].pc = "added" /\ data[conn[c].user] # NoList
    /\ conn' = [conn EXCEPT ![c].pc = "resend",
                    ![c].missed = IF conn[c].last = NoEvent THEN <<>>
                                  ELSE SubSeq(log, Place(conn[c].last) + 2, Len(log))]
    /\ UNCHANGED <<data, task, log, owed>>

\* Otherwise connect sets the callbacks, sends "connected", which waits in the emitter,
\* and asks for the events after the last one.
FindMissed(c) ==
    /\ conn[c].pc = "added" /\ data[conn[c].user] # NoList
    /\ conn' = [conn EXCEPT ![c].pc = "resend",
                    ![c].missed = IF conn[c].last = NoEvent THEN <<>>
                                  ELSE SubSeq(log, Place(conn[c].last) + 1, Len(log))]
    /\ UNCHANGED <<data, task, log, owed>>

\* There are none when the last one is not kept any more: the client begins anew.
FindNothing(c) ==
    /\ conn[c].pc = "added" /\ data[conn[c].user] # NoList
    /\ conn[c].last # NoEvent
    /\ conn' = [conn EXCEPT ![c].pc = "resend", ![c].base = Len(log)]
    /\ UNCHANGED <<data, task, log, owed>>

\* The missed events are sent one by one, and wait, too.
Resend(c) ==
    /\ conn[c].pc = "resend" /\ conn[c].missed # <<>>
    /\ conn' = [conn EXCEPT ![c].missed = Tail(@),
                            ![c].early = Append(@, Head(conn[c].missed))]
    /\ UNCHANGED <<data, task, log, owed>>

\* Events in the order they were saved in.
InOrder(q) == \A i, j \in DOMAIN q : i < j => Place(q[i]) <= Place(q[j])

\* connect returns and the response begins: the client gets what waits, or leaves
\* before it has got it all.  It can ask for the rest, but not for what was saved
\* before the last one it got.
Open(c) ==
    /\ conn[c].pc = "resend" /\ conn[c].missed = <<>>
    /\ LET q == conn[c].early
       IN  \E n \in 0 .. Len(q) :
            LET last == IF n = 0 THEN conn[c].last ELSE q[n]
            IN  /\ conn' = [conn EXCEPT ![c].pc = "open", ![c].early = <<>>, ![c].last = last,
                                ![c].had = @ \union {q[i] : i \in 1 .. n},
                                ![c].gone = n < Len(q),
                                ![c].base = IF InOrder(q) \/ n \in {0, Len(q)} THEN @
                                            ELSE Place(last)]
                /\ IF n < Len(q) THEN Disturb(conn[c].user) ELSE UNCHANGED owed
    /\ UNCHANGED <<data, task, log>>
-----------------------------------------------------------------------------
(* The client, and the container's callbacks.                              *)

\* The client loses the connection; nobody tells the server.
Leave(c) ==
    /\ conn[c].pc = "open" /\ ~conn[c].gone
    /\ conn' = [conn EXCEPT ![c].gone = TRUE]
    /\ Disturb(conn[c].user)
    /\ UNCHANGED <<data, task, log>>

\* MUTANT: no callback deletes the emitter
CompleteSilently(c) ==
    /\ conn[c].pc = "open"
    /\ conn' = [conn EXCEPT ![c].pc = "closed", ![c].gone = TRUE]
    /\ Disturb(conn[c].user)
    /\ UNCHANGED <<data, task, log>>

\* A timeout, an error or the end: the emitter is complete, and its callback runs.
Complete(c) ==
    /\ conn[c].pc = "open"
    /\ conn' = [conn EXCEPT ![c].pc = "over", ![c].gone = TRUE]
    /\ Disturb(conn[c].user)
    /\ UNCHANGED <<data, task, log>>

\* delete has returned; another callback deletes again.
Deleted(c) == \E pc \in {"over", "closed"} : conn' = [conn EXCEPT ![c].pc = pc]

\* delete finds no list.
NothingToRemove(c) ==
    /\ conn[c].pc = "over" /\ data[conn[c].user] \in {NoList, Torn}
    /\ Deleted(c)
    /\ UNCHANGED <<data, task, log, owed>>

\* delete has the list; remove begins, with modCount++ if the emitter is in it ...
RemoveBegins(c) ==
    /\ conn[c].pc = "over" /\ data[conn[c].user] \notin {NoList, Torn}
    /\ IF Listed(c)
       THEN conn' = [conn EXCEPT ![c].pc = "removing"]
            /\ Touch(conn[c].user) /\ Disturb(conn[c].user)
       ELSE conn' = [conn EXCEPT ![c].pc = "check"] /\ UNCHANGED <<task, owed>>
    /\ Becomes(conn[c].user, data[conn[c].user], c)
    /\ UNCHANGED log

\* ... and ends.
RemoveEnds(c) ==
    /\ conn[c].pc = "removing"
    /\ \E rest \in Without(data[conn[c].user], {c}) : Becomes(conn[c].user, rest, c)
    /\ conn' = [conn EXCEPT ![c].pc = "check"]
    /\ UNCHANGED <<task, log, owed>>

\* MUTANT: without isEmpty
CheckNothing(c) ==
    /\ conn[c].pc = "check"
    /\ conn' = [conn EXCEPT ![c].pc = "unmap"]
    /\ UNCHANGED <<data, task, log, owed>>

\* isEmpty ...
Check(c) ==
    /\ conn[c].pc = "check"
    /\ IF data[conn[c].user] = <<>> THEN conn' = [conn EXCEPT ![c].pc = "unmap"]
       ELSE Deleted(c)
    /\ UNCHANGED <<data, task, log, owed>>

\* ... and the user's list is forgotten.  For those that walk it it has nulls only.
Unmap(c) ==
    /\ conn[c].pc = "unmap"
    /\ Becomes(conn[c].user, NoList, c)
    /\ task' = [t \in Thread |-> IF task[t].user = conn[c].user
                                 THEN [task[t] EXCEPT !.at = task[t].upto + 1] ELSE task[t]]
    /\ Deleted(c)
    /\ UNCHANGED <<log, owed>>
-----------------------------------------------------------------------------
(* send, broadcast, cleanUp, sendHeartbeat.                                *)

\* Something in the list of u is complete, or there is no telling.
Unsettled(u) == data[u] = Torn \/ \E c \in Of(u) : conn[c].pc \in {"over", "removing"}

\* send, and broadcast (to all): the event is saved.
Send(t, e, R) ==
    /\ task[t] = Idle
    /\ \A k \in DOMAIN log : log[k] # e
    /\ log' = Append(log, e)
    /\ owed' = [owed EXCEPT ![e] = IF \E u \in R : Unsettled(u) THEN {} ELSE R]
    /\ task' = [task EXCEPT ![t].event = e, ![t].left = R]
    /\ UNCHANGED <<data, conn>>

\* A receiver has no list.
Skip(t, u) ==
    /\ task[t].user = NoUser /\ u \in task[t].left /\ data[u] = NoList
    /\ task' = [task EXCEPT ![t].left = @ \ {u}]
    /\ UNCHANGED <<data, conn, log, owed>>

\* removeIf on the list of a receiver begins, of any user when cleanUp and sendHeartbeat
\* go round; a write that is under way by then is not noticed.
Enter(t, u) ==
    /\ task[t].user = NoUser /\ data[u] # NoList
    /\ u \in task[t].left \/ task[t] = Idle
    /\ task' = [task EXCEPT ![t].left = @ \ {u}, ![t].user = u, ![t].at = 1,
                            ![t].upto = IF data[u] = Torn THEN 0 ELSE Len(data[u])]
    /\ data' = IF \E c \in Of(u) : conn[c].pc \in {"adding", "removing"}
               THEN [data EXCEPT ![u] = Torn] ELSE data
    /\ UNCHANGED <<conn, log, owed>>

\* The emitter of c is sent e, NoEvent for a ping.
Sent(c, e) ==
    IF e = NoEvent \/ conn[c].gone THEN conn
    ELSE IF conn[c].pc = "open" THEN [conn EXCEPT ![c].had = @ \union {e}, ![c].last = e]
    ELSE [conn EXCEPT ![c].early = Append(@, e)]

\* The predicate of removeIf sends to one emitter; when the client is gone that fails,
\* or not yet.
Reach(t, c) ==
    /\ conn' = Sent(c, task[t].event)
    /\ \E failing \in {{}} \union (IF conn[c].gone THEN {{task[t].at}} ELSE {}) :
        task' = [task EXCEPT ![t].at = @ + 1, ![t].failing = @ \union failing]

\* The call ends, in an exception if it has not come to its end.
Stop(t) ==
    /\ task' = [task EXCEPT ![t] = Idle]
    /\ owed' = [e \in Event |->
        IF e = task[t].event /\ \E u \in owed[e] : data[u] = Torn THEN {} ELSE owed[e]]

IsComplete(c) == conn[c].pc \in {"over", "removing", "check", "unmap", "closed"}

\* null, and an emitter that is complete, throw what nobody catches.
Test(t) ==
    /\ task[t].user # NoUser /\ task[t].at <= task[t].upto
    /\ data[task[t].user] # Torn
    /\ LET q == data[task[t].user]
       IN  IF task[t].at \in DOMAIN q /\ ~IsComplete(q[task[t].at])
           THEN Reach(t, q[task[t].at]) /\ UNCHANGED owed
           ELSE Stop(t) /\ UNCHANGED conn
    /\ UNCHANGED <<data, log>>

\* The call goes on to the next receiver.
GoOn(t) == [task EXCEPT ![t] = [Idle EXCEPT !.event = task[t].event, !.left = task[t].left]]

\* What has failed is dropped: an operation on the list, too.
Expunge(t) ==
    /\ task[t].user # NoUser /\ task[t].at > task[t].upto
    /\ data[task[t].user] # Torn /\ ~task[t].changed
    /\ LET u == task[t].user
           q == data[u]
           failed == {q[i] : i \in DOMAIN q \intersect task[t].failing}
       IN  IF task[t].failing = {}
           THEN task' = GoOn(t) /\ UNCHANGED <<data, owed>>
           ELSE /\ \E rest \in Without(q, failed) : Becomes(u, rest, NoUser)
                /\ DisturbAt(Thread \ {t}, u)
                /\ task' = [s \in Thread |->
                    IF s = t THEN GoOn(t)[t]
                    ELSE [task[s] EXCEPT !.changed = @ \/ task[s].user = u]]
    /\ UNCHANGED <<conn, log>>

\* removeIf throws when modCount has changed.
ExpungeFails(t) ==
    /\ task[t].user # NoUser /\ task[t].at > task[t].upto
    /\ data[task[t].user] # Torn /\ task[t].changed
    /\ Stop(t)
    /\ UNCHANGED <<data, conn, log>>

\* removeIf on a list that is torn returns or throws; what it does there is not followed.
WalkTorn(t) ==
    /\ task[t].user # NoUser /\ data[task[t].user] = Torn
    /\ \/ task' = GoOn(t) /\ UNCHANGED owed
       \/ Stop(t)
    /\ UNCHANGED <<data, conn, log>>

\* All receivers have had their turn.
Finish(t) ==
    /\ task[t].event # NoEvent /\ task[t].user = NoUser /\ task[t].left = {}
    /\ Stop(t)
    /\ UNCHANGED <<data, conn, log>>

Operate(t) ==
    \/ \E e \in Event, R \in SUBSET User \ {{}} : Send(t, e, R)
    \/ \E u \in User : Enter(t, u) \/ Skip(t, u)
    \/ Test(t) \/ Expunge(t) \/ ExpungeFails(t) \/ WalkTorn(t) \/ Finish(t)

Serve(c) ==
    \/ \E u \in User : Connect(c, u)
    \/ AddBegins(c) \/ AddEnds(c) \/ CountFails(c) \/ FindMissed(c) \/ FindNothing(c)
    \/ Resend(c) \/ Open(c)
    \/ Leave(c) \/ Complete(c)
    \/ NothingToRemove(c) \/ RemoveBegins(c) \/ RemoveEnds(c) \/ Check(c) \/ Unmap(c)

Next == (\E c \in Conn : Serve(c)) \/ (\E t \in Thread : Operate(t))

Spec == Init /\ [][Next]_vars
-----------------------------------------------------------------------------
(* Types and safety.                                                       *)

\* What is on its way to a client has been saved.
TypeOK ==
    /\ data \in [User -> Seq(Conn) \union {NoList, Torn}]
    /\ conn \in [Conn ->
            [pc : {"new", "add", "adding", "added", "failed", "resend", "open", "over",
                   "removing", "check", "unmap", "closed"},
             user : User \union {NoUser}, missed : Seq(Range(log)), early : Seq(Range(log)),
             had : SUBSET Range(log), last : Range(log) \union {NoEvent}, base : Nat,
             gone : BOOLEAN]]
    /\ task \in [Thread ->
            [event : Range(log) \union {NoEvent}, left : SUBSET User,
             user : User \union {NoUser}, at : Nat, upto : Nat, failing : SUBSET Nat,
             changed : BOOLEAN]]
    /\ log \in Seq(Event)
    /\ owed \in [Event -> SUBSET User]

\* Whoever is connected is heard of: unless two operations on the list of its user
\* overlapped, an emitter whose client reads is in the list.
QuietConnectIsListed ==
    \A c \in Conn :
        /\ conn[c].pc \in {"added", "resend", "open"} /\ ~conn[c].gone
        => data[conn[c].user] = Torn \/ Listed(c)

\* ... and an emitter that is over is not in it any more: one that stayed would break
\* off whatever is sent to its user.
OverIsForgotten == \A c \in Conn : conn[c].pc = "closed" => ~Listed(c)

\* A client has every event that was sent to it since it first connected, over however
\* many connections, unless the call was disturbed.
NothingIsSkipped ==
    \A c \in Conn :
        /\ conn[c].pc = "open" \/ (conn[c].pc = "resend" /\ conn[c].missed = <<>>)
        /\ ~conn[c].gone /\ data[conn[c].user] # Torn
        => \A k \in DOMAIN log :
             /\ k > conn[c].base /\ conn[c].user \in owed[log[k]]
             /\ \A t \in Thread : task[t].event # log[k]
             => log[k] \in conn[c].had \union Range(conn[c].early)
=============================================================================
