--------------------------- MODULE SseMessageStore ---------------------------
(***************************************************************************)
(* repository/SseMessageRepository: the last MAX_SIZE messages that were   *)
(* sent to the clients of one instance, kept for those that reconnect.     *)
(* Several threads save messages at once while another one replays.        *)
(*                                                                         *)
(* eventIdQueue is a ConcurrentLinkedDeque of ids and `messages` a map from*)
(* id to message.  The deque grows at its end and shrinks at its beginning *)
(* only, so it is the history of what was added and the number of what was *)
(* polled: log[polled + 1 .. Len(log)].  A message stands for its id, too. *)
(*                                                                         *)
(* Every operation of the two is atomic except those that walk the deque,  *)
(* size() and the iterator.  They see what is there all the time, and may  *)
(* or may not see what comes or goes meanwhile.                            *)
(***************************************************************************)
EXTENDS Integers, Sequences, FiniteSets

CONSTANTS
    Message,   \* the messages that are sent (the bound of a run)
    Thread,    \* the threads that save
    MaxSize    \* MAX_SIZE

NoMessage == "none"

ASSUME StoreAssumption ==
    /\ MaxSize \in Nat \ {0}
    /\ IsFiniteSet(Thread)
    /\ NoMessage \notin Message

VARIABLES
    log,        \* what was ever added to eventIdQueue, in order
    polled,     \* how much of it has been polled
    messages,   \* the keys of messages
    pc,         \* where each thread is in save
    mine,       \* the message it saves
    oldest,     \* oldestId: what it has polled
    polledThen, \* polled, and ...
    addedThen,  \* ... Len(log), when its size() began
    walking,    \* TRUE: findEventsAfter is under way
    asked,      \* its lastEventId
    current,    \* index of the element the loop is at, 0 between two rounds
    upcoming,   \* index of the element the iterator has ready, 0 for none
    found,      \* found
    result,     \* result
    horizon     \* history: Len(log) when it was called

deque    == <<log, polled>>
threads  == <<pc, mine, oldest, polledThen, addedThen>>
reader   == <<walking, asked, current, upcoming, found, result, horizon>>
vars     == <<deque, messages, threads, reader>>

\* The indexes, and the ids, of what is in eventIdQueue.
Present == polled + 1 .. Len(log)
Queued  == {log[i] : i \in Present}

Init ==
    /\ log = <<>> /\ polled = 0
    /\ messages = {}
    /\ pc = [t \in Thread |-> "idle"]
    /\ mine = [t \in Thread |-> NoMessage]
    /\ oldest = [t \in Thread |-> NoMessage]
    /\ polledThen = [t \in Thread |-> 0]
    /\ addedThen = [t \in Thread |-> 0]
    /\ walking = FALSE
    /\ asked = NoMessage
    /\ current = 0 /\ upcoming = 0
    /\ found = FALSE
    /\ result = {}
    /\ horizon = 0
-----------------------------------------------------------------------------
(* save.                                                                   *)

Goto(t, p) == pc' = [pc EXCEPT ![t] = p]

\* A message has a random id: no other one has it.
New(m) ==
    /\ \A i \in DOMAIN log : log[i] # m
    /\ \A t \in Thread : mine[t] # m

\* save(m): messages.put.
Put(t, m) ==
    /\ pc[t] = "idle" /\ New(m)
    /\ mine' = [mine EXCEPT ![t] = m]
    /\ messages' = messages \union {m}
    /\ Goto(t, "add")
    /\ UNCHANGED <<deque, oldest, polledThen, addedThen, reader>>

\* eventIdQueue.addLast.
AddLast(t) ==
    /\ pc[t] = "add"
    /\ log' = Append(log, mine[t])
    /\ Goto(t, "count")
    /\ UNCHANGED <<polled, messages, mine, oldest, polledThen, addedThen, reader>>

\* size() begins ...
EnterSize(t) ==
    /\ pc[t] = "count"
    /\ polledThen' = [polledThen EXCEPT ![t] = polled]
    /\ addedThen' = [addedThen EXCEPT ![t] = Len(log)]
    /\ Goto(t, "counting")
    /\ UNCHANGED <<deque, messages, mine, oldest, reader>>

\* MUTANT: while size() >= MAX_SIZE
TooManyEarly(t) ==
    /\ pc[t] = "counting"
    /\ Len(log) - polledThen[t] >= MaxSize
    /\ Goto(t, "poll")
    /\ UNCHANGED <<deque, messages, mine, oldest, polledThen, addedThen, reader>>

\* ... and returns more than MAX_SIZE: it may have counted what was polled since ...
TooMany(t) ==
    /\ pc[t] = "counting"
    /\ Len(log) - polledThen[t] > MaxSize
    /\ Goto(t, "poll")
    /\ UNCHANGED <<deque, messages, mine, oldest, polledThen, addedThen, reader>>

\* ... or not: it may have missed what was added since.
Saved(t) ==
    /\ pc[t] = "counting"
    /\ addedThen[t] - polled <= MaxSize
    /\ mine' = [mine EXCEPT ![t] = NoMessage]
    /\ Goto(t, "idle")
    /\ UNCHANGED <<deque, messages, oldest, polledThen, addedThen, reader>>

\* MUTANT: peekFirst instead of pollFirst
PollPeek(t) ==
    /\ pc[t] = "poll" /\ Present # {}
    /\ oldest' = [oldest EXCEPT ![t] = log[polled + 1]]
    /\ Goto(t, "remove")
    /\ UNCHANGED <<deque, messages, mine, polledThen, addedThen, reader>>

\* pollFirst, which returns null when the deque is empty.
Poll(t) ==
    /\ pc[t] = "poll"
    /\ IF Present = {}
       THEN /\ Goto(t, "count")
            /\ UNCHANGED <<polled, oldest>>
       ELSE /\ oldest' = [oldest EXCEPT ![t] = log[polled + 1]]
            /\ polled' = polled + 1
            /\ Goto(t, "remove")
    /\ UNCHANGED <<log, messages, mine, polledThen, addedThen, reader>>

\* MUTANT: the message of a polled id is forgotten
RemoveNothing(t) ==
    /\ pc[t] = "remove"
    /\ oldest' = [oldest EXCEPT ![t] = NoMessage]
    /\ Goto(t, "count")
    /\ UNCHANGED <<deque, messages, mine, polledThen, addedThen, reader>>

\* MUTANT: if (size() > MAX_SIZE) instead of while
RemoveOnce(t) ==
    /\ pc[t] = "remove"
    /\ messages' = messages \ {oldest[t]}
    /\ oldest' = [oldest EXCEPT ![t] = NoMessage]
    /\ mine' = [mine EXCEPT ![t] = NoMessage]
    /\ Goto(t, "idle")
    /\ UNCHANGED <<deque, polledThen, addedThen, reader>>

\* messages.remove, and back to size().
RemoveOldest(t) ==
    /\ pc[t] = "remove"
    /\ messages' = messages \ {oldest[t]}
    /\ oldest' = [oldest EXCEPT ![t] = NoMessage]
    /\ Goto(t, "count")
    /\ UNCHANGED <<deque, mine, polledThen, addedThen, reader>>

Save(t) ==
    \/ \E m \in Message : Put(t, m)
    \/ AddLast(t)
    \/ EnterSize(t) \/ TooMany(t) \/ Saved(t)
    \/ Poll(t) \/ RemoveOldest(t)
-----------------------------------------------------------------------------
(* findEventsAfter.  Calls do not disturb each other: one is modelled.     *)

\* The iterator goes from index i to the next element that is there, or ends.
Advance(i) ==
    LET next == (IF i < polled THEN polled ELSE i) + 1
    IN  upcoming' = IF next > Len(log) THEN 0 ELSE next

\* A client reconnects with the id of a message it received; BasicSseService does not
\* call it with null.
FindEventsAfter ==
    /\ ~walking
    /\ walking' = TRUE
    /\ asked' \in {log[i] : i \in DOMAIN log}
    /\ Advance(0)
    /\ current' = 0
    /\ found' = FALSE
    /\ result' = {}
    /\ horizon' = Len(log)
    /\ UNCHANGED <<deque, messages, threads>>

\* next() returns one element and has the following one ready.
NextElement ==
    /\ walking /\ current = 0 /\ upcoming # 0
    /\ current' = upcoming
    /\ Advance(upcoming)
    /\ UNCHANGED <<deque, messages, threads, walking, asked, found, result, horizon>>

\* MUTANT: the loop ends at a message that has been removed
ExamineStops ==
    /\ current # 0
    /\ found' = (found \/ log[current] = asked)
    /\ result' = IF found THEN result \union ({log[current]} \intersect messages)
                 ELSE result
    /\ current' = 0
    /\ upcoming' = IF found /\ log[current] \notin messages THEN 0 ELSE upcoming
    /\ UNCHANGED <<deque, messages, threads, walking, asked, horizon>>

\* MUTANT: the message that is found is added, too
ExamineAdds ==
    /\ current # 0
    /\ found' = (found \/ log[current] = asked)
    /\ result' = IF found' THEN result \union ({log[current]} \intersect messages)
                 ELSE result
    /\ current' = 0
    /\ UNCHANGED <<deque, messages, threads, walking, asked, upcoming, horizon>>

\* The body of the loop: a message that was removed meanwhile is left out.
Examine ==
    /\ current # 0
    /\ found' = (found \/ log[current] = asked)
    /\ result' = IF found THEN result \union ({log[current]} \intersect messages)
                 ELSE result
    /\ current' = 0
    /\ UNCHANGED <<deque, messages, threads, walking, asked, upcoming, horizon>>

Return ==
    /\ walking /\ current = 0 /\ upcoming = 0
    /\ walking' = FALSE
    /\ UNCHANGED <<deque, messages, threads, asked, current, upcoming, found, result, horizon>>

Find == FindEventsAfter \/ NextElement \/ Examine \/ Return
-----------------------------------------------------------------------------
Next == (\E t \in Thread : Save(t)) \/ Find

Spec == Init /\ [][Next]_vars
-----------------------------------------------------------------------------
(* Type and safety.                                                        *)

\* The types of the variables; in particular no null gets into a replay.
TypeOK ==
    /\ log \in Seq(Message)
    /\ polled \in Nat /\ polled <= Len(log)
    /\ messages \subseteq Message
    /\ pc \in [Thread -> {"idle", "add", "count", "counting", "poll", "remove"}]
    /\ mine \in [Thread -> Message \union {NoMessage}]
    /\ oldest \in [Thread -> Message \union {NoMessage}]
    /\ polledThen \in [Thread -> Nat]
    /\ addedThen \in [Thread -> Nat]
    /\ walking \in BOOLEAN /\ found \in BOOLEAN
    /\ asked \in Message \union {NoMessage}
    /\ current \in Nat /\ upcoming \in Nat /\ horizon \in Nat
    /\ result \subseteq Message

\* Every id in the deque has its message in the map, at every instant: the map is
\* written before the deque and cleared after it.
QueueIsStored == Queued \subseteq messages

\* The map does not leak: what it holds beyond the deque is being saved or removed at
\* this very moment, by one thread each.
StoredIsQueued ==
    messages \subseteq Queued
        \union {mine[t] : t \in {t \in Thread : pc[t] = "add"}}
        \union {oldest[t] : t \in {t \in Thread : pc[t] = "remove"}}

\* When no save is under way the limit is kept, although every thread leaves on a size
\* that may be wrong by then.
StoreIsBounded ==
    (\A t \in Thread : pc[t] = "idle") => Len(log) - polled <= MaxSize

\* Threads that find the deque too long at the same time remove too much, but never
\* more than one message each: the newest MAX_SIZE - (threads - 1) stay.
NewestAreRetained ==
    \A i \in DOMAIN log : i > Len(log) - (MaxSize + 1 - Cardinality(Thread)) => i \in Present

\* A replay that came across the client's last event has everything that was sent
\* after it, before the call, and is still kept: whatever was saved and removed under
\* the iterator.
FoundIsReplayed ==
    ~walking /\ found =>
        \A i \in DOMAIN log : \A j \in Present :
            log[i] = asked /\ i < j /\ j <= horizon => log[j] \in result
-----------------------------------------------------------------------------
(* The repository implements a log.                                        *)

\* A message is saved when its id is added; a replay is answered when it returns.
Abstract == INSTANCE SseMessageLog WITH
    Retained  <- MaxSize + 1 - Cardinality(Thread),
    saved     <- log,
    forgotten <- polled,
    saving    <- [t \in Thread |-> IF pc[t] = "add" THEN mine[t] ELSE NoMessage],
    asking    <- IF walking THEN asked ELSE NoMessage,
    since     <- horizon,
    answer    <- IF walking THEN {} ELSE result

\* Two collections that are not changed together, sizes that are counted while they
\* change and an iterator under which elements come and go: whoever calls the repository
\* sees a log all the same, that forgets its oldest messages and is read at one instant.
LogSpec == Abstract!Spec
=============================================================================
