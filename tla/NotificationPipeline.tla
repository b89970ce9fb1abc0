------------------------- MODULE NotificationPipeline -------------------------
(***************************************************************************)
(* A message of a channel on its way to the notifications of the users who *)
(* have enabled them, over Kafka: BasicMessageService publishes an event,  *)
(* a thread of eventTaskExecutor sends it to the topic after the commit    *)
(* (KafkaProduceRequiredEventListener), one consumer of the group          *)
(* "notification-group" handles it (KafkaNotificationEventListener). Kafka *)
(* delivers a record again when its consumer dies or is taken for dead     *)
(* before the offset is committed; a key in Redis, which lives for ten     *)
(* minutes, keeps the handler from doing the same message twice.           *)
(***************************************************************************)
EXTENDS Naturals

CONSTANTS
    User,
    Message,      \* the messages of one channel,
    Author,       \* and who writes each of them
    Consumer,     \* consumer threads of the group, one per instance
    MaxMishaps,   \* bound: crashes, rebalances, lost sends and failing calls
    MaxChanges    \* bound: changes of a user's setting

ASSUME PipelineAssumption ==
    /\ Author \in [Message -> User]
    /\ MaxMishaps \in Nat
    /\ MaxChanges \in Nat

NoUser == "nobody"
NoMessage == "none"

VARIABLES
    enabled,      \* users whose read status of the channel enables notifications
    changes,      \* how often a setting has been changed
    committed,    \* messages whose transaction has committed
    tasks,        \* events given to eventTaskExecutor, not yet sent
    topic,        \* records Kafka has to deliver
    keys,         \* messages whose key notif:message:<id> is in Redis
    pc, event, todo, at,   \* per consumer: where it is, the record, the
                           \* receivers left, the receiver being served
    created,      \* notifications committed, per message and receiver
    pushed,       \* notifications published to SSE, per message and receiver
    mishaps,
    \* What has happened, for the properties:
    handled,      \* messages a handler has returned from
    lost,         \* events that never reached the topic
    disturbed,    \* messages whose handler crashed at work or caught an exception
    lapsed,       \* messages whose key has expired
    lasting,      \* per message, users enabled ever since its commit
    ever          \* per message, users enabled at some time since its commit

settings == <<enabled, changes, lasting, ever>>
consumers == <<pc, event, todo, at>>
results == <<created, pushed>>
history == <<handled, lost, disturbed, lapsed>>
vars == <<settings, committed, tasks, topic, keys, consumers, results, mishaps, history>>

Nobody == [u \in User |-> 0]

Init ==
    /\ enabled \in SUBSET User
    /\ changes = 0
    /\ committed = {} /\ tasks = {} /\ topic = {} /\ keys = {}
    /\ pc = [c \in Consumer |-> "poll"]
    /\ event = [c \in Consumer |-> NoMessage]
    /\ todo = [c \in Consumer |-> {}]
    /\ at = [c \in Consumer |-> NoUser]
    /\ created = [m \in Message |-> Nobody]
    /\ pushed = [m \in Message |-> Nobody]
    /\ mishaps = 0
    /\ handled = {} /\ lost = {} /\ disturbed = {} /\ lapsed = {}
    /\ lasting = [m \in Message |-> {}]
    /\ ever = [m \in Message |-> {}]

-----------------------------------------------------------------------------
(* The message and the settings. *)

\* ReadStatusService.update with newNotificationEnabled.
UpdateNotificationEnabled(u) ==
    /\ changes < MaxChanges
    /\ changes' = changes + 1
    /\ \/ /\ u \in enabled
          /\ enabled' = enabled \ {u}
          /\ lasting' = [m \in Message |-> lasting[m] \ {u}]
          /\ UNCHANGED ever
       \/ /\ u \notin enabled
          /\ enabled' = enabled \cup {u}
          /\ ever' = [m \in Message |-> IF m \in committed THEN ever[m] \cup {u} ELSE ever[m]]
          /\ UNCHANGED lasting
    /\ UNCHANGED <<committed, tasks, topic, keys, consumers, results, mishaps, history>>

\* The transaction of BasicMessageService.create commits and the event goes to
\* the executor, unless that is full, of this event's kind or another.
CreateMessage(m) ==
    /\ m \notin committed
    /\ committed' = committed \cup {m}
    /\ lasting' = [lasting EXCEPT ![m] = enabled]
    /\ ever' = [ever EXCEPT ![m] = enabled]
    /\ \/ /\ tasks' = tasks \cup {m}
          /\ UNCHANGED <<lost, mishaps>>
       \/ /\ mishaps < MaxMishaps
          /\ mishaps' = mishaps + 1
          /\ lost' = lost \cup {m}
          /\ UNCHANGED tasks
    /\ UNCHANGED <<enabled, changes, topic, keys, consumers, results,
                   handled, disturbed, lapsed>>

\* KafkaProduceRequiredEventListener.on: the record reaches the topic ...
Send(m) ==
    /\ m \in tasks
    /\ tasks' = tasks \ {m}
    /\ topic' = topic \cup {m}
    /\ UNCHANGED <<settings, committed, keys, consumers, results, mishaps, history>>

\* ... or does not: nobody waits for the future, the exception is only logged,
\* and an instance that dies takes its tasks and its unsent records with it.
SendLost(m) ==
    /\ m \in tasks
    /\ mishaps < MaxMishaps
    /\ mishaps' = mishaps + 1
    /\ tasks' = tasks \ {m}
    /\ lost' = lost \cup {m}
    /\ UNCHANGED <<settings, committed, topic, keys, consumers, results,
                   handled, disturbed, lapsed>>

-----------------------------------------------------------------------------
(* KafkaNotificationEventListener.handleMessageCreateEvent by consumer c. *)

\* MUTANT: the key is looked up, and set by nobody
ClaimByGet(c) ==
    /\ pc[c] = "poll"
    /\ \E m \in topic :
         /\ topic' = topic \ {m}
         /\ event' = [event EXCEPT ![c] = m]
         /\ pc' = [pc EXCEPT ![c] = IF m \in keys THEN "return" ELSE "find"]
    /\ UNCHANGED <<settings, committed, tasks, keys, todo, at, results, mishaps, history>>

\* The record is read and claimed: of those who read it setIfAbsent lets only
\* the first go on.
Claim(c) ==
    /\ pc[c] = "poll"
    /\ \E m \in topic :
         /\ topic' = topic \ {m}
         /\ event' = [event EXCEPT ![c] = m]
         /\ \/ /\ m \notin keys
               /\ keys' = keys \cup {m}
               /\ pc' = [pc EXCEPT ![c] = "find"]
            \/ /\ m \in keys
               /\ pc' = [pc EXCEPT ![c] = "return"]
               /\ UNCHANGED keys
    /\ UNCHANGED <<settings, committed, tasks, todo, at, results, mishaps, history>>

\* MUTANT: the author's status ends the loop instead of being passed over
ReceiversUnlessAuthor(m) == IF Author[m] \in enabled THEN {} ELSE enabled

\* MUTANT: all statuses of the channel, whatever they say about notifications
ReceiversOfChannel(m) == User \ {Author[m]}

\* The statuses that enable notifications, without the author's.
Receivers(m) == enabled \ {Author[m]}

FindStatuses(c) ==
    /\ pc[c] = "find"
    /\ todo' = [todo EXCEPT ![c] = Receivers(event[c])]
    /\ pc' = [pc EXCEPT ![c] = "next"]
    /\ UNCHANGED <<settings, committed, tasks, topic, keys, event, at, results, mishaps, history>>

\* notificationService.create for the next receiver, a transaction of its own.
Create(c) ==
    /\ pc[c] = "next"
    /\ \E u \in todo[c] :
         /\ created' = [created EXCEPT ![event[c]][u] = @ + 1]
         /\ at' = [at EXCEPT ![c] = u]
    /\ pc' = [pc EXCEPT ![c] = "send"]
    /\ UNCHANGED <<settings, committed, tasks, topic, keys, event, todo, pushed, mishaps, history>>

\* MUTANT: each send addresses all receivers that are left
PushToAll(c) ==
    /\ pc[c] = "send"
    /\ pushed' = [pushed EXCEPT ![event[c]] =
                     [u \in User |-> IF u \in todo[c] THEN @[u] + 1 ELSE @[u]]]
    /\ todo' = [todo EXCEPT ![c] = @ \ {at[c]}]
    /\ pc' = [pc EXCEPT ![c] = "next"]
    /\ UNCHANGED <<settings, committed, tasks, topic, keys, event, at, created, mishaps, history>>

\* sseService.send to that receiver.
Push(c) ==
    /\ pc[c] = "send"
    /\ pushed' = [pushed EXCEPT ![event[c]][at[c]] = @ + 1]
    /\ todo' = [todo EXCEPT ![c] = @ \ {at[c]}]
    /\ pc' = [pc EXCEPT ![c] = "next"]
    /\ UNCHANGED <<settings, committed, tasks, topic, keys, event, at, created, mishaps, history>>

\* RedisBasedSseService.send catches its exception: the loop goes on.
PushFails(c) ==
    /\ pc[c] = "send"
    /\ mishaps < MaxMishaps
    /\ mishaps' = mishaps + 1
    /\ disturbed' = disturbed \cup {event[c]}
    /\ todo' = [todo EXCEPT ![c] = @ \ {at[c]}]
    /\ pc' = [pc EXCEPT ![c] = "next"]
    /\ UNCHANGED <<settings, committed, tasks, topic, keys, event, at, results,
                   handled, lost, lapsed>>

\* An exception of Redis or the database is caught around the whole handler.
\* After a failing setIfAbsent nobody knows whether the key has been set.
Fault(c) ==
    /\ mishaps < MaxMishaps
    /\ mishaps' = mishaps + 1
    /\ \/ /\ pc[c] = "poll"
          /\ \E m \in topic :
               /\ topic' = topic \ {m}
               /\ event' = [event EXCEPT ![c] = m]
               /\ keys' \in {keys, keys \cup {m}}
       \/ /\ pc[c] = "find" \/ (pc[c] = "next" /\ todo[c] # {})
          /\ UNCHANGED <<topic, event, keys>>
    /\ disturbed' = disturbed \cup {event'[c]}
    /\ pc' = [pc EXCEPT ![c] = "return"]
    /\ UNCHANGED <<settings, committed, tasks, todo, at, results, handled, lost, lapsed>>

\* The handler returns, at once or after the loop ...
Returning(c) == pc[c] = "return" \/ (pc[c] = "next" /\ todo[c] = {})

\* MUTANT: a duplicate is not acknowledged and delivered again
CommitUnlessDuplicate(c) ==
    /\ Returning(c)
    /\ IF pc[c] = "return"
       THEN topic' = topic \cup {event[c]} /\ UNCHANGED handled
       ELSE handled' = handled \cup {event[c]} /\ UNCHANGED topic
    /\ pc' = [pc EXCEPT ![c] = "poll"]
    /\ event' = [event EXCEPT ![c] = NoMessage]
    /\ todo' = [todo EXCEPT ![c] = {}]
    /\ at' = [at EXCEPT ![c] = NoUser]
    /\ UNCHANGED <<settings, committed, tasks, keys, results, mishaps,
                   lost, disturbed, lapsed>>

\* ... and the container commits the offset.
Commit(c) ==
    /\ Returning(c)
    /\ handled' = handled \cup {event[c]}
    /\ pc' = [pc EXCEPT ![c] = "poll"]
    /\ event' = [event EXCEPT ![c] = NoMessage]
    /\ todo' = [todo EXCEPT ![c] = {}]
    /\ at' = [at EXCEPT ![c] = NoUser]
    /\ UNCHANGED <<settings, committed, tasks, topic, keys, results, mishaps,
                   lost, disturbed, lapsed>>

Handle(c) ==
    Claim(c) \/ FindStatuses(c) \/ Create(c) \/ Push(c) \/ Commit(c)

-----------------------------------------------------------------------------
(* Kafka and Redis. *)

\* The consumer dies with a record and starts anew; Kafka delivers it again.
Crash(c) ==
    /\ pc[c] # "poll"
    /\ mishaps < MaxMishaps
    /\ mishaps' = mishaps + 1
    /\ disturbed' = IF Returning(c) THEN disturbed ELSE disturbed \cup {event[c]}
    /\ topic' = topic \cup {event[c]}
    /\ pc' = [pc EXCEPT ![c] = "poll"]
    /\ event' = [event EXCEPT ![c] = NoMessage]
    /\ todo' = [todo EXCEPT ![c] = {}]
    /\ at' = [at EXCEPT ![c] = NoUser]
    /\ UNCHANGED <<settings, committed, tasks, keys, results, handled, lost, lapsed>>

\* The consumer is slow and loses its partition while it goes on.
Rebalance(c) ==
    /\ pc[c] # "poll"
    /\ mishaps < MaxMishaps
    /\ mishaps' = mishaps + 1
    /\ topic' = topic \cup {event[c]}
    /\ UNCHANGED <<settings, committed, tasks, keys, consumers, results, history>>

\* DEDUP_TTL is over (once per message).
KeyExpires(m) ==
    /\ m \in keys \ lapsed
    /\ keys' = keys \ {m}
    /\ lapsed' = lapsed \cup {m}
    /\ UNCHANGED <<settings, committed, tasks, topic, consumers, results, mishaps,
                   handled, lost, disturbed>>

Next ==
    \/ \E u \in User : UpdateNotificationEnabled(u)
    \/ \E m \in Message : CreateMessage(m) \/ Send(m) \/ SendLost(m) \/ KeyExpires(m)
    \/ \E c \in Consumer : Handle(c) \/ PushFails(c) \/ Fault(c) \/ Crash(c) \/ Rebalance(c)

Spec == Init /\ [][Next]_vars

\* The executor's threads and the consumers go on; crashed ones are restarted.
FairSpec ==
    /\ Spec
    /\ \A m \in Message : WF_vars(Send(m))
    /\ \A c \in Consumer : WF_vars(Handle(c))

-----------------------------------------------------------------------------
TypeOK ==
    /\ enabled \subseteq User
    /\ changes \in Nat
    /\ committed \subseteq Message /\ tasks \subseteq Message /\ topic \subseteq Message /\ keys \subseteq Message
    /\ pc \in [Consumer -> {"poll", "find", "next", "send", "return"}]
    /\ event \in [Consumer -> Message \cup {NoMessage}]
    /\ todo \in [Consumer -> SUBSET User]
    /\ at \in [Consumer -> User \cup {NoUser}]
    /\ created \in [Message -> [User -> Nat]]
    /\ pushed \in [Message -> [User -> Nat]]
    /\ mishaps \in Nat
    /\ handled \subseteq Message /\ lost \subseteq Message
    /\ disturbed \subseteq Message /\ lapsed \subseteq Message
    /\ lasting \in [Message -> SUBSET User]
    /\ ever \in [Message -> SUBSET User]

\* However often Kafka delivers a message, nobody is notified of it twice, by a
\* row or by SSE, until the key has expired.
AtMostOnce ==
    \A m \in Message \ lapsed, u \in User : created[m][u] <= 1 /\ pushed[m][u] <= 1

\* A client hears by SSE only of notifications it can read: create has
\* committed before send.
PushedIsCreated ==
    \A m \in Message, u \in User : pushed[m][u] > 0 => created[m][u] > 0

\* A message is settled when its record has been handled and nobody has it left.
Settled(m) ==
    /\ m \in handled \ topic
    /\ \A c \in Consumer : event[c] # m

\* A handler that loses the claim returns at once and its offset is committed:
\* still, when a message is settled and nothing went wrong with its handlers,
\* everybody but the author who had notifications enabled all along has one.
UndisturbedIsComplete ==
    \A m \in Message : Settled(m) /\ m \notin disturbed =>
        \A u \in lasting[m] \ {Author[m]} : created[m][u] > 0 /\ pushed[m][u] > 0

\* Only users who had them enabled at some time since the message are notified,
\* and never the author.
OnlyEnabledHear ==
    \A m \in Message, u \in User :
        created[m][u] > 0 => u \in ever[m] \ {Author[m]}

\* Every message is settled in the end, unless its event is lost on its way to
\* the topic: duplicates, crashes and exceptions leave no record behind.
EventsSettle ==
    \A m \in Message : m \in committed ~> (m \in lost \/ Settled(m))
=============================================================================
