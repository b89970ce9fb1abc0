--------------------------- MODULE ChannelHistory ---------------------------
(***************************************************************************)
(* One channel: BasicMessageService and BasicChannelService over the       *)
(* database, the push of a new message to those that subscribed, and a     *)
(* client that pages through the channel's past (its message store).       *)
(*                                                                         *)
(* Transactions are READ COMMITTED: what one has read may change until it  *)
(* commits, which is when Hibernate writes.  The foreign keys make a       *)
(* message wait for, or refuse, a channel that is being deleted, so that   *)
(* writing and committing are one step.                                    *)
(***************************************************************************)
EXTENDS Integers, FiniteSets

CONSTANTS
    Message,    \* the messages that are created (the bound of a run)
    ReadStatus, \* the read statuses that are made, likewise
    Manager,    \* the requests that delete the channel
    PageSize,   \* size of a page
    MaxTime     \* the bound of a run on the clock

ASSUME ChannelHistoryAssumption ==
    /\ Message \intersect ReadStatus = {}
    /\ PageSize \in Nat \ {0}
    /\ MaxTime \in Nat

VARIABLES
    channel,    \* TRUE: the channel's row is there
    rows,       \* the messages whose rows are there
    files,      \* those whose attachments' rows are
    statuses,   \* the read statuses whose rows are there
    clock,      \* the servers' time, in the resolution of createdAt
    message,    \* [Message -> the request that creates it]
    removed,    \* messages and read statuses that were deleted one by one
    deletion,   \* [Manager -> a request that deletes the channel]
    reader,     \* the client that reads the channel
    answers     \* pages that are on their way to it

vars == <<channel, rows, files, statuses, clock, message, removed, deletion, reader, answers>>

\* subscribed: to the channel's topic.  loaded: a first page was asked for, at the time
\* now; steady: history, it was subscribed then and ever since.  messages, newMessages,
\* and nextCursor and hasNext of the pagination; ends: history, the instants at which the
\* pages it has got end.
NoCursor == MaxTime + 1
Init ==
    /\ channel = TRUE
    /\ rows = {} /\ files = {} /\ statuses = {}
    /\ clock = 0
    /\ message = [m \in Message |-> [pc |-> "new", createdAt |-> 0, attachments |-> FALSE]]
    /\ removed = {}
    /\ deletion = [d \in Manager |-> [pc |-> "none", seen |-> {}]]
    /\ reader = [subscribed |-> FALSE, loaded |-> FALSE, messages |-> {}, newMessages |-> {},
                 nextCursor |-> NoCursor, hasNext |-> FALSE, ends |-> {},
                 steady |-> FALSE, now |-> 0]
    /\ answers = {}

Tick ==
    /\ clock < MaxTime
    /\ clock' = clock + 1
    /\ UNCHANGED <<channel, rows, files, statuses, message, removed, deletion, reader, answers>>
-----------------------------------------------------------------------------
(* Creating a message.                                                     *)

\* create finds the channel; the message, and its attachments if there are any, get
\* their ids and createdAt.
Create(m) ==
    /\ message[m].pc = "new" /\ channel
    /\ \E attachments \in BOOLEAN :
        message' = [message EXCEPT ![m] = [pc |-> "persisted", createdAt |-> clock,
                                           attachments |-> attachments]]
    /\ UNCHANGED <<channel, rows, files, statuses, clock, removed, deletion, reader, answers>>

\* The transaction commits, unless the channel is gone by now.
Commit(m) ==
    /\ message[m].pc = "persisted" /\ channel
    /\ message' = [message EXCEPT ![m].pc = "committed"]
    /\ rows' = rows \union {m}
    /\ files' = IF message[m].attachments THEN files \union {m} ELSE files
    /\ UNCHANGED <<channel, statuses, clock, removed, deletion, reader, answers>>

Refuse(m) ==
    /\ message[m].pc = "persisted" /\ ~channel
    /\ message' = [message EXCEPT ![m].pc = "refused"]
    /\ UNCHANGED <<channel, rows, files, statuses, clock, removed, deletion, reader, answers>>

\* WebSocketRequiredEventListener (app.messaging.type: local), after the commit: the message
\* is read again, and sent to those that are subscribed.
Push(m) ==
    /\ message[m].pc = "committed"
    /\ message' = [message EXCEPT ![m].pc = "pushed"]
    /\ reader' = IF m \in rows /\ reader.subscribed
                 THEN [reader EXCEPT !.newMessages = @ \union {m}] ELSE reader
    /\ UNCHANGED <<channel, rows, files, statuses, clock, removed, deletion, answers>>
-----------------------------------------------------------------------------
(* Deleting a message, a read status, and the channel.                     *)

\* MUTANT: no cascade to the attachments
RemoveRow(m) ==
    /\ m \in rows
    /\ rows' = rows \ {m}
    /\ removed' = removed \union {m}
    /\ UNCHANGED <<channel, files, statuses, clock, message, deletion, reader, answers>>

\* delete of a message, with its attachments.  When the row is gone between the
\* transaction's reading and its writing it fails, and nothing has changed.
Remove(m) ==
    /\ m \in rows
    /\ rows' = rows \ {m}
    /\ files' = files \ {m}
    /\ removed' = removed \union {m}
    /\ UNCHANGED <<channel, statuses, clock, message, deletion, reader, answers>>

\* A user's read status of the channel is made, unless the channel is gone ...
AddStatus(s) ==
    /\ channel
    /\ s \notin statuses \union removed
    /\ statuses' = statuses \union {s}
    /\ UNCHANGED <<channel, rows, files, clock, message, removed, deletion, reader, answers>>

\* ... and deleted, on its own or with the user.
RemoveStatus(s) ==
    /\ s \in statuses
    /\ statuses' = statuses \ {s}
    /\ removed' = removed \union {s}
    /\ UNCHANGED <<channel, rows, files, clock, message, deletion, reader, answers>>

\* delete of the channel finds it and loads the messages it is going to delete, ...
Delete(d) ==
    /\ deletion[d].pc = "none" /\ channel
    /\ deletion' = [deletion EXCEPT ![d] = [pc |-> "loading", seen |-> rows]]
    /\ UNCHANGED <<channel, rows, files, statuses, clock, message, removed, reader, answers>>

\* ... loads the read statuses as well, and tells all clients that the channel is
\* deleted ...
Announce(d) ==
    /\ deletion[d].pc = "loading"
    /\ deletion' = [deletion EXCEPT ![d].pc = "announced", ![d].seen = @ \union statuses]
    /\ UNCHANGED <<channel, rows, files, statuses, clock, message, removed, reader, answers>>

\* The transaction commits: what it has loaded goes, with the messages' attachments, and
\* the channel, which takes along what came meanwhile.
Gone(d) ==
    /\ deletion' = [deletion EXCEPT ![d].pc = "deleted"]
    /\ channel' = FALSE
    /\ rows' = {} /\ statuses' = {}
    /\ files' = files \ deletion[d].seen

\* It fails, and nothing has changed.
Failed(d) ==
    /\ deletion' = [deletion EXCEPT ![d].pc = "refused"]
    /\ UNCHANGED <<channel, rows, files, statuses>>

\* MUTANT: the foreign keys of messages and read statuses without ON DELETE CASCADE
DeleteRestricted(d) ==
    /\ deletion[d].pc = "announced"
    /\ IF channel /\ deletion[d].seen = rows \union statuses THEN Gone(d) ELSE Failed(d)
    /\ UNCHANGED <<clock, message, removed, reader, answers>>

\* ... and deletes: a row that it has loaded and that is gone is an error.
Deleted(d) ==
    /\ deletion[d].pc = "announced"
    /\ IF channel /\ deletion[d].seen \subseteq rows \union statuses
       THEN Gone(d) ELSE Failed(d)
    /\ UNCHANGED <<clock, message, removed, reader, answers>>
-----------------------------------------------------------------------------
(* Reading.                                                                *)

CreatedAt(m) == message[m].createdAt

\* The instant of a page's last message.
Earliest(page) ==
    CHOOSE t \in {CreatedAt(m) : m \in page} : \A m \in page : t <= CreatedAt(m)

\* MUTANT: the oldest first
PagesOldestFirst(instant) ==
    LET past == {m \in rows : CreatedAt(m) < instant}
    IN  {[content |-> page,
          hasNext |-> page # past,
          nextCursor |-> IF page = {} THEN NoCursor ELSE Earliest(page)] :
         page \in {page \in SUBSET past :
                    /\ Cardinality(page) = PageSize
                       \/ (page = past /\ Cardinality(page) < PageSize)
                    /\ \A m \in page, n \in past \ page : CreatedAt(m) <= CreatedAt(n)}}

\* findAllByChannelId: the newest messages before an instant, in any order where they
\* are of the same one, whether there are more, and where to go on.
PagesBefore(instant) ==
    LET past == {m \in rows : CreatedAt(m) < instant}
    IN  {[content |-> page,
          hasNext |-> page # past,
          nextCursor |-> IF page = {} THEN NoCursor ELSE Earliest(page)] :
         page \in {page \in SUBSET past :
                    /\ Cardinality(page) = PageSize
                       \/ (page = past /\ Cardinality(page) < PageSize)
                    /\ \A m \in page, n \in past \ page : CreatedAt(m) >= CreatedAt(n)}}

\* The client's web socket connects and it subscribes to the channel's messages ...
Subscribe ==
    /\ ~reader.subscribed
    /\ reader' = [reader EXCEPT !.subscribed = TRUE]
    /\ UNCHANGED <<channel, rows, files, statuses, clock, message, removed, deletion, answers>>

\* ... or it is lost.
Unsubscribe ==
    /\ reader.subscribed
    /\ reader' = [reader EXCEPT !.subscribed = FALSE, !.steady = FALSE]
    /\ UNCHANGED <<channel, rows, files, statuses, clock, message, removed, deletion, answers>>

\* fetchMessages without a cursor, when the channel is opened: what is before now.
Fetch ==
    /\ ~reader.loaded
    /\ reader' = [reader EXCEPT !.loaded = TRUE, !.steady = reader.subscribed,
                                !.now = clock]
    /\ \E answer \in PagesBefore(clock) : answers' = answers \union {answer}
    /\ UNCHANGED <<channel, rows, files, statuses, clock, message, removed, deletion>>

\* loadMoreMessages, whether or not another answer is still to come.
LoadMore ==
    /\ reader.hasNext
    /\ \E answer \in PagesBefore(reader.nextCursor) : answers' = answers \union {answer}
    /\ UNCHANGED <<channel, rows, files, statuses, clock, message, removed, deletion, reader>>

\* An answer comes: what is new is appended, and the pagination overwritten.
Receive(answer) ==
    /\ answer \in answers
    /\ answers' = answers \ {answer}
    /\ reader' = [reader EXCEPT !.messages = @ \union answer.content,
                                !.nextCursor = answer.nextCursor,
                                !.hasNext = answer.hasNext,
                                !.ends = @ \union {answer.nextCursor}]
    /\ UNCHANGED <<channel, rows, files, statuses, clock, message, removed, deletion>>

Read == Subscribe \/ Unsubscribe \/ Fetch \/ LoadMore \/ \E answer \in answers : Receive(answer)

Next ==
    \/ Tick
    \/ \E m \in Message :
        Create(m) \/ Commit(m) \/ Refuse(m) \/ Push(m)
        \/ Remove(m)
    \/ \E s \in ReadStatus : AddStatus(s) \/ RemoveStatus(s)
    \/ \E d \in Manager : Delete(d) \/ Announce(d) \/ Deleted(d)
    \/ Read

Spec == Init /\ [][Next]_vars
-----------------------------------------------------------------------------
(* Types and safety.                                                       *)

Instant == 0 .. MaxTime
Cursor  == 0 .. NoCursor

TypeOK ==
    /\ channel \in BOOLEAN
    /\ rows \subseteq Message /\ files \subseteq Message /\ statuses \subseteq ReadStatus
    /\ removed \subseteq Message \union ReadStatus
    /\ clock \in Instant
    /\ message \in [Message -> [pc : {"new", "persisted", "committed", "refused", "pushed"},
                               createdAt : Instant, attachments : BOOLEAN]]
    /\ deletion \in [Manager -> [pc : {"none", "loading", "announced", "deleted", "refused"},
                                seen : SUBSET (Message \union ReadStatus)]]
    /\ reader \in [subscribed : BOOLEAN, loaded : BOOLEAN, messages : SUBSET Message,
                   newMessages : SUBSET Message, nextCursor : Cursor, hasNext : BOOLEAN,
                   ends : SUBSET Cursor, steady : BOOLEAN, now : Instant]
    /\ answers \subseteq [content : SUBSET Message, hasNext : BOOLEAN, nextCursor : Cursor]

\* An attachment outlives its message only when the channel was deleted by someone who
\* had loaded its messages before this one was committed: no other order of requests
\* leaves a file nobody can delete.
OrphanIsRaced ==
    \A m \in files \ rows :
        \E d \in Manager : deletion[d].pc = "deleted" /\ m \notin deletion[d].seen

\* A channel that clients were told is deleted is gone as soon as the request is over,
\* whatever was written or read meanwhile, unless one of the messages or read statuses
\* that the request had loaded was deleted by somebody else: then its row is missing, and
\* the deletion of the channel, which clients have heard of, does not happen.
AnnouncedIsGone ==
    \A d \in Manager :
        deletion[d].pc = "refused" => ~channel \/ \E x \in deletion[d].seen : x \in removed

\* A client that was subscribed when it asked for the first page, and has loaded page
\* after page until there were no more, shows every message of the channel: what was
\* committed before and what is committed late, in whatever order the answers and the
\* pushes came, but for messages of the very instant at which a page ended, or of that of
\* the first request.
AllIsShown ==
    reader.steady /\ ~reader.hasNext /\ answers = {} =>
        \A m \in rows :
            \/ m \in reader.messages \union reader.newMessages
            \/ message[m].pc = "committed"
            \/ CreatedAt(m) = reader.now
            \/ CreatedAt(m) \in reader.ends
=============================================================================
