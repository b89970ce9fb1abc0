------------------------ MODULE ChannelHistoryProofs ------------------------
(***************************************************************************)
(* The theorems of ChannelHistory, for any number of messages, of read     *)
(* statuses and of managers, any size of a page and any clock.             *)
(***************************************************************************)
EXTENDS ChannelHistory, FiniteSetTheorems, WellFoundedInduction, TLAPS

\* A page that is not empty has an earliest instant.
LEMMA EarliestLemma ==
    ASSUME NEW page \in SUBSET Message, page # {},
           \A m \in page : CreatedAt(m) \in Instant
    PROVE  /\ Earliest(page) \in Instant
           /\ \E m \in page : Earliest(page) = CreatedAt(m)
           /\ \A m \in page : Earliest(page) <= CreatedAt(m)
<1> DEFINE T == {CreatedAt(m) : m \in page}
           R == {ss \in Nat \X Nat : ss[1] < ss[2]}
<1>1. T \subseteq Nat /\ T \subseteq Instant /\ T # {}
    BY ChannelHistoryAssumption DEF Instant
<1>2. IsWellFoundedOn(R, Nat)
    BY NatLessThanWellFounded DEF OpToRel
<1>3. \E t \in T : \A y \in T : ~(<<y, t>> \in R)
    <2> HIDE DEF R, T
    <2> QED BY <1>1, <1>2, WFMin
<1>4. PICK t \in T : \A y \in T : ~(<<y, t>> \in R)
    BY <1>3
<1>5. \A y \in T : t <= y
    <2> SUFFICES ASSUME NEW y \in T, ~(t <= y) PROVE FALSE
        OBVIOUS
    <2>1. t \in Nat /\ y \in Nat /\ y < t
        BY <1>1
    <2>2. <<y, t>> \in Nat \X Nat /\ <<y, t>>[1] < <<y, t>>[2]
        BY <2>1
    <2> QED BY <1>4, <2>2
<1>6. \A m \in page : t <= CreatedAt(m)
    BY <1>5
<1>7. Earliest(page) \in T /\ \A m \in page : Earliest(page) <= CreatedAt(m)
    BY <1>6 DEF Earliest
<1> QED BY <1>1, <1>7

\* What an answer to a request for the messages before an instant holds: a page of them,
\* and where to go on; what it has not, comes after its cursor, or is of its instant.
LEMMA PageLemma ==
    ASSUME TypeOK, NEW instant, NEW answer \in PagesBefore(instant)
    PROVE  /\ answer \in [content : SUBSET Message, hasNext : BOOLEAN, nextCursor : Cursor]
           /\ answer.content \subseteq rows
           /\ \A m \in rows \ answer.content :
                CreatedAt(m) < instant =>
                    /\ answer.hasNext
                    /\ CreatedAt(m) <= answer.nextCursor
<1> DEFINE past == {m \in rows : CreatedAt(m) < instant}
<1>1. PICK page \in SUBSET past :
        /\ Cardinality(page) = PageSize \/ (page = past /\ Cardinality(page) < PageSize)
        /\ \A m \in page, n \in past \ page : CreatedAt(m) >= CreatedAt(n)
        /\ answer = [content |-> page, hasNext |-> page # past,
                     nextCursor |-> IF page = {} THEN NoCursor ELSE Earliest(page)]
    BY DEF PagesBefore
<1>2. page \in SUBSET Message /\ page \subseteq rows
    BY DEF TypeOK
<1>3. \A m \in Message : CreatedAt(m) \in Instant
    BY DEF TypeOK, CreatedAt
<1>4. page # {} =>
        /\ Earliest(page) \in Instant
        /\ \E m \in page : Earliest(page) = CreatedAt(m)
    BY <1>2, <1>3, EarliestLemma
<1>5. NoCursor \in Cursor /\ Instant \subseteq Cursor
    BY ChannelHistoryAssumption DEF NoCursor, Cursor, Instant
<1>6. answer \in [content : SUBSET Message, hasNext : BOOLEAN, nextCursor : Cursor]
    BY <1>1, <1>2, <1>4, <1>5
<1>7. ASSUME NEW m \in rows \ answer.content, CreatedAt(m) < instant
      PROVE  /\ answer.hasNext
             /\ CreatedAt(m) <= answer.nextCursor
    <2>1. m \in past \ page /\ page # past
        BY <1>1, <1>7
    <2>2. page # {}
        BY <1>1, <2>1, FS_EmptySet, ChannelHistoryAssumption
    <2>3. PICK n \in page : Earliest(page) = CreatedAt(n)
        BY <1>4, <2>2
    <2>4. CreatedAt(m) <= CreatedAt(n)
        BY <1>1, <1>2, <1>3, <2>1 DEF Instant, TypeOK
    <2>5. answer.hasNext /\ answer.nextCursor = CreatedAt(n)
        BY <1>1, <2>1, <2>2, <2>3
    <2> QED BY <2>4, <2>5
<1> QED BY <1>1, <1>2, <1>6, <1>7
-----------------------------------------------------------------------------
(* Types.                                                                  *)

LEMMA TypeInit == Init => TypeOK
BY ChannelHistoryAssumption DEF Init, TypeOK, Instant, Cursor, NoCursor

\* What a step of a request does to the types.
LEMMA TypeStep == TypeOK /\ [Next]_vars => TypeOK'
<1> SUFFICES ASSUME TypeOK, [Next]_vars PROVE TypeOK'
    OBVIOUS
<1> USE DEF TypeOK
<1>1. CASE Tick
    BY <1>1, ChannelHistoryAssumption DEF Tick, Instant
<1>2. ASSUME NEW m \in Message, Create(m) PROVE TypeOK'
    <2>1. PICK a \in BOOLEAN :
            message' = [message EXCEPT ![m] = [pc |-> "persisted", createdAt |-> clock,
                                               attachments |-> a]]
        BY <1>2 DEF Create
    <2> QED BY <1>2, <2>1 DEF Create
<1>3. ASSUME NEW m \in Message, Commit(m) \/ Refuse(m) \/ Push(m) \/ Remove(m)
      PROVE  TypeOK'
    BY <1>3 DEF Commit, Refuse, Push, Remove
<1>4. ASSUME NEW s \in ReadStatus, AddStatus(s) \/ RemoveStatus(s) PROVE TypeOK'
    BY <1>4 DEF AddStatus, RemoveStatus
<1>5. ASSUME NEW d \in Manager, Delete(d) \/ Announce(d) \/ Deleted(d) PROVE TypeOK'
    <2>1. /\ deletion' \in [Manager ->
                [pc : {"none", "loading", "announced", "deleted", "refused"},
                 seen : SUBSET (Message \union ReadStatus)]]
          /\ UNCHANGED <<clock, message, removed, reader, answers>>
        <3>1. CASE Delete(d)
            BY <3>1 DEF Delete
        <3>2. CASE Announce(d)
            <4>1. deletion[d].seen \union statuses \in SUBSET (Message \union ReadStatus)
                BY <3>2
            <4>2. /\ \A e \in Manager \ {d} : deletion'[e] = deletion[e]
                  /\ deletion'[d] = [pc |-> "announced", seen |-> deletion[d].seen \union statuses]
                  /\ deletion' = [e \in Manager |-> deletion'[e]]
                BY <3>2 DEF Announce
            <4>3. \A e \in Manager : deletion'[e] \in
                    [pc : {"none", "loading", "announced", "deleted", "refused"},
                     seen : SUBSET (Message \union ReadStatus)]
                BY <4>1, <4>2
            <4> QED BY <3>2, <4>2, <4>3 DEF Announce
        <3>3. CASE Deleted(d)
            BY <3>3 DEF Deleted, Gone, Failed
        <3> QED BY <1>5, <3>1, <3>2, <3>3
    <2>2. /\ channel' \in BOOLEAN /\ rows' \subseteq Message /\ files' \subseteq Message
          /\ statuses' \subseteq ReadStatus
        BY <1>5 DEF Delete, Announce, Deleted, Gone, Failed
    <2> QED BY <2>1, <2>2
<1>6. CASE Subscribe \/ Unsubscribe
    BY <1>6 DEF Subscribe, Unsubscribe
<1>7. CASE Fetch
    <2>1. PICK answer \in PagesBefore(clock) : answers' = answers \union {answer}
        BY <1>7 DEF Fetch
    <2>2. answer \in [content : SUBSET Message, hasNext : BOOLEAN, nextCursor : Cursor]
        BY <2>1, PageLemma
    <2> QED BY <1>7, <2>1, <2>2 DEF Fetch
<1>8. CASE LoadMore
    <2>1. PICK answer \in PagesBefore(reader.nextCursor) : answers' = answers \union {answer}
        BY <1>8 DEF LoadMore
    <2>2. answer \in [content : SUBSET Message, hasNext : BOOLEAN, nextCursor : Cursor]
        BY <2>1, PageLemma
    <2> QED BY <1>8, <2>1, <2>2 DEF LoadMore
<1>9. ASSUME NEW answer \in answers, Receive(answer) PROVE TypeOK'
    BY <1>9 DEF Receive
<1>10. CASE UNCHANGED vars
    BY <1>10 DEF vars
<1> QED BY <1>1, <1>2, <1>3, <1>4, <1>5, <1>6, <1>7, <1>8, <1>9, <1>10 DEF Next, Read

\* The types, whatever the number of messages and the size of a page.
THEOREM TypeCorrect == Spec => []TypeOK
BY TypeInit, TypeStep, PTL DEF Spec
-----------------------------------------------------------------------------
(* The deletion of the channel.                                            *)

\* A message has no attachments left but for those of a deletion that did not see it.
\* Nothing has to be added for the induction but the types.
THEOREM OrphansAreRaced == Spec => []OrphanIsRaced
<1>1. Init => OrphanIsRaced
    BY DEF Init, OrphanIsRaced
<1>2. TypeOK /\ OrphanIsRaced /\ [Next]_vars => OrphanIsRaced'
    <2> SUFFICES ASSUME TypeOK, OrphanIsRaced, [Next]_vars PROVE OrphanIsRaced'
        OBVIOUS
    <2> USE DEF OrphanIsRaced
    <2>1. CASE UNCHANGED <<rows, files, deletion>>
        BY <2>1
    <2>2. ASSUME NEW m \in Message, Commit(m) \/ Remove(m) PROVE OrphanIsRaced'
        BY <2>2 DEF Commit, Remove
    <2>3. ASSUME NEW d \in Manager, Delete(d) \/ Announce(d) PROVE OrphanIsRaced'
        BY <2>3 DEF Delete, Announce, TypeOK
    <2>4. ASSUME NEW d \in Manager, Deleted(d) PROVE OrphanIsRaced'
        <3>1. CASE UNCHANGED <<rows, files>>
            BY <2>4, <3>1 DEF Deleted, Gone, Failed, TypeOK
        <3>2. CASE /\ deletion' = [deletion EXCEPT ![d].pc = "deleted"]
                   /\ rows' = {} /\ files' = files \ deletion[d].seen
            <4>1. deletion'[d].pc = "deleted" /\ deletion'[d].seen = deletion[d].seen
                BY <3>2 DEF TypeOK
            <4> QED BY <3>2, <4>1
        <3> QED BY <2>4, <3>1, <3>2 DEF Deleted, Gone, Failed
    <2> QED BY <2>1, <2>2, <2>3, <2>4 DEF Next, Read, Tick, Create, Refuse, Push,
            AddStatus, RemoveStatus, Subscribe, Unsubscribe, Fetch, LoadMore, Receive, vars
<1> QED BY <1>1, <1>2, TypeCorrect, PTL DEF Spec

\* What a deletion has loaded and is not there any more was deleted on its own, as long as
\* the channel is there.
MissingIsRemoved ==
    \A d \in Manager : channel /\ deletion[d].pc \in {"loading", "announced"} =>
                        deletion[d].seen \subseteq rows \union statuses \union removed

\* A deletion that fails after it was announced does so because somebody else deleted the
\* channel, or a message or a read status that it had loaded.
THEOREM AnnouncedAreGone == Spec => []AnnouncedIsGone
<1>1. Init => MissingIsRemoved /\ AnnouncedIsGone
    BY DEF Init, MissingIsRemoved, AnnouncedIsGone
<1>2. TypeOK /\ MissingIsRemoved /\ AnnouncedIsGone /\ [Next]_vars
        => MissingIsRemoved' /\ AnnouncedIsGone'
    <2> SUFFICES ASSUME TypeOK, MissingIsRemoved, AnnouncedIsGone, [Next]_vars
                 PROVE  MissingIsRemoved' /\ AnnouncedIsGone'
        OBVIOUS
    <2> USE DEF MissingIsRemoved, AnnouncedIsGone
    <2>1. CASE UNCHANGED <<channel, rows, statuses, removed, deletion>>
        BY <2>1
    <2>2. ASSUME NEW m \in Message, Commit(m) \/ Remove(m)
          PROVE  MissingIsRemoved' /\ AnnouncedIsGone'
        BY <2>2 DEF Commit, Remove
    <2>3. ASSUME NEW s \in ReadStatus, AddStatus(s) \/ RemoveStatus(s)
          PROVE  MissingIsRemoved' /\ AnnouncedIsGone'
        BY <2>3 DEF AddStatus, RemoveStatus
    <2>4. ASSUME NEW d \in Manager, Delete(d) \/ Announce(d)
          PROVE  MissingIsRemoved' /\ AnnouncedIsGone'
        <3>1. /\ UNCHANGED <<channel, rows, statuses, removed>>
              /\ \A e \in Manager \ {d} : deletion'[e] = deletion[e]
              /\ deletion'[d].pc \in {"loading", "announced"}
            BY <2>4 DEF Delete, Announce, TypeOK
        <3>2. CASE Delete(d)
            <4>1. deletion'[d].seen = rows
                BY <3>2 DEF Delete, TypeOK
            <4> QED BY <3>1, <4>1
        <3>3. CASE Announce(d)
            <4>1. deletion[d].pc = "loading" /\ deletion'[d].seen = deletion[d].seen \union statuses
                BY <3>3 DEF Announce, TypeOK
            <4> QED BY <3>1, <4>1
        <3> QED BY <2>4, <3>2, <3>3
    <2>5. ASSUME NEW d \in Manager, Deleted(d) PROVE MissingIsRemoved' /\ AnnouncedIsGone'
        <3>1. CASE ~channel'
            BY <3>1
        <3>2. CASE channel'
            <4>1. /\ channel
                  /\ \E x \in deletion[d].seen : x \in removed
                  /\ deletion' = [deletion EXCEPT ![d].pc = "refused"]
                  /\ UNCHANGED <<channel, rows, statuses, removed>>
                BY <2>5, <3>2 DEF Deleted, Gone, Failed
            <4> QED BY <4>1 DEF TypeOK
        <3> QED BY <3>1, <3>2
    <2> QED BY <2>1, <2>2, <2>3, <2>4, <2>5 DEF Next, Read, Tick, Create, Refuse, Push,
            Subscribe, Unsubscribe, Fetch, LoadMore, Receive, vars
<1> QED BY <1>1, <1>2, TypeCorrect, PTL DEF Spec
-----------------------------------------------------------------------------
(* The history a client pages through.                                     *)

\* What the client has, or is about to get.
InHand == reader.messages \union UNION {answer.content : answer \in answers}

\* The instants at which the pages end that it has, or is about to get.
Ends == reader.ends \union {answer.nextCursor : answer \in answers}

Accounted(m) ==
    \/ m \in InHand \union reader.newMessages
    \/ message[m].pc = "committed"
    \/ CreatedAt(m) = reader.now
    \/ CreatedAt(m) \in Ends

\* Wherever the client goes on, it comes to m: after every answer that is on its way, and
\* after those it has got.
Awaited(m) ==
    /\ \A answer \in answers : answer.hasNext /\ CreatedAt(m) < answer.nextCursor
    /\ \/ reader.hasNext /\ CreatedAt(m) < reader.nextCursor
       \/ ~reader.hasNext /\ answers # {}

\* Messages that are there have been committed, and their instants stay; a client that is
\* steady is subscribed; and nothing is on its way before the first page is asked for.
OrderInv ==
    /\ \A m \in Message : CreatedAt(m) <= clock
    /\ \A m \in rows : message[m].pc \in {"committed", "pushed"}
    /\ \A m \in InHand : message[m].pc # "new"
    /\ reader.steady => reader.subscribed /\ reader.loaded
    /\ ~reader.loaded => answers = {} /\ ~reader.hasNext

PagingInv == reader.steady => \A m \in rows : Accounted(m) \/ Awaited(m)

LEMMA OrderStep == TypeOK /\ OrderInv /\ [Next]_vars => OrderInv'
<1> SUFFICES ASSUME TypeOK, OrderInv, [Next]_vars PROVE OrderInv'
    OBVIOUS
<1> USE DEF OrderInv, CreatedAt
<1>0. \A m \in rows : message[m].pc # "new" /\ m \in Message
    BY DEF TypeOK
<1>1. CASE Tick
    BY <1>1 DEF Tick, InHand, TypeOK, Instant
<1>2. ASSUME NEW m \in Message, Create(m) PROVE OrderInv'
    <2>1. PICK a \in BOOLEAN :
            message' = [message EXCEPT ![m] = [pc |-> "persisted", createdAt |-> clock,
                                               attachments |-> a]]
        BY <1>2 DEF Create
    <2>2. UNCHANGED <<rows, clock, reader, answers>> /\ message[m].pc = "new"
        BY <1>2 DEF Create
    <2>3. \A n \in Message \ {m} : message'[n] = message[n]
        BY <2>1 DEF TypeOK
    <2>4. message'[m].pc = "persisted" /\ message'[m].createdAt = clock
        BY <2>1 DEF TypeOK
    <2>5. clock <= clock /\ UNCHANGED InHand
        BY <2>2 DEF TypeOK, Instant, InHand
    <2>6. InHand \subseteq Message
        BY DEF InHand, TypeOK
    <2> QED BY <1>0, <2>2, <2>3, <2>4, <2>5, <2>6
<1>3. ASSUME NEW m \in Message, Commit(m) \/ Refuse(m) \/ Push(m) PROVE OrderInv'
    <2>1. /\ \A n \in Message : /\ message'[n].createdAt = message[n].createdAt
                                /\ message[n].pc # "new" => message'[n].pc # "new"
                                /\ n # m => message'[n] = message[n]
          /\ rows' \subseteq rows \union {m}
          /\ m \in rows' => message'[m].pc \in {"committed", "pushed"}
          /\ UNCHANGED <<clock, answers>>
        BY <1>3 DEF Commit, Refuse, Push, TypeOK
    <2>2. /\ reader'.messages = reader.messages /\ reader'.steady = reader.steady
          /\ reader'.loaded = reader.loaded /\ reader'.subscribed = reader.subscribed
          /\ reader'.hasNext = reader.hasNext
        BY <1>3 DEF Commit, Refuse, Push, TypeOK
    <2>3. UNCHANGED InHand /\ InHand \subseteq Message
        BY <2>1, <2>2 DEF InHand, TypeOK
    <2> QED BY <1>0, <2>1, <2>2, <2>3
<1>4. ASSUME NEW m \in Message, Remove(m) PROVE OrderInv'
    BY <1>4 DEF Remove, InHand
<1>5. ASSUME \/ \E s \in ReadStatus : AddStatus(s) \/ RemoveStatus(s)
             \/ \E d \in Manager : Delete(d) \/ Announce(d) \/ Deleted(d)
      PROVE  OrderInv'
    <2>1. rows' \subseteq rows /\ UNCHANGED <<clock, message, reader, answers>>
        BY <1>5 DEF AddStatus, RemoveStatus, Delete, Announce, Deleted, Gone, Failed
    <2> QED BY <2>1 DEF InHand
<1>6. CASE Subscribe \/ Unsubscribe
    <2>1. /\ reader'.messages = reader.messages /\ reader'.loaded = reader.loaded
          /\ reader'.hasNext = reader.hasNext
          /\ reader'.steady => reader'.subscribed /\ reader.steady
        BY <1>6 DEF Subscribe, Unsubscribe, TypeOK
    <2>2. UNCHANGED <<InHand, rows, clock, message, answers>>
        BY <1>6, <2>1 DEF Subscribe, Unsubscribe, InHand
    <2> QED BY <2>1, <2>2
<1>7. CASE Fetch
    <2>1. PICK answer \in PagesBefore(clock) : answers' = answers \union {answer}
        BY <1>7 DEF Fetch
    <2>2. answer.content \subseteq rows
        BY <2>1, PageLemma
    <2>3. reader' = [reader EXCEPT !.loaded = TRUE, !.steady = reader.subscribed, !.now = clock]
        BY <1>7 DEF Fetch
    <2>4. /\ reader'.messages = reader.messages /\ reader'.loaded = TRUE
          /\ reader'.steady = reader.subscribed /\ reader'.subscribed = reader.subscribed
        BY <2>3 DEF TypeOK
    <2>5. InHand' \subseteq InHand \union rows
        BY <2>1, <2>2, <2>4 DEF InHand
    <2> QED BY <1>0, <1>7, <2>4, <2>5 DEF Fetch
<1>8. CASE LoadMore
    <2>1. PICK answer \in PagesBefore(reader.nextCursor) : answers' = answers \union {answer}
        BY <1>8 DEF LoadMore
    <2>2. answer.content \subseteq rows
        BY <2>1, PageLemma
    <2>3. InHand' \subseteq InHand \union rows
        BY <1>8, <2>1, <2>2 DEF InHand, LoadMore
    <2> QED BY <1>0, <1>8, <2>3 DEF LoadMore
<1>9. ASSUME NEW answer \in answers, Receive(answer) PROVE OrderInv'
    <2>1. reader' = [reader EXCEPT !.messages = @ \union answer.content,
                                   !.nextCursor = answer.nextCursor,
                                   !.hasNext = answer.hasNext,
                                   !.ends = @ \union {answer.nextCursor}]
        BY <1>9 DEF Receive
    <2>2. /\ reader'.messages = reader.messages \union answer.content
          /\ reader'.steady = reader.steady /\ reader'.loaded = reader.loaded
          /\ reader'.subscribed = reader.subscribed
        BY <2>1 DEF TypeOK
    <2>3. InHand' \subseteq InHand
        BY <1>9, <2>2 DEF InHand, Receive
    <2> QED BY <1>9, <2>2, <2>3 DEF Receive
<1>10. CASE UNCHANGED vars
    BY <1>10 DEF vars, InHand
<1> QED BY <1>1, <1>2, <1>3, <1>4, <1>5, <1>6, <1>7, <1>8, <1>9, <1>10 DEF Next, Read

\* What has been accounted for stays so, and a step that asks for nothing leaves what is
\* awaited, as long as no message changes its instant and none is dropped.
LEMMA AccountLemma ==
    ASSUME NEW m \in Message, Accounted(m),
           InHand \subseteq InHand', Ends \subseteq Ends',
           reader.newMessages \subseteq reader'.newMessages, reader'.now = reader.now,
           message'[m].createdAt = message[m].createdAt,
           message[m].pc = "committed" =>
                message'[m].pc = "committed" \/ m \in reader'.newMessages
    PROVE  Accounted(m)'
BY DEF Accounted, CreatedAt

LEMMA PagingStep ==
    TypeOK /\ OrderInv /\ PagingInv /\ [Next]_vars => PagingInv'
<1> SUFFICES ASSUME TypeOK, OrderInv, PagingInv, [Next]_vars,
                    reader'.steady, NEW m \in rows'
             PROVE  Accounted(m)' \/ Awaited(m)'
    BY DEF PagingInv
<1>a. m \in Message /\ rows \subseteq Message /\ InHand \subseteq Message
    BY TypeStep DEF TypeOK, InHand
<1>b. \A n \in Message : CreatedAt(n) \in Int
    BY DEF TypeOK, CreatedAt, Instant
<1>1. CASE \/ Tick \/ UNCHANGED vars
           \/ \E n \in Message : Remove(n)
           \/ \E x \in ReadStatus : AddStatus(x) \/ RemoveStatus(x)
           \/ \E d \in Manager : Delete(d) \/ Announce(d) \/ Deleted(d)
    <2>1. UNCHANGED <<message, reader, answers>> /\ rows' \subseteq rows
        BY <1>1 DEF Tick, AddStatus, RemoveStatus, Delete, Announce, Deleted, Gone, Failed,
                    Remove, vars
    <2> QED BY <2>1 DEF PagingInv, Accounted, Awaited, InHand, Ends, CreatedAt
<1>2. ASSUME NEW n \in Message, Create(n) PROVE Accounted(m)' \/ Awaited(m)'
    <2>1. UNCHANGED <<rows, reader, answers, InHand, Ends>> /\ message[n].pc = "new"
        BY <1>2 DEF Create, InHand, Ends
    <2>2. \A k \in Message \ {n} : message'[k] = message[k]
        BY <1>2 DEF Create, TypeOK
    <2>3. n \notin rows /\ n \notin InHand
        BY <2>1 DEF OrderInv
    <2>4. \A k \in InHand \union {m} : message'[k] = message[k]
        BY <1>a, <2>1, <2>2, <2>3
    <2>5. Accounted(m) => Accounted(m)'
        BY <1>a, <2>1, <2>4, AccountLemma
    <2>6. Awaited(m) => Awaited(m)'
        BY <2>1, <2>4 DEF Awaited, CreatedAt
    <2> QED BY <2>1, <2>5, <2>6 DEF PagingInv
<1>3. ASSUME NEW n \in Message, Commit(n) \/ Refuse(n) PROVE Accounted(m)' \/ Awaited(m)'
    <2>1. /\ UNCHANGED <<reader, answers, InHand, Ends>>
          /\ rows' \subseteq rows \union {n}
          /\ n \in rows' \ rows => message'[n].pc = "committed"
          /\ \A k \in Message : message'[k].createdAt = message[k].createdAt
          /\ message[n].pc = "persisted" /\ \A k \in Message \ {n} : message'[k] = message[k]
        <3>1. PICK pc \in {"committed", "refused"} : message' = [message EXCEPT ![n].pc = pc]
            BY <1>3 DEF Commit, Refuse
        <3>2. /\ message'[n].pc = pc /\ message'[n].createdAt = message[n].createdAt
              /\ \A k \in Message \ {n} : message'[k] = message[k]
            BY <3>1 DEF TypeOK
        <3>3. CASE Commit(n)
            <4>1. message'[n].pc = "committed"
                BY <3>3 DEF Commit, TypeOK
            <4> QED BY <3>2, <3>3, <4>1 DEF Commit, InHand, Ends
        <3>4. CASE Refuse(n)
            BY <3>2, <3>4 DEF Refuse, InHand, Ends
        <3> QED BY <1>3, <3>3, <3>4
    <2>2. CASE m = n /\ m \notin rows
        BY <2>1, <2>2 DEF Accounted
    <2>3. CASE m \in rows
        <3>1. Accounted(m) => Accounted(m)'
            BY <1>a, <2>1, AccountLemma
        <3>2. Awaited(m) => Awaited(m)'
            BY <1>a, <2>1 DEF Awaited, CreatedAt
        <3> QED BY <2>1, <2>3, <3>1, <3>2 DEF PagingInv
    <2> QED BY <2>1, <2>2, <2>3
<1>4. ASSUME NEW n \in Message, Push(n) PROVE Accounted(m)' \/ Awaited(m)'
    <2>1. /\ UNCHANGED <<answers, rows>>
          /\ \A k \in Message : message'[k].createdAt = message[k].createdAt
          /\ \A k \in Message \ {n} : message'[k] = message[k]
        BY <1>4 DEF Push, TypeOK
    <2>2. /\ reader'.messages = reader.messages /\ reader'.now = reader.now
          /\ reader'.hasNext = reader.hasNext /\ reader'.nextCursor = reader.nextCursor
          /\ reader'.steady = reader.steady /\ reader'.ends = reader.ends
          /\ reader.newMessages \subseteq reader'.newMessages
          /\ n \in rows /\ reader.subscribed => n \in reader'.newMessages
        BY <1>4 DEF Push, TypeOK
    <2>3. UNCHANGED <<InHand, Ends>>
        BY <2>1, <2>2 DEF InHand, Ends
    <2>4. message[m].pc = "committed" =>
            message'[m].pc = "committed" \/ m \in reader'.newMessages
        BY <1>a, <2>1, <2>2 DEF OrderInv
    <2>5. Accounted(m) => Accounted(m)'
        BY <1>a, <2>1, <2>2, <2>3, <2>4, AccountLemma
    <2>6. Awaited(m) => Awaited(m)'
        BY <1>a, <2>1, <2>2 DEF Awaited, CreatedAt
    <2> QED BY <2>1, <2>2, <2>5, <2>6 DEF PagingInv
<1>5. CASE Subscribe \/ Unsubscribe
    <2>1. /\ UNCHANGED <<answers, rows, message>> /\ reader.steady
          /\ reader'.messages = reader.messages /\ reader'.now = reader.now
          /\ reader'.hasNext = reader.hasNext /\ reader'.nextCursor = reader.nextCursor
          /\ reader'.newMessages = reader.newMessages /\ reader'.ends = reader.ends
        BY <1>5 DEF Subscribe, Unsubscribe, TypeOK
    <2>2. UNCHANGED <<InHand, Ends>>
        BY <2>1 DEF InHand, Ends
    <2> QED BY <2>1, <2>2 DEF PagingInv, Accounted, Awaited, CreatedAt
<1>6. CASE Fetch
    <2>1. PICK answer \in PagesBefore(clock) : answers' = answers \union {answer}
        BY <1>6 DEF Fetch
    <2>2. /\ answers = {} /\ ~reader.hasNext
          /\ UNCHANGED <<rows, message>>
        BY <1>6 DEF Fetch, OrderInv
    <2>3. reader'.now = clock /\ ~reader'.hasNext
        BY <1>6, <2>2 DEF Fetch, TypeOK
    <2>4. /\ answers' = {answer}
          /\ answer.content \subseteq InHand' /\ answer.nextCursor \in Ends'
        BY <2>1, <2>2 DEF InHand, Ends
    <2>5. CreatedAt(m)' = CreatedAt(m)
        BY <2>2 DEF CreatedAt
    <2>6. CASE m \in answer.content \/ CreatedAt(m) \in {clock, answer.nextCursor}
        BY <2>3, <2>4, <2>5, <2>6 DEF Accounted
    <2>7. CASE m \notin answer.content /\ CreatedAt(m) \notin {clock, answer.nextCursor}
        <3>1. CreatedAt(m) < clock
            <4>1. CreatedAt(m) <= clock
                BY <1>a DEF OrderInv
            <4>2. CreatedAt(m) \in Int /\ clock \in Int
                BY <1>a, <1>b DEF TypeOK, Instant
            <4> QED BY <2>7, <4>1, <4>2
        <3>2. answer.hasNext /\ CreatedAt(m) <= answer.nextCursor /\ answer.nextCursor \in Int
            BY <2>1, <2>2, <2>7, <3>1, PageLemma DEF Cursor
        <3>3. CreatedAt(m) < answer.nextCursor
            BY <1>a, <1>b, <2>7, <3>2
        <3> QED BY <2>3, <2>4, <2>5, <3>2, <3>3 DEF Awaited
    <2> QED BY <2>6, <2>7
<1>7. CASE LoadMore
    <2>1. PICK answer \in PagesBefore(reader.nextCursor) : answers' = answers \union {answer}
        BY <1>7 DEF LoadMore
    <2>2. reader.hasNext /\ UNCHANGED <<rows, message, reader>>
        BY <1>7 DEF LoadMore
    <2>3. /\ answer.content \subseteq InHand' /\ InHand \subseteq InHand'
          /\ answer.nextCursor \in Ends' /\ Ends \subseteq Ends'
        BY <2>1, <2>2 DEF InHand, Ends
    <2>4. CASE Accounted(m)
        BY <2>2, <2>3, <2>4, <1>a, AccountLemma
    <2>5. CASE Awaited(m)
        <3>1. CreatedAt(m) < reader.nextCursor /\ CreatedAt(m)' = CreatedAt(m)
            BY <2>2, <2>5 DEF Awaited, CreatedAt
        <3>2. CASE m \in answer.content \/ CreatedAt(m) = answer.nextCursor
            BY <2>3, <3>1, <3>2 DEF Accounted
        <3>3. CASE answer.hasNext /\ CreatedAt(m) < answer.nextCursor
            BY <2>1, <2>2, <2>5, <3>3 DEF Awaited, CreatedAt
        <3>4. CASE m \notin answer.content /\ CreatedAt(m) # answer.nextCursor
            <4>1. /\ answer.hasNext
                  /\ CreatedAt(m) <= answer.nextCursor /\ answer.nextCursor \in Int
                BY <2>1, <2>2, <3>1, <3>4, PageLemma DEF Cursor
            <4>2. CreatedAt(m) < answer.nextCursor
                BY <1>a, <1>b, <3>4, <4>1
            <4> QED BY <3>3, <4>1, <4>2
        <3> QED BY <3>2, <3>4
    <2> QED BY <2>2, <2>4, <2>5 DEF PagingInv
<1>8. ASSUME NEW answer \in answers, Receive(answer) PROVE Accounted(m)' \/ Awaited(m)'
    <2>1. /\ answers' = answers \ {answer} /\ UNCHANGED <<rows, message>>
          /\ reader' = [reader EXCEPT !.messages = @ \union answer.content,
                                      !.nextCursor = answer.nextCursor,
                                      !.hasNext = answer.hasNext,
                                      !.ends = @ \union {answer.nextCursor}]
        BY <1>8 DEF Receive
    <2>2. /\ reader'.messages = reader.messages \union answer.content
          /\ reader'.ends = reader.ends \union {answer.nextCursor}
          /\ reader'.nextCursor = answer.nextCursor /\ reader'.hasNext = answer.hasNext
          /\ reader'.newMessages = reader.newMessages /\ reader'.now = reader.now
          /\ reader'.steady = reader.steady
        BY <2>1 DEF TypeOK
    <2>3. InHand \subseteq InHand' /\ Ends \subseteq Ends'
        BY <2>1, <2>2 DEF InHand, Ends
    <2>4. Accounted(m) => Accounted(m)'
        BY <1>a, <2>1, <2>2, <2>3, AccountLemma
    <2>5. Awaited(m) => Awaited(m)'
        BY <2>1, <2>2 DEF Awaited, CreatedAt
    <2> QED BY <2>1, <2>2, <2>4, <2>5 DEF PagingInv
<1> QED BY <1>1, <1>2, <1>3, <1>4, <1>5, <1>6, <1>7, <1>8 DEF Next, Read

\* A client that has come to the end of the pages shows all there is.
THEOREM AllAreShown == Spec => []AllIsShown
<1>1. Init => OrderInv /\ PagingInv
    <2> SUFFICES ASSUME Init PROVE OrderInv /\ PagingInv
        OBVIOUS
    <2>1. InHand = {}
        BY DEF Init, InHand
    <2> QED BY <2>1 DEF Init, OrderInv, PagingInv, CreatedAt
<1>2. TypeOK /\ OrderInv /\ PagingInv => AllIsShown
    <2> SUFFICES ASSUME TypeOK, OrderInv, PagingInv, reader.steady, ~reader.hasNext, answers = {},
                        NEW m \in rows
                 PROVE  \/ m \in reader.messages \union reader.newMessages
                        \/ message[m].pc = "committed"
                        \/ CreatedAt(m) = reader.now
                        \/ CreatedAt(m) \in reader.ends
        BY DEF AllIsShown
    <2>1. InHand = reader.messages /\ Ends = reader.ends
        BY DEF InHand, Ends
    <2> QED BY <2>1 DEF PagingInv, Accounted, Awaited
<1> QED BY <1>1, <1>2, OrderStep, PagingStep, TypeCorrect, PTL DEF Spec
=============================================================================
