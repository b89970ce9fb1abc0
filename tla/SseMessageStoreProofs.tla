------------------------ MODULE SseMessageStoreProofs ------------------------
(***************************************************************************)
(* What SseMessageStore keeps, for any number of threads, messages and any *)
(* limit.  The inductive invariants:                                       *)
(*   - TypeOK;                                                             *)
(*   - IdInv, for the agreement of deque and map: an id is added once;     *)
(*   - BoundInv, for the limit: as long as there are too many, some thread *)
(*     is going to look again;                                             *)
(*   - PollInv, for what is retained: beyond any level, a thread polls no  *)
(*     more than once;                                                     *)
(*   - ReplayInv, for the loop of a replay.                                *)
(***************************************************************************)
EXTENDS SseMessageStore, FiniteSetTheorems, TLAPS

-----------------------------------------------------------------------------
\* Appending keeps what is there and puts one element behind it.
LEMMA AppendFacts ==
    ASSUME NEW S, NEW q \in Seq(S), NEW x \in S
    PROVE  /\ Append(q, x) \in Seq(S)
           /\ Len(Append(q, x)) = Len(q) + 1
           /\ \A i \in 1 .. Len(q) : Append(q, x)[i] = q[i]
           /\ Append(q, x)[Len(q) + 1] = x
OBVIOUS

\* addLast puts the thread's message at the end, which has not been polled yet.
LEMMA AddedLemma ==
    ASSUME TypeOK, NEW t \in Thread, AddLast(t), mine[t] \in Message
    PROVE  /\ log' \in Seq(Message) /\ Len(log') = Len(log) + 1
           /\ \A i \in 1 .. Len(log) : log'[i] = log[i]
           /\ log'[Len(log) + 1] = mine[t]
<1>1. log \in Seq(Message) /\ log' = Append(log, mine[t])
    BY DEF TypeOK, AddLast
<1> QED BY <1>1, AppendFacts

\* The iterator goes past nothing but what has been polled.
LEMMA AdvanceLemma ==
    ASSUME TypeOK, NEW i \in Nat, Advance(i)
    PROVE  /\ upcoming' \in Nat /\ upcoming' <= Len(log)
           /\ upcoming' # 0 =>
                /\ upcoming' > i
                /\ \A j \in i + 1 .. upcoming' - 1 : j <= polled
           /\ upcoming' = 0 => \A j \in i + 1 .. Len(log) : j <= polled
<1> DEFINE n == (IF i < polled THEN polled ELSE i) + 1
<1>1. polled \in Nat /\ Len(log) \in Nat
    BY DEF TypeOK
<1>2. n \in Nat /\ n > i /\ n > 0 /\ \A j \in i + 1 .. n - 1 : j <= polled
    BY <1>1
<1>3. upcoming' = IF n > Len(log) THEN 0 ELSE n
    BY DEF Advance
<1> HIDE DEF n
<1>4. CASE n > Len(log)
    BY <1>1, <1>2, <1>3, <1>4
<1>5. CASE ~(n > Len(log))
    BY <1>1, <1>2, <1>3, <1>5
<1> QED BY <1>4, <1>5
-----------------------------------------------------------------------------
(* Types.                                                                  *)

TypeInv ==
    /\ TypeOK
    /\ \A t \in Thread : pc[t] = "add" => mine[t] \in Message
    /\ walking => asked \in Message
    /\ current <= Len(log) /\ upcoming <= Len(log) /\ horizon <= Len(log)

\* It holds at first ...
LEMMA TypeInit == Init => TypeInv
<1> SUFFICES ASSUME Init PROVE TypeInv
    OBVIOUS
<1>1. log \in Seq(Message) /\ Len(log) = 0
    BY DEF Init
<1>2. polled = 0 /\ current = 0 /\ upcoming = 0 /\ horizon = 0
    BY DEF Init
<1>3. /\ \A t \in Thread : pc[t] = "idle"
      /\ pc \in [Thread -> {"idle", "add", "count", "counting", "poll", "remove"}]
    BY DEF Init
<1>4. /\ mine \in [Thread -> Message \union {NoMessage}]
      /\ oldest \in [Thread -> Message \union {NoMessage}]
      /\ polledThen \in [Thread -> Nat] /\ addedThen \in [Thread -> Nat]
    BY DEF Init
<1>5. /\ messages \subseteq Message /\ result \subseteq Message
      /\ asked \in Message \union {NoMessage}
      /\ walking = FALSE /\ walking \in BOOLEAN /\ found \in BOOLEAN
    BY DEF Init
<1>6. TypeOK
    BY <1>1, <1>2, <1>3, <1>4, <1>5 DEF TypeOK
<1> QED BY <1>1, <1>2, <1>3, <1>5, <1>6 DEF TypeInv

\* ... and every step keeps it.
LEMMA TypeNext == TypeInv /\ [Next]_vars => TypeInv'
<1> SUFFICES ASSUME TypeInv, [Next]_vars PROVE TypeInv'
    OBVIOUS
<1> USE DEF TypeInv, TypeOK
<1>1. ASSUME NEW t \in Thread, NEW m \in Message, Put(t, m) PROVE TypeInv'
    BY <1>1 DEF Put, Goto, deque, reader
<1>2. ASSUME NEW t \in Thread, AddLast(t) PROVE TypeInv'
    <2>1. mine[t] \in Message
        BY <1>2 DEF AddLast
    <2>2. log' \in Seq(Message) /\ Len(log') = Len(log) + 1
        BY <1>2, <2>1, AddedLemma
    <2> QED BY <1>2, <2>2 DEF AddLast, Goto, reader
<1>3. ASSUME NEW t \in Thread, EnterSize(t) PROVE TypeInv'
    BY <1>3 DEF EnterSize, Goto, deque, reader
<1>4. ASSUME NEW t \in Thread, TooMany(t) PROVE TypeInv'
    BY <1>4 DEF TooMany, Goto, deque, reader
<1>5. ASSUME NEW t \in Thread, Saved(t) PROVE TypeInv'
    BY <1>5 DEF Saved, Goto, deque, reader
<1>6. ASSUME NEW t \in Thread, Poll(t) PROVE TypeInv'
    <2>1. CASE Present = {}
        BY <1>6, <2>1 DEF Poll, Goto, reader
    <2>2. CASE Present # {}
        <3>1. polled + 1 \in 1 .. Len(log) /\ log[polled + 1] \in Message
            BY <2>2 DEF Present
        <3>2. /\ oldest' = [oldest EXCEPT ![t] = log[polled + 1]]
              /\ polled' = polled + 1
              /\ pc' = [pc EXCEPT ![t] = "remove"]
              /\ UNCHANGED <<log, messages, mine, polledThen, addedThen, reader>>
            BY <1>6, <2>2 DEF Poll, Goto
        <3> QED BY <3>1, <3>2 DEF reader
    <2> QED BY <2>1, <2>2
<1>7. ASSUME NEW t \in Thread, RemoveOldest(t) PROVE TypeInv'
    BY <1>7 DEF RemoveOldest, Goto, deque, reader
<1>8. CASE FindEventsAfter
    <2>1. upcoming' \in Nat /\ upcoming' <= Len(log)
        BY <1>8, AdvanceLemma DEF FindEventsAfter
    <2>2. asked' \in Message
        BY <1>8 DEF FindEventsAfter
    <2>3. /\ UNCHANGED <<deque, messages, threads>>
          /\ walking' = TRUE /\ current' = 0 /\ found' = FALSE
          /\ result' = {} /\ horizon' = Len(log)
        BY <1>8 DEF FindEventsAfter
    <2>4. /\ result' \subseteq Message /\ walking' \in BOOLEAN /\ found' \in BOOLEAN
          /\ UNCHANGED <<log, polled, messages, pc, mine, oldest, polledThen, addedThen>>
        BY <2>3 DEF deque, threads
    <2>5. TypeOK'
        BY <2>1, <2>2, <2>3, <2>4
    <2> QED BY <2>1, <2>2, <2>3, <2>4, <2>5
<1>9. CASE NextElement
    <2>1. upcoming' \in Nat /\ upcoming' <= Len(log)
        BY <1>9, AdvanceLemma DEF NextElement
    <2> QED BY <1>9, <2>1 DEF NextElement, deque, threads
<1>10. CASE Examine
    BY <1>10 DEF Examine, deque, threads
<1>11. CASE Return
    BY <1>11 DEF Return, deque, threads
<1>12. CASE UNCHANGED vars
    BY <1>12 DEF vars, deque, threads, reader
<1> QED BY <1>1, <1>2, <1>3, <1>4, <1>5, <1>6, <1>7, <1>8, <1>9, <1>10, <1>11, <1>12
        DEF Next, Save, Find

\* The types of the store, for any number of threads: in particular, no null is
\* replayed.
THEOREM TypeCorrect == Spec => []TypeOK
<1>1. TypeInv => TypeOK
    BY DEF TypeInv
<1> QED BY <1>1, TypeInit, TypeNext, PTL DEF Spec

\* The inductive invariant that the other proofs start from.
LEMMA TypeInvariant == Spec => []TypeInv
BY TypeInit, TypeNext, PTL DEF Spec
-----------------------------------------------------------------------------
(* Deque and map.                                                          *)

IdInv ==
    /\ \A i, j \in 1 .. Len(log) : log[i] = log[j] => i = j
    /\ \A t \in Thread : pc[t] = "add" =>
            /\ mine[t] \in messages
            /\ \A i \in 1 .. Len(log) : log[i] # mine[t]
    /\ \A s, t \in Thread : s # t /\ mine[s] = mine[t] => mine[s] = NoMessage
    /\ \A t \in Thread : pc[t] = "remove" => \E i \in 1 .. polled : oldest[t] = log[i]
    /\ \A i \in polled + 1 .. Len(log) : log[i] \in messages
    /\ \A m \in messages :
        \/ \E i \in polled + 1 .. Len(log) : log[i] = m
        \/ \E t \in Thread : pc[t] = "add" /\ mine[t] = m
        \/ \E t \in Thread : pc[t] = "remove" /\ oldest[t] = m

\* Nothing is stored at first.
LEMMA IdInit == Init => IdInv
BY DEF Init, IdInv

\* Save by save: an id is new when it is added, in the map by then, and polled when it
\* is removed.
LEMMA IdNext == TypeInv /\ IdInv /\ [Next]_vars => IdInv'
<1> SUFFICES ASSUME TypeInv, IdInv, [Next]_vars PROVE IdInv'
    OBVIOUS
<1>t. /\ log \in Seq(Message) /\ Len(log) \in Nat /\ polled \in Nat /\ polled <= Len(log)
      /\ pc \in [Thread -> {"idle", "add", "count", "counting", "poll", "remove"}]
      /\ mine \in [Thread -> Message \union {NoMessage}]
      /\ oldest \in [Thread -> Message \union {NoMessage}]
      /\ NoMessage \notin Message
    BY StoreAssumption DEF TypeInv, TypeOK
<1>1. ASSUME NEW t \in Thread, NEW m \in Message, Put(t, m) PROVE IdInv'
    <2>1. /\ mine' = [mine EXCEPT ![t] = m] /\ messages' = messages \union {m}
          /\ pc' = [pc EXCEPT ![t] = "add"] /\ pc[t] = "idle"
          /\ UNCHANGED <<log, polled, oldest>>
        BY <1>1 DEF Put, Goto, deque
    <2>2. /\ \A i \in 1 .. Len(log) : log[i] # m
          /\ \A s \in Thread : mine[s] # m
        BY <1>1, <1>t DEF Put, New
    <2> QED BY <1>t, <2>1, <2>2 DEF IdInv
<1>2. ASSUME NEW t \in Thread, AddLast(t) PROVE IdInv'
    <2>1. /\ pc' = [pc EXCEPT ![t] = "count"] /\ pc[t] = "add"
          /\ UNCHANGED <<polled, messages, mine, oldest>>
        BY <1>2 DEF AddLast, Goto
    <2>2. mine[t] \in Message
        BY <2>1 DEF TypeInv
    <2>3. /\ Len(log') = Len(log) + 1
          /\ \A i \in 1 .. Len(log) : log'[i] = log[i]
          /\ log'[Len(log) + 1] = mine[t]
        BY <1>2, <2>2, AddedLemma DEF TypeInv
    <2>4. \A s \in Thread : pc'[s] = "add" => s # t /\ pc[s] = "add" /\ mine[s] # mine[t]
        BY <1>t, <2>1, <2>2 DEF IdInv
    <2>5. \A i, j \in 1 .. Len(log') : log'[i] = log'[j] => i = j
        BY <1>t, <2>1, <2>3 DEF IdInv
    <2>6. \A s \in Thread : pc'[s] = "add" =>
            /\ mine'[s] \in messages'
            /\ \A i \in 1 .. Len(log') : log'[i] # mine'[s]
        BY <1>t, <2>1, <2>3, <2>4 DEF IdInv
    <2>7. \A s \in Thread : pc'[s] = "remove" =>
            \E i \in 1 .. polled' : oldest'[s] = log'[i]
        BY <1>t, <2>1, <2>3 DEF IdInv
    <2>8. \A i \in polled' + 1 .. Len(log') : log'[i] \in messages'
        BY <1>t, <2>1, <2>3 DEF IdInv
    <2>9. ASSUME NEW m \in messages'
          PROVE  \/ \E i \in polled' + 1 .. Len(log') : log'[i] = m
                 \/ \E s \in Thread : pc'[s] = "add" /\ mine'[s] = m
                 \/ \E s \in Thread : pc'[s] = "remove" /\ oldest'[s] = m
        <3>1. CASE \E i \in polled + 1 .. Len(log) : log[i] = m
            BY <1>t, <2>1, <2>3, <3>1
        <3>2. CASE \E s \in Thread : pc[s] = "add" /\ mine[s] = m
            <4>1. PICK s \in Thread : pc[s] = "add" /\ mine[s] = m
                BY <3>2
            <4>2. CASE s = t
                BY <1>t, <2>1, <2>3, <4>1, <4>2
            <4>3. CASE s # t
                BY <1>t, <2>1, <4>1, <4>3
            <4> QED BY <4>2, <4>3
        <3>3. CASE \E s \in Thread : pc[s] = "remove" /\ oldest[s] = m
            BY <1>t, <2>1, <3>3
        <3> QED BY <2>1, <3>1, <3>2, <3>3 DEF IdInv
    <2>10. \A r, s \in Thread : r # s /\ mine'[r] = mine'[s] => mine'[r] = NoMessage
        BY <2>1 DEF IdInv
    <2> QED BY <2>5, <2>6, <2>7, <2>8, <2>9, <2>10 DEF IdInv
<1>3. ASSUME NEW t \in Thread, EnterSize(t) \/ TooMany(t) \/ Saved(t) PROVE IdInv'
    <2>1. /\ UNCHANGED <<log, polled, messages, oldest>>
          /\ mine' = mine \/ mine' = [mine EXCEPT ![t] = NoMessage]
          /\ \E q \in {"counting", "poll", "idle"} : pc' = [pc EXCEPT ![t] = q]
          /\ pc[t] \in {"count", "counting"}
        BY <1>3 DEF EnterSize, TooMany, Saved, Goto, deque
    <2> QED BY <1>t, <2>1 DEF IdInv
<1>4. ASSUME NEW t \in Thread, Poll(t), Present = {} PROVE IdInv'
    <2>1. /\ UNCHANGED <<log, polled, messages, mine, oldest>>
          /\ pc' = [pc EXCEPT ![t] = "count"] /\ pc[t] = "poll"
        BY <1>4 DEF Poll, Goto
    <2> QED BY <1>t, <2>1 DEF IdInv
<1>5. ASSUME NEW t \in Thread, Poll(t), Present # {} PROVE IdInv'
    <2>1. /\ UNCHANGED <<log, messages, mine>>
          /\ polled' = polled + 1 /\ polled < Len(log)
          /\ oldest' = [oldest EXCEPT ![t] = log[polled + 1]]
          /\ pc' = [pc EXCEPT ![t] = "remove"] /\ pc[t] = "poll"
        BY <1>t, <1>5 DEF Poll, Goto, Present
    <2>2. \A s \in Thread : pc'[s] = "remove" =>
            \E i \in 1 .. polled' : oldest'[s] = log'[i]
        <3> SUFFICES ASSUME NEW s \in Thread, pc'[s] = "remove"
                     PROVE  \E i \in 1 .. polled' : oldest'[s] = log'[i]
            OBVIOUS
        <3>1. CASE s = t
            BY <1>t, <2>1, <3>1
        <3>2. CASE s # t
            BY <1>t, <2>1, <3>2 DEF IdInv
        <3> QED BY <3>1, <3>2
    <2>3. ASSUME NEW m \in messages'
          PROVE  \/ \E i \in polled' + 1 .. Len(log') : log'[i] = m
                 \/ \E s \in Thread : pc'[s] = "add" /\ mine'[s] = m
                 \/ \E s \in Thread : pc'[s] = "remove" /\ oldest'[s] = m
        <3>1. CASE \E i \in polled + 1 .. Len(log) : log[i] = m
            <4>1. PICK i \in polled + 1 .. Len(log) : log[i] = m
                BY <3>1
            <4>2. CASE i = polled + 1
                BY <1>t, <2>1, <4>1, <4>2
            <4>3. CASE i # polled + 1
                BY <1>t, <2>1, <4>1, <4>3
            <4> QED BY <4>2, <4>3
        <3>2. CASE \E s \in Thread : pc[s] = "add" /\ mine[s] = m
            BY <1>t, <2>1, <3>2
        <3>3. CASE \E s \in Thread : pc[s] = "remove" /\ oldest[s] = m
            BY <1>t, <2>1, <3>3
        <3> QED BY <2>1, <3>1, <3>2, <3>3 DEF IdInv
    <2>4. \A i \in polled' + 1 .. Len(log') : log'[i] \in messages'
        BY <1>t, <2>1 DEF IdInv
    <2> QED BY <1>t, <2>1, <2>2, <2>3, <2>4 DEF IdInv
<1>6. ASSUME NEW t \in Thread, RemoveOldest(t) PROVE IdInv'
    <2>1. /\ UNCHANGED <<log, polled, mine>> /\ messages' = messages \ {oldest[t]}
          /\ oldest' = [oldest EXCEPT ![t] = NoMessage]
          /\ pc' = [pc EXCEPT ![t] = "count"] /\ pc[t] = "remove"
        BY <1>6 DEF RemoveOldest, Goto, deque
    <2>2. PICK k \in 1 .. polled : oldest[t] = log[k]
        BY <2>1 DEF IdInv
    <2>3. \A i \in polled + 1 .. Len(log) : log[i] # oldest[t]
        BY <1>t, <2>2 DEF IdInv
    <2>4. \A s \in Thread : pc[s] = "add" => mine[s] # oldest[t]
        BY <1>t, <2>2 DEF IdInv
    <2> QED BY <1>t, <2>1, <2>3, <2>4 DEF IdInv
<1>7. CASE Find \/ UNCHANGED vars
    <2>1. UNCHANGED <<log, polled, messages, pc, mine, oldest>>
        BY <1>7 DEF Find, FindEventsAfter, NextElement, Examine, Return, vars, deque, threads
    <2> QED BY <2>1 DEF IdInv
<1> QED BY <1>1, <1>2, <1>3, <1>4, <1>5, <1>6, <1>7 DEF Next, Save

\* IdInv always holds.
LEMMA IdInvariant == Spec => []IdInv
BY IdInit, IdNext, TypeInvariant, PTL DEF Spec

\* Every id in the deque has its message in the map, whatever threads do at once.
THEOREM QueueStored == Spec => []QueueIsStored
<1>1. IdInv => QueueIsStored
    BY DEF IdInv, QueueIsStored, Queued, Present
<1> QED BY <1>1, IdInvariant, PTL

\* The map does not leak: every message in it is in the deque or on its way in or out.
THEOREM StoredQueued == Spec => []StoredIsQueued
<1>1. IdInv => StoredIsQueued
    BY DEF IdInv, StoredIsQueued, Queued, Present
<1> QED BY <1>1, IdInvariant, PTL
-----------------------------------------------------------------------------
(* The limit.                                                              *)

\* A thread that is going to look at the size again and find all that is there.
Watches(t) ==
    \/ pc[t] \in {"count", "poll", "remove"}
    \/ pc[t] = "counting" /\ addedThen[t] = Len(log)

BoundInv == Len(log) - polled <= MaxSize \/ \E t \in Thread : Watches(t)

\* Nothing is there at first.
LEMMA BoundInit == Init => BoundInv
<1> SUFFICES ASSUME Init PROVE Len(log) - polled <= MaxSize
    BY DEF BoundInv
<1>1. Len(log) = 0 /\ polled = 0
    BY DEF Init
<1> QED BY <1>1, StoreAssumption

\* The thread that leaves has not seen the last message, or the limit is kept.
LEMMA BoundNext == TypeInv /\ BoundInv /\ [Next]_vars => BoundInv'
<1> SUFFICES ASSUME TypeInv, BoundInv, [Next]_vars PROVE BoundInv'
    OBVIOUS
<1>t. /\ log \in Seq(Message) /\ Len(log) \in Nat /\ polled \in Nat /\ MaxSize \in Nat
      /\ pc \in [Thread -> {"idle", "add", "count", "counting", "poll", "remove"}]
      /\ addedThen \in [Thread -> Nat]
    BY StoreAssumption DEF TypeInv, TypeOK
<1>1. ASSUME NEW t \in Thread, NEW m \in Message, Put(t, m) PROVE BoundInv'
    <2>1. /\ UNCHANGED <<log, polled, addedThen>>
          /\ pc' = [pc EXCEPT ![t] = "add"] /\ pc[t] = "idle"
        BY <1>1 DEF Put, Goto, deque
    <2> QED BY <1>t, <2>1 DEF BoundInv, Watches
<1>2. ASSUME NEW t \in Thread,
             AddLast(t) \/ EnterSize(t) \/ TooMany(t) \/ Poll(t) \/ RemoveOldest(t)
      PROVE  BoundInv'
    <2>1. CASE EnterSize(t)
        <3>1. Watches(t)'
            BY <1>t, <2>1 DEF EnterSize, Goto, deque, Watches
        <3> QED BY <3>1 DEF BoundInv
    <2>2. CASE ~EnterSize(t)
        <3>1. pc'[t] \in {"count", "poll", "remove"}
            BY <1>t, <1>2, <2>2 DEF AddLast, TooMany, Poll, RemoveOldest, Goto
        <3>2. Watches(t)'
            BY <3>1 DEF Watches
        <3> QED BY <3>2 DEF BoundInv
    <2> QED BY <2>1, <2>2
<1>3. ASSUME NEW t \in Thread, Saved(t) PROVE BoundInv'
    <2>1. /\ UNCHANGED <<log, polled, addedThen>>
          /\ pc' = [pc EXCEPT ![t] = "idle"] /\ pc[t] = "counting"
          /\ addedThen[t] - polled <= MaxSize
        BY <1>3 DEF Saved, Goto, deque
    <2>2. CASE addedThen[t] = Len(log)
        BY <2>1, <2>2 DEF BoundInv
    <2>3. CASE addedThen[t] # Len(log)
        BY <1>t, <2>1, <2>3 DEF BoundInv, Watches
    <2> QED BY <2>2, <2>3
<1>4. CASE Find \/ UNCHANGED vars
    <2>1. UNCHANGED <<log, polled, pc, addedThen>>
        BY <1>4 DEF Find, FindEventsAfter, NextElement, Examine, Return, vars, deque, threads
    <2> QED BY <2>1 DEF BoundInv, Watches
<1> QED BY <1>1, <1>2, <1>3, <1>4 DEF Next, Save

\* With no save under way there are at most MAX_SIZE messages.
THEOREM StoreBounded == Spec => []StoreIsBounded
<1>1. BoundInv => StoreIsBounded
    BY DEF BoundInv, Watches, StoreIsBounded
<1> QED BY <1>1, BoundInit, BoundNext, TypeInvariant, PTL DEF Spec
-----------------------------------------------------------------------------
(* What stays.                                                             *)

\* The threads that may poll although v or more have been polled: their size() began
\* before that.
Late(v) == {t \in Thread : pc[t] \in {"counting", "poll"} /\ polledThen[t] < v}

\* For every level v that leaves no more than MAX_SIZE messages: what has been polled
\* beyond it was polled by different threads, none of which is late any more.
PollInv ==
    /\ \A t \in Thread : polledThen[t] <= polled
    /\ \A t \in Thread : pc[t] = "poll" => Len(log) - polledThen[t] > MaxSize
    /\ polled > 0 => Len(log) > MaxSize
    /\ \A v \in 1 .. polled : v >= Len(log) - MaxSize =>
            polled - v + Cardinality(Late(v)) < Cardinality(Thread)

\* Fewer threads cannot be more.
LEMMA LateFinite ==
    ASSUME NEW v
    PROVE  /\ IsFiniteSet(Late(v)) /\ Cardinality(Late(v)) \in Nat
           /\ Cardinality(Thread) \in Nat
<1>1. Late(v) \subseteq Thread
    BY DEF Late
<1> QED BY <1>1, StoreAssumption, FS_Subset, FS_CardinalityType

LEMMA LateShrinks ==
    ASSUME NEW v, Late(v)' \subseteq Late(v)
    PROVE  /\ Cardinality(Late(v))' \in Nat /\ Cardinality(Late(v)) \in Nat
           /\ Cardinality(Late(v))' <= Cardinality(Late(v))
<1>1. IsFiniteSet(Late(v)) /\ Cardinality(Late(v)) \in Nat
    BY LateFinite
<1> DEFINE S == Late(v)'
<1>2. S \subseteq Late(v)
    OBVIOUS
<1> HIDE DEF S
<1>3. IsFiniteSet(S) /\ Cardinality(S) <= Cardinality(Late(v))
    BY <1>1, <1>2, FS_Subset
<1>4. Cardinality(S) \in Nat
    BY <1>3, FS_CardinalityType
<1> QED BY <1>1, <1>3, <1>4 DEF S

\* Nothing has been polled at first.
LEMMA PollInit == Init => PollInv
BY DEF Init, PollInv

\* A step that polls nothing keeps it if nobody becomes late.
LEMMA PollKept ==
    ASSUME TypeInv, PollInv, polled' = polled, Len(log') \in Nat, Len(log') >= Len(log),
           \A t \in Thread : polledThen'[t] <= polled',
           \A t \in Thread : pc'[t] = "poll" => Len(log') - polledThen'[t] > MaxSize,
           \A v \in 1 .. polled : Late(v)' \subseteq Late(v)
    PROVE  PollInv'
<1>t. Len(log) \in Nat /\ polled \in Nat /\ MaxSize \in Nat
    BY StoreAssumption DEF TypeInv, TypeOK
<1>1. ASSUME NEW v \in 1 .. polled, v >= Len(log') - MaxSize
      PROVE  polled - v + Cardinality(Late(v))' < Cardinality(Thread)
    <2>1. polled - v + Cardinality(Late(v)) < Cardinality(Thread)
        BY <1>t, <1>1 DEF PollInv
    <2>2. /\ Cardinality(Late(v))' \in Nat /\ Cardinality(Late(v)) \in Nat
          /\ Cardinality(Late(v))' <= Cardinality(Late(v))
        BY LateShrinks
    <2>3. Cardinality(Thread) \in Nat
        BY LateFinite
    <2> QED BY <1>t, <2>1, <2>2, <2>3
<1>2. polled' > 0 => Len(log') > MaxSize
    BY <1>t DEF PollInv
<1> QED BY <1>1, <1>2 DEF PollInv

\* A thread that polls was late, and is not any more.
LEMMA PollNext == TypeInv /\ PollInv /\ [Next]_vars => PollInv'
<1> SUFFICES ASSUME TypeInv, PollInv, [Next]_vars PROVE PollInv'
    OBVIOUS
<1>t. /\ log \in Seq(Message) /\ Len(log) \in Nat /\ polled \in Nat /\ MaxSize \in Nat
      /\ polled <= Len(log)
      /\ pc \in [Thread -> {"idle", "add", "count", "counting", "poll", "remove"}]
      /\ polledThen \in [Thread -> Nat]
    BY StoreAssumption DEF TypeInv, TypeOK
<1>p. /\ \A t \in Thread : polledThen[t] <= polled
      /\ \A t \in Thread : pc[t] = "poll" => Len(log) - polledThen[t] > MaxSize
    BY DEF PollInv
<1>1. ASSUME NEW t \in Thread, NEW q \in {"add", "count", "idle"},
             pc' = [pc EXCEPT ![t] = q], UNCHANGED <<polled, polledThen>>,
             Len(log') \in Nat, Len(log') >= Len(log)
      PROVE  PollInv'
    <2>1. \A v \in 1 .. polled : Late(v)' \subseteq Late(v)
        BY <1>t, <1>1 DEF Late
    <2>2. \A s \in Thread : pc'[s] = "poll" => Len(log') - polledThen'[s] > MaxSize
        BY <1>t, <1>p, <1>1
    <2>3. \A s \in Thread : polledThen'[s] <= polled'
        BY <1>p, <1>1
    <2> QED BY <1>1, <2>1, <2>2, <2>3, PollKept
<1>2. ASSUME NEW t \in Thread, NEW m \in Message, Put(t, m) PROVE PollInv'
    <2>1. pc' = [pc EXCEPT ![t] = "add"] /\ UNCHANGED <<log, polled, polledThen>>
        BY <1>2 DEF Put, Goto, deque
    <2>2. UNCHANGED <<polled, polledThen>> /\ Len(log') \in Nat /\ Len(log') >= Len(log)
        BY <1>t, <2>1
    <2> QED BY <1>1, <2>1, <2>2
<1>3. ASSUME NEW t \in Thread, AddLast(t) PROVE PollInv'
    <2>1. pc' = [pc EXCEPT ![t] = "count"] /\ pc[t] = "add" /\ UNCHANGED <<polled, polledThen>>
        BY <1>3 DEF AddLast, Goto
    <2>2. Len(log') = Len(log) + 1
        BY <1>3, <2>1, AddedLemma DEF TypeInv
    <2>3. Len(log') \in Nat /\ Len(log') >= Len(log)
        BY <1>t, <2>2
    <2> QED BY <1>1, <2>1, <2>3
<1>4. ASSUME NEW t \in Thread, EnterSize(t) PROVE PollInv'
    <2>1. /\ pc' = [pc EXCEPT ![t] = "counting"] /\ pc[t] = "count"
          /\ polledThen' = [polledThen EXCEPT ![t] = polled] /\ UNCHANGED <<log, polled>>
        BY <1>4 DEF EnterSize, Goto, deque
    <2>2. \A v \in 1 .. polled : Late(v)' \subseteq Late(v)
        BY <1>t, <2>1 DEF Late
    <2>3. \A s \in Thread : pc'[s] = "poll" => Len(log') - polledThen'[s] > MaxSize
        BY <1>t, <1>p, <2>1
    <2>4. \A s \in Thread : polledThen'[s] <= polled'
        BY <1>t, <1>p, <2>1
    <2> QED BY <1>t, <2>1, <2>2, <2>3, <2>4, PollKept
<1>5. ASSUME NEW t \in Thread, TooMany(t) PROVE PollInv'
    <2>1. /\ pc' = [pc EXCEPT ![t] = "poll"] /\ pc[t] = "counting"
          /\ Len(log) - polledThen[t] > MaxSize
          /\ UNCHANGED <<log, polled, polledThen>>
        BY <1>5 DEF TooMany, Goto, deque
    <2>2. \A v \in 1 .. polled : Late(v)' \subseteq Late(v)
        BY <1>t, <2>1 DEF Late
    <2>3. \A s \in Thread : pc'[s] = "poll" => Len(log') - polledThen'[s] > MaxSize
        BY <1>t, <1>p, <2>1
    <2>4. \A s \in Thread : polledThen'[s] <= polled'
        BY <1>p, <2>1
    <2> QED BY <1>t, <2>1, <2>2, <2>3, <2>4, PollKept
<1>6. ASSUME NEW t \in Thread, Saved(t) PROVE PollInv'
    <2>1. pc' = [pc EXCEPT ![t] = "idle"] /\ UNCHANGED <<log, polled, polledThen>>
        BY <1>6 DEF Saved, Goto, deque
    <2>2. UNCHANGED <<polled, polledThen>> /\ Len(log') \in Nat /\ Len(log') >= Len(log)
        BY <1>t, <2>1
    <2> QED BY <1>1, <2>1, <2>2
<1>7. ASSUME NEW t \in Thread, Poll(t), Present = {} PROVE PollInv'
    <2>1. pc' = [pc EXCEPT ![t] = "count"] /\ UNCHANGED <<log, polled, polledThen>>
        BY <1>7 DEF Poll, Goto
    <2>2. UNCHANGED <<polled, polledThen>> /\ Len(log') \in Nat /\ Len(log') >= Len(log)
        BY <1>t, <2>1
    <2> QED BY <1>1, <2>1, <2>2
<1>8. ASSUME NEW t \in Thread, Poll(t), Present # {} PROVE PollInv'
    <2>1. /\ pc' = [pc EXCEPT ![t] = "remove"] /\ pc[t] = "poll"
          /\ polled' = polled + 1 /\ UNCHANGED <<log, polledThen>>
        BY <1>8 DEF Poll, Goto
    <2>2. Len(log) - polledThen[t] > MaxSize /\ polledThen[t] \in Nat
        BY <1>t, <1>p, <2>1
    <2>3. /\ \A s \in Thread : polledThen'[s] <= polled'
          /\ \A s \in Thread : pc'[s] = "poll" => Len(log') - polledThen'[s] > MaxSize
          /\ Len(log') > MaxSize
        BY <1>t, <1>p, <2>1, <2>2
    <2>4. ASSUME NEW v \in 1 .. polled', v >= Len(log') - MaxSize
          PROVE  polled' - v + Cardinality(Late(v))' < Cardinality(Thread)
        <3>0. v \in 1 .. polled + 1 /\ v >= Len(log) - MaxSize
            BY <2>1, <2>4
        <3> DEFINE S == Late(v)'
        <3>1. /\ IsFiniteSet(Late(v)) /\ Cardinality(Late(v)) \in Nat
              /\ Cardinality(Thread) \in Nat
            BY LateFinite
        <3>2. /\ IsFiniteSet(Thread)
              /\ Cardinality(Thread \ {t}) = Cardinality(Thread) - 1
            BY StoreAssumption, FS_RemoveElement
        <3>3. CASE v <= polled
            <4>1. t \in Late(v) /\ S \subseteq Late(v) \ {t}
                BY <1>t, <2>1, <2>2, <3>0, <3>3 DEF Late
            <4>2. /\ IsFiniteSet(Late(v) \ {t})
                  /\ Cardinality(Late(v) \ {t}) = Cardinality(Late(v)) - 1
                BY <3>1, <4>1, FS_RemoveElement
            <4> HIDE DEF S
            <4>3. IsFiniteSet(S) /\ Cardinality(S) <= Cardinality(Late(v)) - 1
                BY <4>1, <4>2, FS_Subset
            <4>4. Cardinality(S) \in Nat
                BY <4>3, FS_CardinalityType
            <4>5. polled - v + Cardinality(Late(v)) < Cardinality(Thread)
                BY <3>0, <3>3, <1>t DEF PollInv
            <4>6. polled + 1 - v + Cardinality(S) < Cardinality(Thread)
                BY <1>t, <3>0, <3>1, <4>3, <4>4, <4>5
            <4>7. polled' - v + Cardinality(S) < Cardinality(Thread)
                BY <1>t, <2>1, <3>0, <3>1, <4>4, <4>6
            <4> QED BY <4>7 DEF S
        <3>4. CASE v = polled + 1
            <4>1. S \subseteq Thread \ {t} /\ IsFiniteSet(Thread \ {t})
                BY <1>t, <2>1, <3>2, FS_RemoveElement DEF Late
            <4> HIDE DEF S
            <4>2. IsFiniteSet(S) /\ Cardinality(S) <= Cardinality(Thread) - 1
                BY <3>2, <4>1, FS_Subset
            <4>3. Cardinality(S) \in Nat
                BY <4>2, FS_CardinalityType
            <4>4. polled + 1 - v + Cardinality(S) < Cardinality(Thread)
                BY <1>t, <3>0, <3>1, <3>4, <4>2, <4>3
            <4>5. polled' - v + Cardinality(S) < Cardinality(Thread)
                BY <1>t, <2>1, <3>0, <3>1, <4>3, <4>4
            <4> QED BY <4>5 DEF S
        <3> QED BY <1>t, <3>0, <3>3, <3>4
    <2>5. polled' > 0 => Len(log') > MaxSize
        BY <2>3
    <2> QED BY <2>3, <2>4, <2>5 DEF PollInv
<1>9. ASSUME NEW t \in Thread, RemoveOldest(t) PROVE PollInv'
    <2>1. pc' = [pc EXCEPT ![t] = "count"] /\ UNCHANGED <<log, polled, polledThen>>
        BY <1>9 DEF RemoveOldest, Goto, deque
    <2>2. UNCHANGED <<polled, polledThen>> /\ Len(log') \in Nat /\ Len(log') >= Len(log)
        BY <1>t, <2>1
    <2> QED BY <1>1, <2>1, <2>2
<1>10. CASE Find \/ UNCHANGED vars
    <2>1. UNCHANGED <<log, polled, pc, polledThen>>
        BY <1>10 DEF Find, FindEventsAfter, NextElement, Examine, Return, vars, deque, threads
    <2>2. \A v \in 1 .. polled : Late(v)' \subseteq Late(v)
        BY <2>1 DEF Late
    <2>3. Len(log') \in Nat /\ Len(log') >= Len(log) /\ polled' = polled
        BY <1>t, <2>1
    <2>4. /\ \A s \in Thread : polledThen'[s] <= polled'
          /\ \A s \in Thread : pc'[s] = "poll" => Len(log') - polledThen'[s] > MaxSize
        BY <1>p, <2>1
    <2> QED BY <2>2, <2>3, <2>4, PollKept
<1> QED BY <1>2, <1>3, <1>4, <1>5, <1>6, <1>7, <1>8, <1>9, <1>10 DEF Next, Save

\* A message that is one of the newest would have been polled by more threads than there are.
LEMMA RetainedLemma == TypeInv /\ PollInv => NewestAreRetained
<1> SUFFICES ASSUME TypeInv, PollInv, NEW i \in DOMAIN log,
                    i > Len(log) - (MaxSize + 1 - Cardinality(Thread)), i <= polled
             PROVE  FALSE
    BY DEF NewestAreRetained, Present, TypeInv, TypeOK
<1>1. /\ Len(log) \in Nat /\ polled \in Nat /\ MaxSize \in Nat /\ i \in 1 .. Len(log)
      /\ Cardinality(Thread) \in Nat
    BY StoreAssumption, FS_CardinalityType DEF TypeInv, TypeOK
<1> DEFINE v == Len(log) - MaxSize
<1>2. polled > 0 /\ v > 0 /\ v \in Nat
    BY <1>1 DEF PollInv
<1>3. CASE v <= polled
    <2>1. v \in 1 .. polled /\ v >= Len(log) - MaxSize
        BY <1>1, <1>2, <1>3
    <2>2. polled - v + Cardinality(Late(v)) < Cardinality(Thread)
        BY <2>1 DEF PollInv
    <2>3. Cardinality(Late(v)) \in Nat
        BY LateFinite
    <2> QED BY <1>1, <1>2, <2>2, <2>3
<1>4. CASE v > polled
    BY <1>1, <1>2, <1>4
<1> QED BY <1>1, <1>2, <1>3, <1>4

\* However many threads save at once, no more is removed than one message too many for
\* each thread but one: the newest MAX_SIZE - (threads - 1) stay.
THEOREM NewestRetained == Spec => []NewestAreRetained
BY RetainedLemma, PollInit, PollNext, TypeInvariant, PTL DEF Spec
-----------------------------------------------------------------------------
(* The replay.                                                             *)

\* The first index the loop has not dealt with.
Frontier ==
    IF walking /\ current # 0 THEN current
    ELSE IF walking /\ upcoming # 0 THEN upcoming
    ELSE horizon + 1

\* Between the element at hand and the next one, there is nothing.
GapInv ==
    current # 0 =>
        /\ walking
        /\ upcoming # 0 => \A j \in current + 1 .. upcoming - 1 : j <= polled
        /\ upcoming = 0 => \A j \in current + 1 .. horizon : j <= polled

\* What lies between the event asked for and the frontier is in the result.
ReplayInv ==
    found => \A i, j \in 1 .. Len(log) :
        log[i] = asked /\ i < j /\ j < Frontier /\ j > polled => log[j] \in result

\* No replay is under way at first.
LEMMA ReplayInit == Init => GapInv /\ ReplayInv
BY DEF Init, GapInv, ReplayInv

\* Threads that save put new elements behind the frontier and take elements away that
\* need not be replayed any more.
LEMMA ReplayUnderSave ==
    ASSUME TypeInv, GapInv, ReplayInv, polled' >= polled, polled' \in Nat, UNCHANGED reader,
           \/ log' = log
           \/ /\ Len(log') = Len(log) + 1
              /\ \A i \in 1 .. Len(log) : log'[i] = log[i]
    PROVE  GapInv' /\ ReplayInv'
<1>t. /\ Len(log) \in Nat /\ polled \in Nat
      /\ current \in Nat /\ upcoming \in Nat /\ horizon \in Nat
      /\ current <= Len(log) /\ upcoming <= Len(log) /\ horizon <= Len(log)
    BY DEF TypeInv, TypeOK
<1>1. /\ UNCHANGED <<walking, asked, current, upcoming, found, result, horizon>>
    BY DEF reader
<1>2. GapInv'
    BY SMTT(20), <1>t, <1>1 DEF GapInv
<1>3. Frontier' = Frontier /\ Frontier \in Nat /\ Frontier <= Len(log) + 1
    BY <1>t, <1>1 DEF Frontier
<1>4. ASSUME found', NEW i \in 1 .. Len(log'), NEW j \in 1 .. Len(log'),
             log'[i] = asked', i < j, j < Frontier', j > polled'
      PROVE  log'[j] \in result'
    <2>1. i \in 1 .. Len(log) /\ j \in 1 .. Len(log) /\ j > polled
        BY <1>t, <1>3, <1>4
    <2>2. log'[i] = log[i] /\ log'[j] = log[j]
        BY <2>1
    <2> QED BY <1>1, <1>3, <1>4, <2>1, <2>2 DEF ReplayInv
<1> QED BY <1>2, <1>4 DEF ReplayInv

\* The loop itself adds every message it passes once the event has been found.
LEMMA ReplayNext ==
    TypeInv /\ IdInv /\ GapInv /\ ReplayInv /\ [Next]_vars => GapInv' /\ ReplayInv'
<1> SUFFICES ASSUME TypeInv, IdInv, GapInv, ReplayInv, [Next]_vars
             PROVE  GapInv' /\ ReplayInv'
    OBVIOUS
<1>t. /\ TypeOK /\ Len(log) \in Nat /\ polled \in Nat
      /\ current \in Nat /\ upcoming \in Nat /\ horizon \in Nat
      /\ current <= Len(log) /\ upcoming <= Len(log) /\ horizon <= Len(log)
    BY DEF TypeInv, TypeOK
<1>1. ASSUME NEW t \in Thread, AddLast(t) PROVE GapInv' /\ ReplayInv'
    <2>1. mine[t] \in Message
        BY <1>1 DEF AddLast, TypeInv
    <2>2. Len(log') = Len(log) + 1 /\ \A i \in 1 .. Len(log) : log'[i] = log[i]
        BY <1>1, <1>t, <2>1, AddedLemma
    <2>3. polled' = polled /\ UNCHANGED reader
        BY <1>1 DEF AddLast
    <2>4. polled' >= polled /\ polled' \in Nat
        BY <1>t, <2>3
    <2> QED BY <2>2, <2>3, <2>4, ReplayUnderSave
<1>2. ASSUME NEW t \in Thread, Save(t), ~AddLast(t) PROVE GapInv' /\ ReplayInv'
    <2>1. log' = log /\ UNCHANGED reader /\ (polled' = polled \/ polled' = polled + 1)
        BY <1>2 DEF Save, Put, EnterSize, TooMany, Saved, Poll, RemoveOldest, deque
    <2>2. polled' >= polled /\ polled' \in Nat
        BY <1>t, <2>1
    <2> QED BY <2>1, <2>2, ReplayUnderSave
<1>3. CASE FindEventsAfter
    BY <1>3 DEF FindEventsAfter, GapInv, ReplayInv
<1>4. CASE NextElement
    <2>1. /\ walking /\ current = 0 /\ upcoming # 0 /\ current' = upcoming
          /\ UNCHANGED <<log, polled, walking, asked, found, result, horizon>>
          /\ Advance(upcoming)
        BY <1>4 DEF NextElement, deque
    <2>2. /\ upcoming' # 0 => \A j \in upcoming + 1 .. upcoming' - 1 : j <= polled
          /\ upcoming' = 0 => \A j \in upcoming + 1 .. Len(log) : j <= polled
        BY <1>t, <2>1, AdvanceLemma
    <2>3. GapInv'
        BY <1>t, <2>1, <2>2 DEF GapInv
    <2>4. Frontier' = Frontier
        BY <2>1 DEF Frontier
    <2> QED BY <2>1, <2>3, <2>4 DEF ReplayInv
<1>5. CASE Examine
    <2>1. /\ current # 0 /\ current' = 0 /\ walking /\ walking' = walking
          /\ UNCHANGED <<log, polled, asked, upcoming, horizon>>
        BY <1>5 DEF Examine, deque, GapInv
    <2>2. /\ found' = (found \/ log[current] = asked)
          /\ found => result' = result \union ({log[current]} \intersect messages)
        BY <1>5 DEF Examine
    <2>3. ASSUME found', NEW i \in 1 .. Len(log), NEW j \in 1 .. Len(log),
                 log[i] = asked, i < j, j < Frontier', j > polled
          PROVE  log[j] \in result'
        <3>1. j <= current
            <4>1. CASE upcoming # 0
                BY <1>t, <2>1, <2>3, <4>1 DEF Frontier, GapInv
            <4>2. CASE upcoming = 0
                BY SMTT(20), <1>t, <2>1, <2>3, <4>2 DEF Frontier, GapInv
            <4> QED BY <4>1, <4>2
        <3>2. found
            <4>1. i # current
                BY <1>t, <2>3, <3>1
            <4>2. log[current] # asked
                BY <1>t, <2>1, <2>3, <4>1 DEF IdInv
            <4> QED BY <2>2, <2>3, <4>2
        <3>3. CASE j = current
            <4>1. log[j] \in messages
                BY <1>t, <2>3 DEF IdInv
            <4> QED BY <2>2, <3>2, <3>3, <4>1
        <3>4. CASE j # current
            <4>1. j < Frontier
                BY <1>t, <2>1, <3>1, <3>4 DEF Frontier
            <4>2. log[j] \in result
                BY <2>3, <3>2, <4>1 DEF ReplayInv
            <4> QED BY <2>2, <3>2, <4>2
        <3> QED BY <3>3, <3>4
    <2>4. GapInv'
        BY <2>1 DEF GapInv
    <2>5. log' = log /\ polled' = polled /\ asked' = asked
        BY <2>1
    <2> QED BY <2>3, <2>4, <2>5 DEF ReplayInv
<1>6. CASE Return
    <2>1. /\ walking /\ current = 0 /\ upcoming = 0
          /\ UNCHANGED <<log, polled, asked, current, upcoming, found, result, horizon>>
        BY <1>6 DEF Return, deque
    <2>2. Frontier' = Frontier
        BY <2>1 DEF Frontier
    <2> QED BY <2>1, <2>2 DEF GapInv, ReplayInv
<1>7. CASE UNCHANGED vars
    BY <1>7 DEF vars, deque, reader, GapInv, ReplayInv, Frontier
<1> QED BY <1>1, <1>2, <1>3, <1>4, <1>5, <1>6, <1>7 DEF Next, Find

\* A replay that came across the client's last event returns everything after it that was
\* there at the call and still is, whatever threads save and remove meanwhile.
THEOREM ReplayComplete == Spec => []FoundIsReplayed
<1>1. TypeInv /\ GapInv /\ ReplayInv => FoundIsReplayed
    <2> SUFFICES ASSUME TypeInv, GapInv, ReplayInv, ~walking, found,
                        NEW i \in DOMAIN log, NEW j \in Present,
                        log[i] = asked, i < j, j <= horizon
                 PROVE  log[j] \in result
        BY DEF FoundIsReplayed
    <2>1. /\ i \in 1 .. Len(log) /\ j \in 1 .. Len(log) /\ j > polled
          /\ horizon \in Nat
        BY DEF Present, TypeInv, TypeOK
    <2>2. j < Frontier
        BY <2>1 DEF Frontier
    <2> QED BY <2>1, <2>2 DEF ReplayInv
<1> QED BY <1>1, ReplayInit, ReplayNext, IdInvariant, TypeInvariant, PTL DEF Spec
-----------------------------------------------------------------------------
(* The log that the repository implements.                                 *)

\* A replay asks by the p-th message and has dealt with all that comes before index f: what
\* it has is what came between them, and what it does not have of that has been polled.
Answering(p, f) ==
    /\ log[p] = asked
    /\ current # 0 => f = current
    /\ current = 0 /\ upcoming # 0 => f = upcoming
    /\ current = 0 /\ upcoming = 0 => f > horizon
    /\ current # 0 /\ upcoming # 0 => current < upcoming
    /\ \/ /\ found /\ p < f
          /\ \A m \in result : \E j \in p + 1 .. f - 1 : log[j] = m
          /\ \A j \in p + 1 .. f - 1 : j > polled => log[j] \in result
       \/ /\ ~found /\ result = {}
          /\ p > polled => p >= f

AnswerInv ==
    walking => \E p \in 1 .. horizon, f \in 1 .. Len(log) + 1 : Answering(p, f)

\* No replay is under way at first.
LEMMA AnswerInit == Init => AnswerInv
BY DEF Init, AnswerInv

\* What is added comes behind, and what is polled is not missed.
LEMMA AnswerUnderSave ==
    ASSUME TypeInv, AnswerInv, polled' >= polled, polled' \in Nat, UNCHANGED reader,
           \/ log' = log
           \/ /\ Len(log') = Len(log) + 1
              /\ \A i \in 1 .. Len(log) : log'[i] = log[i]
    PROVE  AnswerInv'
<1>t. Len(log) \in Nat /\ polled \in Nat /\ horizon \in Nat /\ horizon <= Len(log)
    BY DEF TypeInv, TypeOK
<1>1. UNCHANGED <<walking, asked, current, upcoming, found, result, horizon>>
    BY DEF reader
<1>2. SUFFICES ASSUME walking PROVE AnswerInv'
    BY <1>1 DEF AnswerInv
<1>3. PICK p \in 1 .. horizon, f \in 1 .. Len(log) + 1 : Answering(p, f)
    BY <1>2 DEF AnswerInv
<1>4. /\ Len(log') \in Nat /\ f \in 1 .. Len(log') + 1
      /\ \A i \in 1 .. Len(log) : log'[i] = log[i]
    BY <1>t
<1>5. /\ log'[p] = asked /\ \A j \in p + 1 .. f - 1 : log'[j] = log[j]
    BY <1>t, <1>3, <1>4 DEF Answering
<1>6. Answering(p, f)'
    BY <1>t, <1>1, <1>3, <1>5 DEF Answering
<1> QED BY <1>1, <1>3, <1>4, <1>6 DEF AnswerInv

\* The body of the loop deals with one element.
LEMMA AnswerExamine ==
    ASSUME TypeInv, IdInv, GapInv, AnswerInv, Examine
    PROVE  AnswerInv'
<1>t. /\ Len(log) \in Nat /\ polled \in Nat /\ log \in Seq(Message)
      /\ current \in Nat /\ upcoming \in Nat /\ horizon \in Nat /\ found \in BOOLEAN
      /\ current <= Len(log) /\ upcoming <= Len(log) /\ horizon <= Len(log)
    BY DEF TypeInv, TypeOK
<1>1. /\ current # 0 /\ current' = 0 /\ walking
      /\ UNCHANGED <<log, polled, walking, asked, upcoming, horizon>>
    BY DEF Examine, deque, GapInv
<1>2. /\ found' = (found \/ log[current] = asked)
      /\ result' = IF found THEN result \union ({log[current]} \intersect messages)
                   ELSE result
    BY DEF Examine
<1>3. PICK p \in 1 .. horizon, f \in 1 .. Len(log) + 1 : Answering(p, f)
    BY <1>1 DEF AnswerInv
<1>4. /\ log[p] = asked /\ f = current /\ p \in 1 .. Len(log) /\ current \in 1 .. Len(log)
      /\ upcoming # 0 => current < upcoming
    BY <1>t, <1>1, <1>3 DEF Answering
<1>5. PICK g \in 1 .. Len(log) + 1 :
             /\ g > current
             /\ \A j \in current + 1 .. g - 1 : j <= polled
             /\ upcoming # 0 => g = upcoming
             /\ upcoming = 0 => g > horizon
    <2>1. CASE upcoming # 0
        <3>1. \A j \in current + 1 .. upcoming - 1 : j <= polled
            BY <1>1, <2>1 DEF GapInv
        <3> QED BY <1>t, <1>4, <2>1, <3>1
    <2>2. CASE upcoming = 0 /\ current > horizon
        <3>1. current + 1 \in 1 .. Len(log) + 1 /\ \A j \in current + 1 .. current : FALSE
            BY <1>t, <1>4
        <3> QED BY <1>t, <2>2, <3>1
    <2>3. CASE upcoming = 0 /\ current <= horizon
        <3>1. \A j \in current + 1 .. horizon : j <= polled
            BY <1>1, <2>3 DEF GapInv
        <3>2. horizon + 1 \in 1 .. Len(log) + 1 /\ (horizon + 1) - 1 = horizon
            BY <1>t
        <3> QED BY <1>t, <2>3, <3>1, <3>2
    <2> QED BY <1>t, <2>1, <2>2, <2>3
<1>6. CASE found
    <2>1. /\ p < current
          /\ \A m \in result : \E j \in p + 1 .. current - 1 : log[j] = m
          /\ \A j \in p + 1 .. current - 1 : j > polled => log[j] \in result
        BY <1>3, <1>4, <1>6 DEF Answering
    <2>2. found' /\ p < g
        <3>1. found'
            BY <1>2, <1>6
        <3>2. p < g
            BY <1>t, <1>4, <1>5, <2>1
        <3> QED BY <3>1, <3>2
    <2>3. ASSUME NEW m \in result'
          PROVE  \E j \in p + 1 .. g - 1 : log[j] = m
        BY <1>t, <1>2, <1>4, <1>5, <1>6, <2>1, <2>3
    <2>4. ASSUME NEW j \in p + 1 .. g - 1, j > polled
          PROVE  log[j] \in result'
        <3>1. j <= current
            BY <1>t, <1>5, <2>4
        <3>2. CASE j = current
            <4>1. log[j] \in messages
                BY <1>t, <1>4, <2>4, <3>2 DEF IdInv
            <4> QED BY <1>2, <1>6, <3>2, <4>1
        <3>3. CASE j # current
            <4>1. j \in p + 1 .. current - 1
                BY <1>t, <1>4, <2>4, <3>1, <3>3
            <4> QED BY <1>2, <1>6, <2>1, <2>4, <4>1
        <3> QED BY <3>2, <3>3
    <2>5. Answering(p, g)'
        BY <1>1, <1>4, <1>5, <2>2, <2>3, <2>4 DEF Answering
    <2> QED BY <1>1, <1>3, <1>5, <2>5 DEF AnswerInv
<1>7. CASE ~found
    <2>1. result = {} /\ result' = {} /\ (p > polled => p >= current)
        BY <1>2, <1>3, <1>4, <1>7 DEF Answering
    <2>2. CASE log[current] = asked
        <3>1. current = p
            BY <1>4, <2>2 DEF IdInv
        <3>2. /\ found' /\ p < g
              /\ \A j \in p + 1 .. g - 1 : j <= polled
            BY <1>2, <1>5, <2>2, <3>1
        <3>3. \A j \in p + 1 .. g - 1 : ~(j > polled)
            BY <1>t, <3>2
        <3>4. Answering(p, g)'
            BY <1>1, <1>4, <1>5, <2>1, <3>2, <3>3 DEF Answering
        <3> QED BY <1>1, <1>3, <1>5, <3>4 DEF AnswerInv
    <2>3. CASE log[current] # asked
        <3>1. ~found' /\ current # p
            BY <1>2, <1>4, <1>7, <2>3
        <3>2. ASSUME p > polled PROVE p >= g
            <4>1. p > current
                BY <1>t, <1>4, <2>1, <3>1, <3>2
            <4>2. p \notin current + 1 .. g - 1
                BY <1>t, <1>5, <3>2
            <4> QED BY <1>t, <1>4, <1>5, <4>1, <4>2
        <3>3. Answering(p, g)'
            BY <1>1, <1>4, <1>5, <2>1, <3>1, <3>2 DEF Answering
        <3> QED BY <1>1, <1>3, <1>5, <3>3 DEF AnswerInv
    <2> QED BY <2>2, <2>3
<1> QED BY <1>6, <1>7

\* Every step keeps it.
LEMMA AnswerNext ==
    TypeInv /\ IdInv /\ GapInv /\ AnswerInv /\ [Next]_vars => AnswerInv'
<1> SUFFICES ASSUME TypeInv, IdInv, GapInv, AnswerInv, [Next]_vars
             PROVE  AnswerInv'
    OBVIOUS
<1>t. /\ TypeOK /\ Len(log) \in Nat /\ polled \in Nat
      /\ current \in Nat /\ upcoming \in Nat /\ horizon \in Nat
      /\ upcoming <= Len(log) /\ horizon <= Len(log)
    BY DEF TypeInv, TypeOK
<1>1. ASSUME NEW t \in Thread, AddLast(t) PROVE AnswerInv'
    <2>1. mine[t] \in Message
        BY <1>1 DEF AddLast, TypeInv
    <2>2. Len(log') = Len(log) + 1 /\ \A i \in 1 .. Len(log) : log'[i] = log[i]
        BY <1>1, <1>t, <2>1, AddedLemma
    <2>3. polled' = polled /\ UNCHANGED reader
        BY <1>1 DEF AddLast
    <2>4. polled' >= polled /\ polled' \in Nat
        BY <1>t, <2>3
    <2> QED BY <2>2, <2>3, <2>4, AnswerUnderSave
<1>2. ASSUME NEW t \in Thread, Save(t), ~AddLast(t) PROVE AnswerInv'
    <2>1. log' = log /\ UNCHANGED reader /\ (polled' = polled \/ polled' = polled + 1)
        BY <1>2 DEF Save, Put, EnterSize, TooMany, Saved, Poll, RemoveOldest, deque
    <2>2. polled' >= polled /\ polled' \in Nat
        BY <1>t, <2>1
    <2> QED BY <2>1, <2>2, AnswerUnderSave
<1>3. CASE FindEventsAfter
    <2>1. /\ walking' /\ current' = 0 /\ ~found' /\ result' = {} /\ horizon' = Len(log)
          /\ UNCHANGED <<log, polled>> /\ Advance(0)
        BY <1>3 DEF FindEventsAfter, deque
    <2>2. PICK p \in 1 .. Len(log) : log[p] = asked'
        BY <1>t, <1>3 DEF FindEventsAfter, TypeOK
    <2>3. /\ upcoming' \in Nat /\ upcoming' <= Len(log)
          /\ upcoming' # 0 => \A j \in 1 .. upcoming' - 1 : j <= polled
          /\ upcoming' = 0 => \A j \in 1 .. Len(log) : j <= polled
        BY <1>t, <2>1, AdvanceLemma
    <2>4. PICK f \in 1 .. Len(log) + 1 :
                /\ upcoming' # 0 => f = upcoming'
                /\ upcoming' = 0 => f > Len(log)
                /\ \A j \in 1 .. f - 1 : j <= polled
        <3>1. CASE upcoming' # 0
            <4>1. upcoming' \in 1 .. Len(log) + 1
                BY <1>t, <2>3, <3>1
            <4>2. \A j \in 1 .. upcoming' - 1 : j <= polled
                BY <2>3, <3>1
            <4> QED BY <3>1, <4>1, <4>2
        <3>2. CASE upcoming' = 0
            <4>1. Len(log) + 1 \in 1 .. Len(log) + 1 /\ (Len(log) + 1) - 1 = Len(log)
                BY <1>t
            <4> QED BY <1>t, <2>3, <3>2, <4>1
        <3> QED BY <3>1, <3>2
    <2>5. p > polled => p >= f
        BY <1>t, <2>4
    <2>6. Answering(p, f)'
        BY <2>1, <2>2, <2>4, <2>5 DEF Answering
    <2> QED BY <2>1, <2>6 DEF AnswerInv
<1>4. CASE NextElement
    <2>1. /\ walking /\ current = 0 /\ upcoming # 0 /\ current' = upcoming
          /\ UNCHANGED <<log, polled, walking, asked, found, result, horizon>>
          /\ Advance(upcoming)
        BY <1>4 DEF NextElement, deque
    <2>2. upcoming' # 0 => upcoming' > upcoming
        BY <1>t, <2>1, AdvanceLemma
    <2>3. PICK p \in 1 .. horizon, f \in 1 .. Len(log) + 1 : Answering(p, f)
        BY <2>1 DEF AnswerInv
    <2>4. Answering(p, f)'
        BY <2>1, <2>2, <2>3 DEF Answering
    <2> QED BY <2>1, <2>3, <2>4 DEF AnswerInv
<1>5. CASE Examine
    BY <1>5, AnswerExamine
<1>6. CASE Return
    BY <1>6 DEF Return, AnswerInv
<1>7. CASE UNCHANGED vars
    BY <1>7 DEF vars, deque, reader, AnswerInv, Answering
<1> QED BY <1>1, <1>2, <1>3, <1>4, <1>5, <1>6, <1>7 DEF Next, Find

\* A thread that neither begins nor ends to add leaves what is about to be saved.
LEMMA SavingSame ==
    ASSUME NEW t \in Thread, NEW S, pc \in [Thread -> S], NEW p, Goto(t, p),
           pc[t] # "add", p # "add", \A s \in Thread \ {t} : mine'[s] = mine[s]
    PROVE  [s \in Thread |-> IF pc[s] = "add" THEN mine[s] ELSE NoMessage]'
             = [s \in Thread |-> IF pc[s] = "add" THEN mine[s] ELSE NoMessage]
BY DEF Goto

\* Every step of the repository is one of the log, or none.
LEMMA LogStep ==
    TypeInv /\ IdInv /\ PollInv /\ NewestAreRetained' /\ PollInv' /\ TypeInv' /\ GapInv
        /\ AnswerInv /\ [Next]_vars
    => [Abstract!Next]_(Abstract!vars)
<1> SUFFICES ASSUME TypeInv, IdInv, NewestAreRetained', PollInv', TypeInv', GapInv, AnswerInv,
                    [Next]_vars
             PROVE  Abstract!Next \/ UNCHANGED Abstract!vars
    OBVIOUS
<1>t. /\ log \in Seq(Message) /\ Len(log) \in Nat /\ polled \in Nat /\ polled <= Len(log)
      /\ DOMAIN log = 1 .. Len(log)
      /\ pc \in [Thread -> {"idle", "add", "count", "counting", "poll", "remove"}]
      /\ mine \in [Thread -> Message \union {NoMessage}]
      /\ horizon \in Nat /\ horizon <= Len(log)
    BY DEF TypeInv, TypeOK
<1>n. Abstract!NoMessage = NoMessage /\ NoMessage \notin Message
    BY StoreAssumption DEF Abstract!NoMessage, NoMessage
<1> DEFINE saving == [s \in Thread |-> IF pc[s] = "add" THEN mine[s] ELSE NoMessage]
           asking == IF walking THEN asked ELSE NoMessage
           answer == IF walking THEN {} ELSE result
<1>s. ASSUME UNCHANGED <<log, polled, saving, asking, horizon, answer>>
      PROVE  UNCHANGED Abstract!vars
    BY <1>s DEF Abstract!vars
<1>r. ASSUME UNCHANGED reader PROVE UNCHANGED <<asking, horizon, answer>>
    BY <1>r DEF reader
<1>1. ASSUME NEW t \in Thread, NEW m \in Message, Put(t, m) PROVE Abstract!Next
    <2>1. /\ pc[t] = "idle" /\ pc' = [pc EXCEPT ![t] = "add"] /\ mine' = [mine EXCEPT ![t] = m]
          /\ UNCHANGED <<log, polled>> /\ UNCHANGED <<asking, horizon, answer>>
        BY <1>1, <1>r DEF Put, Goto, deque
    <2>2. saving[t] = NoMessage /\ saving' = [saving EXCEPT ![t] = m]
        BY <1>t, <2>1
    <2>3. Abstract!Accept(t, m)
        BY <1>n, <2>1, <2>2 DEF Abstract!Accept
    <2> QED BY <2>3 DEF Abstract!Next
<1>2. ASSUME NEW t \in Thread, AddLast(t) PROVE Abstract!Next
    <2>1. /\ pc[t] = "add" /\ pc' = [pc EXCEPT ![t] = "count"] /\ mine' = mine
          /\ log' = Append(log, mine[t])
          /\ UNCHANGED polled /\ UNCHANGED <<asking, horizon, answer>>
        BY <1>2, <1>r DEF AddLast, Goto
    <2>2. mine[t] \in Message /\ \A i \in DOMAIN log : log[i] # mine[t]
        BY <1>t, <2>1 DEF TypeInv, IdInv
    <2>3. saving[t] = mine[t] /\ saving' = [saving EXCEPT ![t] = NoMessage]
        BY <1>t, <2>1
    <2>4. Abstract!Save(t)
        BY <1>n, <2>1, <2>2, <2>3 DEF Abstract!Save
    <2> QED BY <2>4 DEF Abstract!Next
<1>3. ASSUME NEW t \in Thread, EnterSize(t) \/ TooMany(t) \/ Saved(t) \/ RemoveOldest(t)
      PROVE  UNCHANGED Abstract!vars
    <2>1. /\ UNCHANGED <<log, polled>> /\ UNCHANGED reader /\ pc[t] # "add"
          /\ \E p \in {"counting", "poll", "idle", "count"} : Goto(t, p)
        BY <1>3 DEF EnterSize, TooMany, Saved, RemoveOldest, deque
    <2>2. \A s \in Thread \ {t} : mine'[s] = mine[s]
        BY <1>3, <1>t DEF EnterSize, TooMany, Saved, RemoveOldest
    <2>3. UNCHANGED saving
        BY <1>t, <2>1, <2>2, SavingSame
    <2> QED BY <1>s, <1>r, <2>1, <2>3
<1>4. ASSUME NEW t \in Thread, Poll(t) PROVE Abstract!Next \/ UNCHANGED Abstract!vars
    <2>1. /\ log' = log /\ mine' = mine /\ UNCHANGED reader /\ pc[t] # "add"
          /\ \E p \in {"count", "remove"} : Goto(t, p)
        BY <1>4 DEF Poll
    <2>2. UNCHANGED saving
        BY <1>t, <2>1, SavingSame
    <2>3. CASE Present = {}
        <3>1. polled' = polled
            BY <1>4, <2>3 DEF Poll
        <3> QED BY <1>s, <1>r, <2>1, <2>2, <3>1
    <2>4. CASE Present # {}
        <3>1. polled' = polled + 1 /\ polled + 1 \in 1 .. Len(log) /\ polled < Len(log)
            BY <1>4, <1>t, <2>4 DEF Poll, Present
        <3>2. Len(log) > MaxSize
            BY <1>t, <2>1, <3>1 DEF PollInv
        <3>3. ~(polled + 1 > Len(log) - (MaxSize + 1 - Cardinality(Thread)))
            BY <1>t, <2>1, <3>1 DEF NewestAreRetained, Present
        <3>4. Cardinality(Thread) \in Nat /\ MaxSize \in Nat
            BY StoreAssumption, FS_CardinalityType
        <3>5. polled < Len(log) - (MaxSize + 1 - Cardinality(Thread))
            BY <1>t, <3>3, <3>4
        <3>6. Abstract!Forget
            BY <1>r, <2>1, <2>2, <3>1, <3>2, <3>5 DEF Abstract!Forget
        <3> QED BY <3>6 DEF Abstract!Next
    <2> QED BY <2>3, <2>4
<1>5. CASE FindEventsAfter
    <2>1. /\ ~walking /\ walking' = TRUE /\ asked' \in {log[i] : i \in DOMAIN log}
          /\ result' = {} /\ horizon' = Len(log)
          /\ UNCHANGED <<log, polled>> /\ UNCHANGED <<pc, mine>>
        BY <1>5 DEF FindEventsAfter, deque, threads
    <2>2. asking = NoMessage /\ asking' = asked' /\ answer' = {} /\ UNCHANGED saving
        BY <2>1
    <2>3. Abstract!Ask
        BY <1>n, <2>1, <2>2 DEF Abstract!Ask
    <2> QED BY <2>3 DEF Abstract!Next
<1>6. CASE NextElement \/ Examine
    <2>1. /\ walking /\ walking' = walking /\ UNCHANGED <<log, polled, pc, mine, asked, horizon>>
        BY <1>6 DEF NextElement, Examine, GapInv, deque, threads
    <2>2. UNCHANGED <<saving, asking, answer>>
        BY <2>1
    <2> QED BY <1>s, <2>1, <2>2
<1>7. CASE Return
    <2>1. /\ walking /\ current = 0 /\ upcoming = 0 /\ walking' = FALSE
          /\ UNCHANGED <<log, polled, pc, mine, asked, horizon, result>>
        BY <1>7 DEF Return, deque, threads
    <2>2. PICK p \in 1 .. horizon, f \in 1 .. Len(log) + 1 : Answering(p, f)
        BY <2>1 DEF AnswerInv
    <2>3. /\ asking = asked /\ asked \in Message /\ asking' = NoMessage /\ answer' = result
          /\ UNCHANGED saving
        BY <2>1 DEF TypeInv
    <2>4. /\ p \in DOMAIN log /\ log[p] = asked /\ f > horizon
        BY <1>t, <2>1, <2>2 DEF Answering
    <2>5. CASE found
        <3>1. /\ \A m \in result : \E j \in p + 1 .. f - 1 : log[j] = m
              /\ \A j \in p + 1 .. f - 1 : j > polled => log[j] \in result
            BY <2>2, <2>5 DEF Answering
        <3>2. f - 1 \in horizon .. Len(log)
            BY <1>t, <2>4
        <3>3. result \in SUBSET {log[i] : i \in p + 1 .. f - 1}
            BY <3>1
        <3>4. {log[i] : i \in (polled + 1 .. Len(log)) \intersect (p + 1 .. f - 1)} \subseteq result
            BY <1>t, <3>1
        <3>5. Abstract!After(p)
            BY <2>3, <3>2, <3>3, <3>4 DEF Abstract!After, Abstract!Kept
        <3>6. Abstract!Answer
            BY <1>n, <2>1, <2>3, <2>4, <3>5 DEF Abstract!Answer
        <3> QED BY <3>6 DEF Abstract!Next
    <2>6. CASE ~found
        <3>1. result = {} /\ (p > polled => p >= f)
            BY <2>2, <2>6 DEF Answering
        <3>2. p \notin polled + 1 .. Len(log)
            BY <1>t, <2>4, <3>1
        <3>3. Abstract!Nothing(p)
            BY <2>3, <3>1, <3>2 DEF Abstract!Nothing, Abstract!Kept
        <3>4. Abstract!Answer
            BY <1>n, <2>1, <2>3, <2>4, <3>3 DEF Abstract!Answer
        <3> QED BY <3>4 DEF Abstract!Next
    <2> QED BY <2>5, <2>6
<1>8. CASE UNCHANGED vars
    <2>1. UNCHANGED <<log, polled, pc, mine, walking, asked, result, horizon>>
        BY <1>8 DEF vars, deque, threads, reader
    <2>2. UNCHANGED <<saving, asking, answer>>
        BY <2>1
    <2> QED BY <1>s, <2>1, <2>2
<1> QED BY <1>1, <1>2, <1>3, <1>4, <1>5, <1>6, <1>7, <1>8 DEF Next, Save, Find

\* Whoever calls the repository sees a log: deque, map, counting threads and iterator are
\* details, for any number of threads, messages and any limit.
THEOREM ImplementsLog == Spec => LogSpec
<1>1. Init => Abstract!Init
    BY DEF Init, Abstract!Init, Abstract!NoMessage, NoMessage
<1>2. TypeInv /\ PollInv => NewestAreRetained
    BY RetainedLemma
<1> QED BY <1>1, <1>2, TypeInit, TypeNext, IdInit, IdNext, PollInit, PollNext, ReplayInit,
           ReplayNext, AnswerInit, AnswerNext, LogStep, PTL
        DEF Spec, LogSpec, Abstract!Spec
=============================================================================
