---------------------- MODULE RedisJwtRegistryProofs ----------------------
(***************************************************************************)
(* Proofs about RedisJwtRegistry, for every value of its constants.        *)
(***************************************************************************)
EXTENDS RedisJwtRegistry, SequenceTheorems, FiniteSetTheorems, TLAPS

-----------------------------------------------------------------------------
(* What is done to a list: its type and its length.                        *)

\* Appending keeps the type and adds one to the length.
LEMMA AppendLemma ==
    ASSUME NEW S, NEW q \in Seq(S), NEW x \in S
    PROVE  Append(q, x) \in Seq(S) /\ Len(Append(q, x)) = Len(q) + 1
OBVIOUS

\* Overwriting an entry keeps the type and the length.
LEMMA SetAtLemma ==
    ASSUME NEW S, NEW q \in Seq(S), NEW i \in Nat, NEW x \in S
    PROVE  /\ [q EXCEPT ![i] = x] \in Seq(S)
           /\ Len([q EXCEPT ![i] = x]) = Len(q)
<1> DEFINE r == [q EXCEPT ![i] = x]
<1>1. Len(q) \in Nat /\ q \in [1 .. Len(q) -> S]
    OBVIOUS
<1>2. r \in [1 .. Len(q) -> S]
    BY <1>1
<1>3. \A n \in Nat : \A f \in [1 .. n -> S] : f \in Seq(S) /\ Len(f) = n
    OBVIOUS
<1> HIDE DEF r
<1> QED BY <1>1, <1>2, <1>3

\* Removing one position gives a shorter sequence of the same elements, or fewer.
LEMMA RemoveAtLemma ==
    ASSUME NEW S, NEW q \in Seq(S), NEW i \in DOMAIN q
    PROVE  RemoveAt(q, i) \in Seq(S) /\ Len(RemoveAt(q, i)) = Len(q) - 1
<1> DEFINE a == SubSeq(q, 1, i - 1)
           b == SubSeq(q, i + 1, Len(q))
<1>1. Len(q) \in Nat /\ i \in 1 .. Len(q) /\ \A j \in 1 .. Len(q) : q[j] \in S
    OBVIOUS
<1>2. a \in Seq(S) /\ Len(a) = i - 1
    BY <1>1, SubSeqProperties
<1>3. b \in Seq(S) /\ Len(b) = Len(q) - i
    BY <1>1, SubSeqProperties
<1>4. RemoveAt(q, i) = a \o b
    BY DEF RemoveAt
<1> HIDE DEF a, b
<1> QED BY <1>1, <1>2, <1>3, <1>4, ConcatProperties

\* A set of naturals that is not empty has a least element.
LEMMA LeastLemma ==
    ASSUME NEW T, T \subseteq Nat, T # {}
    PROVE  Min(T) \in T /\ \A y \in T : Min(T) <= y
<1> DEFINE R == {ss \in Nat \X Nat : ss[1] < ss[2]}
<1>1. IsWellFoundedOn(R, Nat)
    BY NatLessThanWellFounded DEF OpToRel
<1>2. \E x \in T : \A y \in T : ~(<<y, x>> \in R)
    <2> HIDE DEF R
    <2> QED BY <1>1, WFMin
<1>3. PICK x \in T : \A y \in T : ~(<<y, x>> \in R)
    BY <1>2
<1>4. \A y \in T : x <= y
    <2> SUFFICES ASSUME NEW y \in T, ~(x <= y) PROVE FALSE
        OBVIOUS
    <2>1. x \in Nat /\ y \in Nat /\ y < x
        OBVIOUS
    <2>2. <<y, x>> \in Nat \X Nat /\ <<y, x>>[1] < <<y, x>>[2]
        BY <2>1
    <2>3. <<y, x>> \in R
        BY <2>2
    <2> QED BY <1>3, <2>3
<1> QED BY <1>4 DEF Min

\* The first index of an element, as SelectInSeq finds it, is one of its indices.
LEMMA FirstIndexLemma ==
    ASSUME NEW S, NEW q \in Seq(S), NEW x, x \in Range(q)
    PROVE  /\ {i \in 1 .. Len(q) : q[i] = x} # {}
           /\ Min({i \in 1 .. Len(q) : q[i] = x}) \in 1 .. Len(q)
           /\ q[Min({i \in 1 .. Len(q) : q[i] = x})] = x
<1> DEFINE I == {i \in 1 .. Len(q) : q[i] = x}
<1>1. I # {} /\ I \subseteq Nat
    BY DEF Range
<1>2. Min(I) \in I
    <2> HIDE DEF I
    <2> QED BY <1>1, LeastLemma
<1> QED BY <1>1, <1>2

\* Removing the first occurrence of an element, if there is one.
LEMMA RemoveFirstLemma ==
    ASSUME NEW S, NEW q \in Seq(S), NEW x
    PROVE  RemoveFirst(q, x) \in Seq(S) /\ Len(RemoveFirst(q, x)) <= Len(q)
<1> DEFINE I == {i \in 1 .. Len(q) : q[i] = x}
<1>1. CASE x \in Range(q)
    <2>1. I # {} /\ Min(I) \in DOMAIN q
        BY <1>1, FirstIndexLemma
    <2>2. RemoveFirst(q, x) = RemoveAt(q, Min(I))
        BY <1>1, <2>1 DEF RemoveFirst, SelectInSeq
    <2> HIDE DEF I
    <2>3. /\ RemoveAt(q, Min(I)) \in Seq(S)
          /\ Len(RemoveAt(q, Min(I))) = Len(q) - 1
        BY <2>1, RemoveAtLemma
    <2> QED BY <2>2, <2>3
<1>2. CASE x \notin Range(q)
    BY <1>2 DEF RemoveFirst, Range
<1> QED BY <1>1, <1>2
-----------------------------------------------------------------------------
(* Type correctness, inductive together with what a thread's locals are    *)
(* worth at the command it is about to send.                               *)

Locals(w) ==
    /\ op[w] # "none" => user[w] \in User
    /\ op[w] \in {"login", "refresh"} => job[w].new \in minted
    /\ op[w] = "refresh" =>
        /\ job[w].old \in minted
        /\ pc[w] \in {"srem access", "srem refresh", "lset"} =>
               job[w].victim \in Pair /\ job[w].i \in Nat \ {0}
    /\ op[w] = "sweep" =>
        /\ job[w].i <= Len(job[w].snap)
        /\ pc[w] \in {"lset", "lrem"} => job[w].i \in Nat \ {0}
    /\ op[w] = "logout" /\ pc[w] # "lrange" => job[w].i \in Nat \ {0}
    /\ pc[w] = "unlock" => op[w] \in {"login", "refresh"}
    /\ pc[w] # "idle" => op[w] # "none"

TypeInv == TypeOK /\ \A w \in Worker : Locals(w)

\* Initially everything has its type.
LEMMA TypeInit == Init => TypeInv
<1> SUFFICES ASSUME Init PROVE TypeInv
    OBVIOUS
<1>1. 0 \in Time /\ 0 \in Nat
    BY TimeAssumption, RedisAssumption DEF Time
<1>2. NoJob \in Job
    BY DEF NoJob, Job, Stored
<1> QED BY <1>1, <1>2 DEF Init, TypeInv, TypeOK, Locals

\* The steps of thread w leave the locals of the others good, as long as no pair
\* is forgotten.
LEMMA OthersKeep ==
    ASSUME TypeInv, NEW w \in Worker, minted \subseteq minted',
           \A v \in Worker \ {w} : /\ pc'[v] = pc[v] /\ op'[v] = op[v]
                                   /\ user'[v] = user[v] /\ job'[v] = job[v],
           Locals(w)'
    PROVE  \A v \in Worker : Locals(v)'
    BY ZenonT(40) DEF TypeInv, Locals

\* A thread that has left its operation carries nothing.
LEMMA LeaveType ==
    ASSUME TypeInv, NEW w \in Worker, Leave(w), minted' = minted
    PROVE  /\ pc' = [pc EXCEPT ![w] = "idle"]
           /\ op' \in [Worker -> Ops \union {"none"}]
           /\ user' \in [Worker -> User \union {NoUser}]
           /\ job' \in [Worker -> Job]
           /\ \A v \in Worker : Locals(v)'
<1>1. NoJob \in Job
    BY DEF NoJob, Job, Stored
<1>2. Locals(w)'
    BY DEF TypeInv, TypeOK, Leave, Goto, Locals
<1>3. \A v \in Worker \ {w} : /\ pc'[v] = pc[v] /\ op'[v] = op[v]
                              /\ user'[v] = user[v] /\ job'[v] = job[v]
    BY DEF TypeInv, TypeOK, Leave, Goto
<1>4. \A v \in Worker : Locals(v)'
    BY <1>2, <1>3, OthersKeep
<1> QED BY <1>1, <1>4 DEF TypeInv, TypeOK, Leave, Goto

\* The commands a thread can be about to send.
Commands == {"idle", "lock", "llen", "lpop", "rpush", "lrange", "next", "lset",
             "lrem", "del", "srem access", "srem refresh", "sadd access",
             "sadd refresh", "unlock"}

\* A thread that begins an operation has what the operation starts from.
LEMMA BeginType ==
    ASSUME TypeInv, NEW w \in Worker, NEW o \in Ops, NEW u \in User, NEW p, NEW j \in Job,
           Begin(w, o, u, p, j), minted \subseteq minted',
           p \in {"lock", "lrange"},
           o \in {"login", "refresh"} => j.new \in minted',
           o = "refresh" => j.old \in minted',
           o = "logout" => p = "lrange",
           j.i = 0, j.snap = <<>>
    PROVE  /\ pc' \in [Worker -> Commands]
           /\ op' \in [Worker -> Ops \union {"none"}]
           /\ user' \in [Worker -> User \union {NoUser}]
           /\ job' \in [Worker -> Job]
           /\ \A v \in Worker : Locals(v)'
<1>1. o # "none"
    BY RedisAssumption
<1>2. /\ pc' \in [Worker -> Commands] /\ pc'[w] = p
      /\ op' \in [Worker -> Ops \union {"none"}] /\ op'[w] = o
      /\ user' \in [Worker -> User \union {NoUser}] /\ user'[w] = u
      /\ job' \in [Worker -> Job] /\ job'[w] = j
    BY DEF TypeInv, TypeOK, Begin, Goto, Commands
<1>3. Locals(w)'
    <2>1. job'[w].i <= Len(job'[w].snap)
        <3>1. Len(<<>>) = 0 /\ 0 <= 0
            OBVIOUS
        <3> QED BY <1>2, <3>1
    <2> QED BY <1>1, <1>2, <2>1 DEF Locals
<1>4. \A v \in Worker \ {w} : /\ pc'[v] = pc[v] /\ op'[v] = op[v]
                              /\ user'[v] = user[v] /\ job'[v] = job[v]
    BY DEF TypeInv, TypeOK, Begin, Goto
<1>5. \A v \in Worker : Locals(v)'
    BY <1>3, <1>4, OthersKeep
<1> QED BY <1>2, <1>5

\* A thread that goes on with command c and locals j.
LEMMA StepType ==
    ASSUME TypeInv, NEW w \in Worker, NEW c \in Commands, NEW j \in Job,
           minted' = minted, UNCHANGED <<op, user>>, op[w] # "none",
           pc' = [pc EXCEPT ![w] = c], job' = [job EXCEPT ![w] = j],
           j.new = job[w].new, j.old = job[w].old,
           op[w] = "refresh" /\ c \in {"srem access", "srem refresh", "lset"} =>
               j.victim \in Pair /\ j.i \in Nat \ {0},
           op[w] = "sweep" => /\ j.i <= Len(j.snap)
                              /\ c \in {"lset", "lrem"} => j.i \in Nat \ {0},
           op[w] = "logout" /\ c # "lrange" => j.i \in Nat \ {0},
           c = "unlock" => op[w] \in {"login", "refresh"}
    PROVE  /\ pc' \in [Worker -> Commands]
           /\ job' \in [Worker -> Job]
           /\ \A v \in Worker : Locals(v)'
<1>1. /\ pc' \in [Worker -> Commands] /\ pc'[w] = c
      /\ job' \in [Worker -> Job] /\ job'[w] = j
    BY DEF TypeInv, TypeOK, Commands
<1>2. Locals(w)
    BY DEF TypeInv
<1>3. Locals(w)'
    BY <1>1, <1>2 DEF Locals
<1>4. \A v \in Worker \ {w} : /\ pc'[v] = pc[v] /\ op'[v] = op[v]
                              /\ user'[v] = user[v] /\ job'[v] = job[v]
    BY DEF TypeInv, TypeOK
<1>5. \A v \in Worker : Locals(v)'
    BY <1>3, <1>4, OthersKeep
<1> QED BY <1>1, <1>5

\* The same, when the locals stay as they are.
LEMMA GotoType ==
    ASSUME TypeInv, NEW w \in Worker, NEW c \in Commands,
           minted' = minted, UNCHANGED <<op, user, job>>, op[w] # "none", Goto(w, c),
           op[w] = "refresh" /\ c \in {"srem access", "srem refresh", "lset"} =>
               pc[w] \in {"srem access", "srem refresh"},
           op[w] = "sweep" => c \notin {"lset", "lrem"} \/ pc[w] = "lset",
           op[w] = "logout" => pc[w] # "lrange",
           c = "unlock" => op[w] \in {"login", "refresh"}
    PROVE  /\ pc' \in [Worker -> Commands]
           /\ job' \in [Worker -> Job]
           /\ \A v \in Worker : Locals(v)'
<1>1. job[w] \in Job /\ job' = [job EXCEPT ![w] = job[w]]
    BY DEF TypeInv, TypeOK
<1>2. pc' = [pc EXCEPT ![w] = c]
    BY DEF Goto
<1>3. Locals(w)
    BY DEF TypeInv
<1>4. op[w] = "refresh" /\ c \in {"srem access", "srem refresh", "lset"} =>
          job[w].victim \in Pair /\ job[w].i \in Nat \ {0}
    BY <1>3 DEF Locals
<1>5. op[w] = "sweep" => /\ job[w].i <= Len(job[w].snap)
                         /\ c \in {"lset", "lrem"} => job[w].i \in Nat \ {0}
    BY <1>3 DEF Locals
<1>6. op[w] = "logout" /\ c # "lrange" => job[w].i \in Nat \ {0}
    BY <1>3 DEF Locals
<1> QED BY <1>1, <1>2, <1>4, <1>5, <1>6, StepType

\* What is left of a list, or added to it, has the type of its entries.
LEMMA ListType ==
    ASSUME TypeInv, NEW u \in User
    PROVE  /\ list[u] \in Seq(Stored)
           /\ list[u] # <<>> => /\ Head(list[u]) \in Stored
                                /\ Tail(list[u]) \in Seq(Stored)
                                /\ Len(Tail(list[u])) = Len(list[u]) - 1
           /\ \A i \in 1 .. Len(list[u]) : list[u][i] \in Stored
<1>1. list[u] \in Seq(Stored)
    BY DEF TypeInv, TypeOK
<1>2. \A l \in Seq(Stored) :
        /\ l # <<>> => /\ Head(l) \in Stored
                       /\ Tail(l) \in Seq(Stored)
                       /\ Len(Tail(l)) = Len(l) - 1
        /\ \A i \in 1 .. Len(l) : l[i] \in Stored
    OBVIOUS
<1> QED BY <1>1, <1>2
-----------------------------------------------------------------------------
(* The commands the operations share.                                      *)

\* acquireLock keeps the types, whether it gets the lock, tries again or gives up.
LEMMA AcquireLockType ==
    ASSUME TypeInv, NEW w \in Worker, NEW next \in {"llen", "lrange"}, AcquireLock(w, next),
           op[w] \in {"login", "refresh"}
    PROVE  TypeInv'
<1>1. /\ UNCHANGED <<now, list, access, refresh, client, bounds, history>>
      /\ minted' = minted
    BY DEF AcquireLock, client
<1>2. CASE /\ lock' = [lock EXCEPT ![user[w]] = w]
           /\ Goto(w, next)
           /\ UNCHANGED <<op, user, job>>
    <2>1. /\ pc' \in [Worker -> Commands] /\ job' \in [Worker -> Job]
          /\ \A v \in Worker : Locals(v)'
        BY <1>1, <1>2, GotoType DEF Commands
    <2> QED BY <1>1, <1>2, <2>1 DEF TypeInv, TypeOK, Commands, client, bounds, history
<1>3. CASE /\ job' = [job EXCEPT ![w].tries = @ + 1]
           /\ UNCHANGED <<lock, pc, op, user>>
    <2> DEFINE j == [job[w] EXCEPT !.tries = @ + 1]
    <2>1. job[w] \in Job /\ Locals(w) /\ pc[w] \in Commands
        BY DEF TypeInv, TypeOK, Commands
    <2>2. /\ j \in Job /\ j.new = job[w].new /\ j.old = job[w].old
          /\ j.victim = job[w].victim /\ j.i = job[w].i /\ j.snap = job[w].snap
        BY <2>1 DEF Job
    <2>3. job' = [job EXCEPT ![w] = j] /\ pc' = [pc EXCEPT ![w] = pc[w]]
        BY <1>3 DEF TypeInv, TypeOK
    <2> HIDE DEF j
    <2>4. op[w] = "refresh" /\ pc[w] \in {"srem access", "srem refresh", "lset"} =>
              j.victim \in Pair /\ j.i \in Nat \ {0}
        BY <2>1, <2>2 DEF Locals
    <2>5. op[w] # "sweep" /\ op[w] # "none"
        OBVIOUS
    <2>6. /\ pc' \in [Worker -> Commands] /\ job' \in [Worker -> Job]
          /\ \A v \in Worker : Locals(v)'
        BY ZenonT(40), <1>1, <1>3, <2>1, <2>2, <2>3, <2>4, <2>5, StepType
    <2> QED BY <1>1, <1>3, <2>6 DEF TypeInv, TypeOK, Commands, client, bounds, history
<1>4. CASE Leave(w) /\ UNCHANGED lock
    <2>1. /\ pc' = [pc EXCEPT ![w] = "idle"]
          /\ op' \in [Worker -> Ops \union {"none"}]
          /\ user' \in [Worker -> User \union {NoUser}]
          /\ job' \in [Worker -> Job]
          /\ \A v \in Worker : Locals(v)'
        BY <1>1, <1>4, LeaveType
    <2> QED BY <1>1, <1>4, <2>1 DEF TypeInv, TypeOK, client, bounds, history
<1> QED BY <1>2, <1>3, <1>4 DEF AcquireLock

\* removeTokenIndex keeps the types.
LEMMA RemoveTokenIndexType ==
    ASSUME TypeInv, NEW w \in Worker, NEW next \in {"llen", "lset", "next"},
           RemoveTokenIndex(w, next), op[w] # "none", op[w] = "sweep" => next = "next"
    PROVE  TypeInv'
<1> DEFINE c == IF pc[w] = "srem access" THEN "srem refresh" ELSE next
<1>1. /\ UNCHANGED <<now, lock, list, op, user, job, client, bounds, history>>
      /\ minted' = minted
      /\ pc[w] \in {"srem access", "srem refresh"} /\ c \in Commands
      /\ access' \subseteq access /\ refresh' \subseteq refresh
    BY DEF RemoveTokenIndex, client, Commands
<1>2. Goto(w, c)
    BY DEF RemoveTokenIndex
<1>3. op[w] = "sweep" => c \notin {"lset", "lrem"}
    OBVIOUS
<1>4. c # "unlock"
    OBVIOUS
<1> HIDE DEF c
<1>5. /\ pc' \in [Worker -> Commands] /\ job' \in [Worker -> Job]
      /\ \A v \in Worker : Locals(v)'
    BY <1>1, <1>2, <1>3, <1>4, GotoType
<1> QED BY <1>1, <1>5 DEF TypeInv, TypeOK, Commands, client, bounds, history

\* addTokenIndex keeps the types.
LEMMA AddTokenIndexType ==
    ASSUME TypeInv, NEW w \in Worker, AddTokenIndex(w), op[w] \in {"login", "refresh"}
    PROVE  TypeInv'
<1> DEFINE c == IF pc[w] = "sadd access" THEN "sadd refresh" ELSE "unlock"
<1>1. /\ UNCHANGED <<now, lock, list, op, user, job, client, bounds, history>>
      /\ minted' = minted /\ c \in Commands
      /\ c \notin {"srem access", "srem refresh", "lset", "lrem"}
    BY DEF AddTokenIndex, client, Commands
<1>2. Goto(w, c)
    BY DEF AddTokenIndex
<1>3. job[w].new \in minted
    BY DEF TypeInv, Locals
<1>4. access' \subseteq minted /\ refresh' \subseteq minted
    BY <1>3 DEF AddTokenIndex, TypeInv, TypeOK
<1> HIDE DEF c
<1>5. /\ pc' \in [Worker -> Commands] /\ job' \in [Worker -> Job]
      /\ \A v \in Worker : Locals(v)'
    BY <1>1, <1>2, GotoType
<1> QED BY <1>1, <1>4, <1>5 DEF TypeInv, TypeOK, Commands, client, bounds, history

\* What the client is given was minted.
LEMMA DeliverType ==
    ASSUME TypeInv, NEW w \in Worker, Deliver(w), op[w] \in {"login", "refresh"}
    PROVE  held' \subseteq minted /\ rotated' \subseteq minted /\ loggedIn' \subseteq User
<1>1. Locals(w)
    BY DEF TypeInv
<1> QED BY <1>1 DEF Deliver, TypeInv, TypeOK, Locals, history

\* releaseLock keeps the types.
LEMMA UnlockType ==
    ASSUME TypeInv, NEW w \in Worker, Unlock(w), op[w] \in {"login", "refresh"}
    PROVE  TypeInv'
<1>1. /\ Leave(w) /\ minted' = minted
      /\ lock' = [lock EXCEPT ![user[w]] = NoWorker]
      /\ UNCHANGED <<now, list, access, refresh, minted, bounds>>
    BY DEF Unlock, DeleteLock
<1>2. held' \subseteq minted /\ rotated' \subseteq minted /\ loggedIn' \subseteq User
    BY DeliverType DEF Unlock
<1>3. /\ pc' = [pc EXCEPT ![w] = "idle"]
      /\ op' \in [Worker -> Ops \union {"none"}]
      /\ user' \in [Worker -> User \union {NoUser}]
      /\ job' \in [Worker -> Job]
      /\ \A v \in Worker : Locals(v)'
    BY <1>1, LeaveType
<1> QED BY <1>1, <1>2, <1>3 DEF TypeInv, TypeOK, bounds

-----------------------------------------------------------------------------
(* The operations.                                                         *)

\* Every command of registerJwtInformation keeps the types.
LEMMA LoginType ==
    ASSUME TypeInv, NEW w \in Worker, Login(w)
    PROVE  TypeInv'
<1>1. op[w] = "login" /\ user[w] \in User /\ job[w].new \in minted /\ job[w] \in Job
    BY DEF Login, TypeInv, TypeOK, Locals
<1> DEFINE l == list[user[w]]
<1>2. CASE LoginSize(w)
    <2> DEFINE c == IF Len(l) >= MaxActive THEN "lpop" ELSE "rpush"
    <2>1. Goto(w, c) /\ c \in Commands /\ minted' = minted
        BY <1>2 DEF LoginSize, client, Commands
    <2> HIDE DEF c
    <2>2. /\ pc' \in [Worker -> Commands] /\ job' \in [Worker -> Job]
          /\ \A v \in Worker : Locals(v)'
        BY <1>1, <1>2, <2>1, GotoType DEF LoginSize
    <2> QED BY <1>2, <2>2 DEF LoginSize, TypeInv, TypeOK, Commands, redis, client, bounds, history
<1>3. CASE LoginPop(w)
    <2>1. minted' = minted /\ UNCHANGED <<now, lock, access, refresh, op, user, client, bounds, history>>
        BY <1>3 DEF LoginPop, client
    <2>2. list' \in [User -> Seq(Stored)]
        <3>1. (IF l = <<>> THEN l ELSE Tail(l)) \in Seq(Stored)
            BY <1>1, ListType
        <3>2. list' = [list EXCEPT ![user[w]] = IF l = <<>> THEN l ELSE Tail(l)]
            BY <1>3 DEF LoginPop
        <3> HIDE DEF l
        <3> QED BY <1>1, <3>1, <3>2 DEF TypeInv, TypeOK
    <2>3. CASE l # <<>> /\ Head(l) # EXPIRED
        <3> DEFINE j == [job[w] EXCEPT !.victim = Head(l)]
        <3>1. /\ j \in Job /\ j.new = job[w].new /\ j.old = job[w].old
            BY <1>1, <2>3, ListType DEF Job
        <3>2. job' = [job EXCEPT ![w] = j] /\ pc' = [pc EXCEPT ![w] = "srem access"]
            BY <1>3, <2>3 DEF LoginPop, Goto
        <3> HIDE DEF j
        <3>3. /\ pc' \in [Worker -> Commands] /\ job' \in [Worker -> Job]
          /\ \A v \in Worker : Locals(v)'
            BY <1>1, <2>1, <3>1, <3>2, StepType DEF Commands
        <3> QED BY <2>1, <2>2, <3>3 DEF TypeInv, TypeOK, Commands, client, bounds, history
    <2>4. CASE ~(l # <<>> /\ Head(l) # EXPIRED)
        <3>1. Goto(w, "llen") /\ UNCHANGED job
            BY <1>3, <2>4 DEF LoginPop
        <3>2. /\ pc' \in [Worker -> Commands] /\ job' \in [Worker -> Job]
          /\ \A v \in Worker : Locals(v)'
            BY <1>1, <2>1, <3>1, GotoType DEF Commands
        <3> QED BY <2>1, <2>2, <3>2 DEF TypeInv, TypeOK, Commands, client, bounds, history
    <2> QED BY <2>3, <2>4
<1>4. CASE LoginPush(w)
    <2>1. Goto(w, "sadd access") /\ minted' = minted
        BY <1>4 DEF LoginPush, client
    <2>2. /\ pc' \in [Worker -> Commands] /\ job' \in [Worker -> Job]
          /\ \A v \in Worker : Locals(v)'
        BY <1>1, <1>4, <2>1, GotoType DEF LoginPush, Commands
    <2>3. job[w].new \in Stored
        BY <1>1 DEF TypeInv, TypeOK, Stored
    <2>4. list' \in [User -> Seq(Stored)]
        <3>1. Append(l, job[w].new) \in Seq(Stored)
            BY <1>1, <2>3, ListType, AppendLemma
        <3> QED BY <1>1, <1>4, <3>1 DEF LoginPush, TypeInv, TypeOK
    <2> QED BY <1>4, <2>2, <2>4 DEF LoginPush, TypeInv, TypeOK, Commands, client, bounds, history
<1> QED BY <1>1, <1>2, <1>3, <1>4, AcquireLockType, RemoveTokenIndexType,
           AddTokenIndexType, UnlockType DEF Login

\* Every command of rotateJwtInformation keeps the types.
LEMMA RefreshType ==
    ASSUME TypeInv, NEW w \in Worker, Refresh(w)
    PROVE  TypeInv'
<1>1. /\ op[w] = "refresh" /\ user[w] \in User /\ job[w].new \in minted
      /\ job[w] \in Job /\ Locals(w)
    BY DEF Refresh, TypeInv, TypeOK, Locals
<1> DEFINE l == list[user[w]]
<1>2. CASE RefreshRange(w)
    <2>1. minted' = minted /\ UNCHANGED <<now, redis, op, user, client, bounds, history>>
        BY <1>2 DEF RefreshRange, client
    <2>2. CASE job[w].old \in Range(l)
        <3> DEFINE I == {i \in 1 .. Len(l) : l[i] = job[w].old}
                   k == Min(I)
                   j == [job[w] EXCEPT !.i = k, !.victim = l[k]]
        <3>1. k \in 1 .. Len(l) /\ I # {}
            <4>1. l \in Seq(Stored)
                BY <1>1, ListType
            <4> HIDE DEF l
            <4> QED BY <2>2, <4>1, FirstIndexLemma
        <3>2. l[k] \in Pair /\ k \in Nat \ {0}
            <4>1. l[k] = job[w].old /\ l \in Seq(Stored)
                <5>1. l \in Seq(Stored)
                    BY <1>1, ListType
                <5> HIDE DEF l
                <5> QED BY <2>2, <5>1, FirstIndexLemma
            <4>2. job[w].old \in Pair
                BY <1>1 DEF TypeInv, TypeOK, Locals
            <4> HIDE DEF k, I
            <4>3. k \in Nat \ {0}
                <5> HIDE DEF l
                <5> QED BY <3>1, <4>1
            <4> QED BY <4>1, <4>2, <4>3
        <3>3. /\ job' = [job EXCEPT ![w] = j]
              /\ pc' = [pc EXCEPT ![w] = "srem access"]
            BY <1>2, <2>2, <3>1 DEF RefreshRange, Goto, SelectInSeq
        <3> HIDE DEF k, I
        <3>4. /\ j \in Job /\ j.new = job[w].new /\ j.old = job[w].old
              /\ j.victim = l[k] /\ j.i = k
            BY <1>1, <3>2 DEF Job, Stored
        <3> HIDE DEF j
        <3>5. /\ pc' \in [Worker -> Commands] /\ job' \in [Worker -> Job]
          /\ \A v \in Worker : Locals(v)'
            BY <1>1, <2>1, <3>2, <3>3, <3>4, StepType DEF Commands
        <3> QED BY <2>1, <3>5 DEF TypeInv, TypeOK, Commands, redis, client, bounds, history
    <2>3. CASE job[w].old \notin Range(l)
        <3>1. Goto(w, "unlock") /\ UNCHANGED job
            BY <1>2, <2>3 DEF RefreshRange
        <3>2. /\ pc' \in [Worker -> Commands] /\ job' \in [Worker -> Job]
          /\ \A v \in Worker : Locals(v)'
            BY <1>1, <2>1, <3>1, GotoType DEF Commands
        <3> QED BY <2>1, <3>2 DEF TypeInv, TypeOK, Commands, redis, client, bounds, history
    <2> QED BY <2>2, <2>3
<1>3. CASE RefreshSet(w)
    <2>1. /\ minted' = minted /\ pc[w] = "lset"
          /\ UNCHANGED <<now, lock, access, refresh, op, user, client, bounds, history>>
        BY <1>3 DEF RefreshSet, client
    <2>2. CASE job[w].i <= Len(l)
        <3>1. /\ list' = [list EXCEPT ![user[w]][job[w].i] = job[w].victim]
              /\ Goto(w, "sadd access") /\ UNCHANGED job
            BY <1>3, <2>2 DEF RefreshSet
        <3>2. /\ pc' \in [Worker -> Commands] /\ job' \in [Worker -> Job]
          /\ \A v \in Worker : Locals(v)'
            BY <1>1, <2>1, <3>1, GotoType DEF Commands
        <3>3. job[w].victim \in Stored /\ job[w].i \in Nat /\ l \in Seq(Stored)
            BY <1>1, <2>1, ListType DEF Locals, Stored
        <3>4. [l EXCEPT ![job[w].i] = job[w].victim] \in Seq(Stored)
            BY <3>3, SetAtLemma
        <3>5. list' \in [User -> Seq(Stored)]
            BY <1>1, <3>1, <3>4 DEF TypeInv, TypeOK
        <3> QED BY <2>1, <3>2, <3>5 DEF TypeInv, TypeOK, Commands, client, bounds, history
    <2>3. CASE ~(job[w].i <= Len(l))
        <3> DEFINE j == [job[w] EXCEPT !.done = FALSE]
        <3>1. /\ job' = [job EXCEPT ![w] = j]
              /\ pc' = [pc EXCEPT ![w] = "unlock"] /\ UNCHANGED list
            BY <1>3, <2>3 DEF RefreshSet, Goto
        <3>2. j \in Job /\ j.new = job[w].new /\ j.old = job[w].old
            BY <1>1 DEF Job
        <3> HIDE DEF j
        <3>3. /\ pc' \in [Worker -> Commands] /\ job' \in [Worker -> Job]
          /\ \A v \in Worker : Locals(v)'
            BY <1>1, <2>1, <3>1, <3>2, StepType DEF Commands
        <3> QED BY <2>1, <3>1, <3>3 DEF TypeInv, TypeOK, Commands, client, bounds, history
    <2> QED BY <2>2, <2>3
<1> QED BY <1>1, <1>2, <1>3, AcquireLockType, RemoveTokenIndexType,
           AddTokenIndexType, UnlockType DEF Refresh

\* Every command of invalidateJwtInformationByUserId keeps the types.
LEMMA LogoutType ==
    ASSUME TypeInv, NEW w \in Worker, Logout(w)
    PROVE  TypeInv'
<1>1. op[w] = "logout" /\ user[w] \in User /\ job[w] \in Job /\ Locals(w)
    BY DEF Logout, TypeInv, TypeOK, Locals
<1> DEFINE l == list[user[w]]
<1>2. CASE LogoutRange(w)
    <2> DEFINE j == [job[w] EXCEPT !.snap = l, !.i = 1]
    <2>1. minted' = minted /\ UNCHANGED <<now, redis, op, user, client, bounds, history>>
        BY <1>2 DEF LogoutRange, client
    <2>2. job' = [job EXCEPT ![w] = j] /\ pc' = [pc EXCEPT ![w] = "next"]
        BY <1>2 DEF LogoutRange, Goto
    <2>3. /\ j \in Job /\ j.new = job[w].new /\ j.old = job[w].old
          /\ j.i \in Nat \ {0}
        <3>1. l \in Seq(Stored)
            BY <1>1, ListType
        <3>2. j.i = 1
            BY <1>1 DEF Job
        <3>3. j.new = job[w].new /\ j.old = job[w].old
            BY <1>1 DEF Job
        <3> HIDE DEF l
        <3>4. j \in Job
            BY <1>1, <3>1 DEF Job
        <3> QED BY <3>2, <3>3, <3>4
    <2> HIDE DEF j
    <2>4. /\ pc' \in [Worker -> Commands] /\ job' \in [Worker -> Job]
          /\ \A v \in Worker : Locals(v)'
        BY <1>1, <2>1, <2>2, <2>3, StepType DEF Commands
    <2> QED BY <2>1, <2>4 DEF TypeInv, TypeOK, Commands, redis, client, bounds, history
<1>3. CASE LogoutNext(w)
    <2>1. /\ minted' = minted /\ pc[w] = "next"
          /\ UNCHANGED <<now, redis, op, user, client, bounds, history>>
        BY <1>3 DEF LogoutNext, client
    <2>2. CASE Goto(w, "del") /\ UNCHANGED job
        <3>1. /\ pc' \in [Worker -> Commands] /\ job' \in [Worker -> Job]
          /\ \A v \in Worker : Locals(v)'
            BY <1>1, <2>1, <2>2, GotoType DEF Commands
        <3> QED BY <2>1, <3>1 DEF TypeInv, TypeOK, Commands, redis, client, bounds, history
    <2>3. CASE job[w].i <= Len(job[w].snap) /\ ~(Goto(w, "del") /\ UNCHANGED job)
        <3> DEFINE k == job[w].i
                   j == [job[w] EXCEPT !.i = k + 1, !.victim = job[w].snap[k]]
                   c == IF job[w].snap[k] = EXPIRED THEN "next" ELSE "srem access"
        <3>1. /\ job' = [job EXCEPT ![w] = j] /\ pc' = [pc EXCEPT ![w] = c]
              /\ c \in Commands /\ c # "unlock"
            BY <1>3, <2>3 DEF LogoutNext, Goto, Commands
        <3>2. k \in Nat /\ job[w].snap \in Seq(Stored)
            BY <1>1 DEF Job
        <3>3. k \in Nat \ {0} /\ job[w].snap[k] \in Stored
            <4>1. k \in Nat \ {0}
                BY <1>1, <1>3 DEF LogoutNext, Locals
            <4> QED BY <2>3, <3>2, <4>1
        <3>4. /\ j \in Job /\ j.new = job[w].new /\ j.old = job[w].old
              /\ j.i \in Nat \ {0}
            <4>1. k + 1 \in Nat \ {0} /\ job[w].snap[k] \in Stored \union {NoPair}
                BY <3>3
            <4> HIDE DEF k
            <4> QED BY <1>1, <4>1 DEF Job
        <3> HIDE DEF j, c
        <3>5. /\ pc' \in [Worker -> Commands] /\ job' \in [Worker -> Job]
          /\ \A v \in Worker : Locals(v)'
            BY <1>1, <2>1, <3>1, <3>4, StepType
        <3> QED BY <2>1, <3>5 DEF TypeInv, TypeOK, Commands, redis, client, bounds, history
    <2> QED BY <1>3, <2>2, <2>3 DEF LogoutNext
<1>4. CASE LogoutDelete(w)
    <2>1. minted' = minted /\ Leave(w)
        BY <1>4 DEF LogoutDelete, client
    <2>2. /\ pc' = [pc EXCEPT ![w] = "idle"]
          /\ op' \in [Worker -> Ops \union {"none"}]
          /\ user' \in [Worker -> User \union {NoUser}]
          /\ job' \in [Worker -> Job]
          /\ \A v \in Worker : Locals(v)'
        BY <2>1, LeaveType
    <2>3. list' = [list EXCEPT ![user[w]] = <<>>] /\ <<>> \in Seq(Stored)
        BY <1>4 DEF LogoutDelete
    <2>4. list' \in [User -> Seq(Stored)]
        BY <2>3 DEF TypeInv, TypeOK
    <2> QED BY <1>4, <2>2, <2>4 DEF LogoutDelete, TypeInv, TypeOK, client, bounds, history
<1> QED BY <1>1, <1>2, <1>3, <1>4, RemoveTokenIndexType DEF Logout

\* Every command of clearExpiredJwtInformation keeps the types.
LEMMA SweepType ==
    ASSUME TypeInv, NEW w \in Worker, Sweep(w)
    PROVE  TypeInv'
<1>1. op[w] = "sweep" /\ user[w] \in User /\ job[w] \in Job /\ Locals(w)
    BY DEF Sweep, TypeInv, TypeOK, Locals
<1> DEFINE l == list[user[w]]
<1>2. CASE SweepRange(w)
    <2> DEFINE j == [job[w] EXCEPT !.snap = l, !.i = Len(l)]
    <2>1. minted' = minted /\ UNCHANGED <<now, redis, op, user, client, bounds, history>>
        BY <1>2 DEF SweepRange, client
    <2>2. job' = [job EXCEPT ![w] = j] /\ pc' = [pc EXCEPT ![w] = "next"]
        BY <1>2 DEF SweepRange, Goto
    <2>3. /\ j \in Job /\ j.new = job[w].new /\ j.old = job[w].old
          /\ j.i <= Len(j.snap)
        <3>1. l \in Seq(Stored)
            BY <1>1, ListType
        <3>2. Len(l) \in Nat /\ Len(l) <= Len(l)
            <4> HIDE DEF l
            <4> QED BY <3>1
        <3> HIDE DEF l
        <3> QED BY <1>1, <3>1, <3>2 DEF Job
    <2> HIDE DEF j
    <2>4. /\ pc' \in [Worker -> Commands] /\ job' \in [Worker -> Job]
          /\ \A v \in Worker : Locals(v)'
        BY <1>1, <2>1, <2>2, <2>3, StepType DEF Commands
    <2> QED BY <2>1, <2>4 DEF TypeInv, TypeOK, Commands, redis, client, bounds, history
<1>3. CASE SweepNext(w)
    <2> DEFINE k == job[w].i
               p == job[w].snap[k]
    <2>1. minted' = minted /\ UNCHANGED <<now, redis, client, bounds, history>>
        BY <1>3 DEF SweepNext, client
    <2>2. k \in Nat /\ job[w].snap \in Seq(Stored) /\ k <= Len(job[w].snap)
        BY <1>1 DEF Job, Locals
    <2>3. CASE Leave(w)
        <3>1. /\ pc' = [pc EXCEPT ![w] = "idle"]
          /\ op' \in [Worker -> Ops \union {"none"}]
          /\ user' \in [Worker -> User \union {NoUser}]
          /\ job' \in [Worker -> Job]
          /\ \A v \in Worker : Locals(v)'
            BY <2>1, <2>3, LeaveType
        <3> QED BY <2>1, <3>1 DEF TypeInv, TypeOK, redis, client, bounds, history
    <2>4. CASE Goto(w, "del") /\ UNCHANGED <<op, user, job>>
        <3>1. /\ pc' \in [Worker -> Commands] /\ job' \in [Worker -> Job]
          /\ \A v \in Worker : Locals(v)'
            BY <1>1, <2>1, <2>4, GotoType DEF Commands
        <3> QED BY <2>1, <2>4, <3>1 DEF TypeInv, TypeOK, Commands, redis, client, bounds, history
    <2>5. ASSUME NEW j \in {[job[w] EXCEPT !.i = k - 1],
                            [job[w] EXCEPT !.i = k - 1, !.valid = TRUE]},
                 k > 0, job' = [job EXCEPT ![w] = j], UNCHANGED <<pc, op, user>>,
                 pc[w] = "next"
          PROVE  TypeInv'
        <3>1. k - 1 \in Nat /\ k - 1 <= Len(job[w].snap)
            BY <2>2, <2>5
        <3> HIDE DEF k
        <3>2. /\ j \in Job /\ j.new = job[w].new /\ j.old = job[w].old
              /\ j.i = k - 1 /\ j.snap = job[w].snap
            BY <1>1, <3>1, <2>5 DEF Job
        <3>3. pc' = [pc EXCEPT ![w] = "next"]
            BY <2>5 DEF TypeInv, TypeOK
        <3>4. /\ pc' \in [Worker -> Commands] /\ job' \in [Worker -> Job]
          /\ \A v \in Worker : Locals(v)'
            BY <1>1, <2>1, <2>5, <3>1, <3>2, <3>3, StepType DEF Commands
        <3> QED BY <2>1, <2>5, <3>4 DEF TypeInv, TypeOK, Commands, redis, client, bounds, history
    <2>6. CASE /\ k > 0 /\ job' = [job EXCEPT ![w].victim = p]
               /\ Goto(w, "lset") /\ UNCHANGED <<op, user>>
        <3> DEFINE j == [job[w] EXCEPT !.victim = p]
        <3>1. k \in Nat \ {0} /\ p \in Stored
            BY <2>2, <2>6
        <3>2. job' = [job EXCEPT ![w] = j] /\ pc' = [pc EXCEPT ![w] = "lset"]
            BY <2>6 DEF Goto
        <3> HIDE DEF p
        <3>3. /\ j \in Job /\ j.new = job[w].new /\ j.old = job[w].old
              /\ j.i = k /\ j.snap = job[w].snap
            BY <1>1, <3>1 DEF Job
        <3> HIDE DEF k, j
        <3>4. /\ pc' \in [Worker -> Commands] /\ job' \in [Worker -> Job]
          /\ \A v \in Worker : Locals(v)'
            BY <1>1, <2>1, <2>2, <2>6, <3>1, <3>2, <3>3, StepType DEF Commands
        <3> QED BY <2>1, <2>6, <3>4 DEF TypeInv, TypeOK, Commands, redis, client, bounds, history
    <2> QED BY <1>3, <2>3, <2>4, <2>5, <2>6 DEF SweepNext
<1>4. CASE SweepSet(w)
    <2>1. /\ minted' = minted /\ pc[w] = "lset"
          /\ UNCHANGED <<now, lock, access, refresh, client, bounds, history>>
        BY <1>4 DEF SweepSet, client
    <2>2. CASE job[w].i <= Len(l)
        <3>1. /\ list' = [list EXCEPT ![user[w]][job[w].i] = EXPIRED]
              /\ Goto(w, "lrem") /\ UNCHANGED <<op, user, job>>
            BY <1>4, <2>2 DEF SweepSet
        <3>2. /\ pc' \in [Worker -> Commands] /\ job' \in [Worker -> Job]
          /\ \A v \in Worker : Locals(v)'
            BY <1>1, <2>1, <3>1, GotoType DEF Commands
        <3>3. job[w].i \in Nat /\ EXPIRED \in Stored /\ l \in Seq(Stored)
            BY <1>1, <2>1, ListType DEF Locals, Stored
        <3>4. [l EXCEPT ![job[w].i] = EXPIRED] \in Seq(Stored)
            BY <3>3, SetAtLemma
        <3>5. list' \in [User -> Seq(Stored)]
            BY <1>1, <3>1, <3>4 DEF TypeInv, TypeOK
        <3> QED BY <2>1, <3>1, <3>2, <3>5 DEF TypeInv, TypeOK, Commands, client, bounds, history
    <2>3. CASE ~(job[w].i <= Len(l))
        <3>1. Leave(w) /\ UNCHANGED list
            BY <1>4, <2>3 DEF SweepSet
        <3>2. /\ pc' = [pc EXCEPT ![w] = "idle"]
          /\ op' \in [Worker -> Ops \union {"none"}]
          /\ user' \in [Worker -> User \union {NoUser}]
          /\ job' \in [Worker -> Job]
          /\ \A v \in Worker : Locals(v)'
            BY <2>1, <3>1, LeaveType
        <3> QED BY <2>1, <3>1, <3>2 DEF TypeInv, TypeOK, client, bounds, history
    <2> QED BY <2>2, <2>3
<1>5. CASE SweepRemove(w)
    <2> DEFINE j == [job[w] EXCEPT !.i = @ - 1]
    <2>1. /\ minted' = minted /\ pc[w] = "lrem"
          /\ UNCHANGED <<now, lock, access, refresh, op, user, client, bounds, history>>
        BY <1>5 DEF SweepRemove, client
    <2>2. /\ job[w].i \in Nat \ {0} /\ job[w].i <= Len(job[w].snap)
          /\ Len(job[w].snap) \in Nat
        BY <1>1, <2>1 DEF Locals, Job
    <2>3. job[w].i - 1 \in Nat /\ job[w].i - 1 <= Len(job[w].snap)
        BY <2>2
    <2>4. /\ j \in Job /\ j.new = job[w].new /\ j.old = job[w].old
          /\ j.i = job[w].i - 1 /\ j.snap = job[w].snap
        BY <1>1, <2>3 DEF Job
    <2>5. job' = [job EXCEPT ![w] = j] /\ pc' = [pc EXCEPT ![w] = "srem access"]
        BY <1>5 DEF SweepRemove, Goto
    <2> HIDE DEF j
    <2>6. /\ pc' \in [Worker -> Commands] /\ job' \in [Worker -> Job]
          /\ \A v \in Worker : Locals(v)'
        BY <1>1, <2>1, <2>3, <2>4, <2>5, StepType DEF Commands
    <2>7. RemoveFirst(l, EXPIRED) \in Seq(Stored)
        BY <1>1, ListType, RemoveFirstLemma
    <2>8. list' \in [User -> Seq(Stored)]
        BY <1>1, <1>5, <2>7 DEF SweepRemove, TypeInv, TypeOK
    <2> QED BY <2>1, <2>6, <2>8 DEF TypeInv, TypeOK, Commands, client, bounds, history
<1>6. CASE SweepDelete(w)
    <2>1. minted' = minted /\ Leave(w)
        BY <1>6 DEF SweepDelete, client
    <2>2. /\ pc' = [pc EXCEPT ![w] = "idle"]
          /\ op' \in [Worker -> Ops \union {"none"}]
          /\ user' \in [Worker -> User \union {NoUser}]
          /\ job' \in [Worker -> Job]
          /\ \A v \in Worker : Locals(v)'
        BY <2>1, LeaveType
    <2>3. list' = [list EXCEPT ![user[w]] = <<>>] /\ <<>> \in Seq(Stored)
        BY <1>6 DEF SweepDelete
    <2>4. list' \in [User -> Seq(Stored)]
        BY <2>3 DEF TypeInv, TypeOK
    <2> QED BY <1>6, <2>2, <2>4 DEF SweepDelete, TypeInv, TypeOK, client, bounds, history
<1> QED BY <1>1, <1>2, <1>3, <1>4, <1>5, <1>6, RemoveTokenIndexType DEF Sweep
-----------------------------------------------------------------------------
(* The starts of the operations, the clock, and what may go wrong.         *)

\* A pair minted now is a pair of its user.
LEMMA MintType ==
    ASSUME TypeInv, NEW u \in User, Mint(u)
    PROVE  /\ MintedAt(u, now) \in Pair /\ MintedAt(u, now) \in minted'
           /\ minted \subseteq minted' /\ minted' \subseteq Pair
<1>1. now \in Time /\ minted \subseteq Pair
    BY DEF TypeInv, TypeOK
<1>2. MintedAt(u, now) \in Pair
    BY <1>1 DEF MintedAt, Pair
<1> QED BY <1>1, <1>2 DEF Mint

\* The beginning of an operation keeps the types.
LEMMA StartType ==
    ASSUME TypeInv, NEW w \in Worker, Start(w)
    PROVE  TypeInv'
<1> DEFINE Begun == /\ pc' \in [Worker -> Commands]
                    /\ op' \in [Worker -> Ops \union {"none"}]
                    /\ user' \in [Worker -> User \union {NoUser}]
                    /\ job' \in [Worker -> Job]
                    /\ \A v \in Worker : Locals(v)'
<1>0. NoJob \in Job /\ NoJob.i = 0 /\ NoJob.snap = <<>>
    BY DEF NoJob, Job, Stored
<1>1. ASSUME NEW u \in User, StartLogin(w, u) PROVE TypeInv'
    <2> DEFINE j == [NoJob EXCEPT !.new = MintedAt(u, now)]
    <2>1. /\ MintedAt(u, now) \in Pair /\ MintedAt(u, now) \in minted'
          /\ minted \subseteq minted' /\ minted' \subseteq Pair
        BY <1>1, MintType DEF StartLogin
    <2>2. /\ j \in Job /\ j.i = 0 /\ j.snap = <<>> /\ j.new = MintedAt(u, now)
        BY <1>0, <2>1 DEF Job, NoJob
    <2>3. Begin(w, "login", u, "lock", j) /\ "login" \in Ops
        BY <1>1 DEF StartLogin, Begin
    <2> HIDE DEF j
    <2>4. Begun
        BY <2>1, <2>2, <2>3, BeginType
    <2> QED BY <1>1, <2>1, <2>4 DEF StartLogin, TypeInv, TypeOK, Commands, redis, bounds, history
<1>2. ASSUME NEW u \in User, StartLogout(w, u) PROVE TypeInv'
    <2>1. /\ Begin(w, "logout", u, "lrange", NoJob) /\ "logout" \in Ops
          /\ minted' = minted
        BY <1>2 DEF StartLogout, Begin, client
    <2>2. Begun
        BY <1>0, <2>1, BeginType
    <2> QED BY <1>2, <2>2 DEF StartLogout, TypeInv, TypeOK, Commands, redis, client, bounds
<1>3. ASSUME NEW u \in User, StartSweep(w, u) PROVE TypeInv'
    <2>1. /\ Begin(w, "sweep", u, "lrange", NoJob) /\ "sweep" \in Ops
          /\ minted' = minted
        BY <1>3 DEF StartSweep, Begin, client
    <2>2. Begun
        BY <1>0, <2>1, BeginType
    <2> QED BY <1>3, <2>2 DEF StartSweep, TypeInv, TypeOK, Commands, redis, client, bounds, history
<1>4. ASSUME NEW p \in held, StartRefresh(w, p) PROVE TypeInv'
    <2> DEFINE u == p.user
               j == [NoJob EXCEPT !.new = MintedAt(u, now), !.old = p]
    <2>0. p \in Pair /\ p \in minted /\ u \in User
        BY DEF TypeInv, TypeOK, Pair
    <2>1. /\ MintedAt(u, now) \in Pair /\ MintedAt(u, now) \in minted'
          /\ minted \subseteq minted' /\ minted' \subseteq Pair
        BY <1>4, <2>0, MintType DEF StartRefresh
    <2>2. /\ j \in Job /\ j.i = 0 /\ j.snap = <<>> /\ j.new = MintedAt(u, now) /\ j.old = p
        BY <1>0, <2>0, <2>1 DEF Job, NoJob
    <2>3. Begin(w, "refresh", u, "lock", j) /\ "refresh" \in Ops
        BY <1>4 DEF StartRefresh, Begin
    <2> HIDE DEF j, u
    <2>4. Begun
        BY <2>0, <2>1, <2>2, <2>3, BeginType
    <2> QED BY <1>4, <2>1, <2>4 DEF StartRefresh, TypeInv, TypeOK, Commands, redis, bounds, history
<1> QED BY <1>1, <1>2, <1>3, <1>4 DEF Start

\* A command that fails keeps the types.
LEMMA FaultType ==
    ASSUME TypeInv, NEW w \in Worker, Fault(w)
    PROVE  TypeInv'
<1>1. /\ minted' = minted /\ faults' \in Nat /\ job[w] \in Job /\ Locals(w)
      /\ UNCHANGED <<now, redis, minted, overruns, crashes>>
    <2>1. faults \in Nat /\ job[w] \in Job /\ Locals(w)
        BY DEF TypeInv, TypeOK
    <2> QED BY <2>1, RedisAssumption DEF Fault
<1>2. CASE InSection(w, user[w]) /\ pc[w] # "unlock"
    <2> DEFINE j == [job[w] EXCEPT !.done = FALSE]
    <2>1. /\ job' = [job EXCEPT ![w] = j] /\ pc' = [pc EXCEPT ![w] = "unlock"]
          /\ UNCHANGED <<op, user, held, history>>
        BY <1>2 DEF Fault, Goto
    <2>2. j \in Job /\ j.new = job[w].new /\ j.old = job[w].old
        BY <1>1 DEF Job
    <2>3. op[w] \in {"login", "refresh"}
        BY <1>2 DEF InSection
    <2> HIDE DEF j
    <2>4. /\ pc' \in [Worker -> Commands] /\ job' \in [Worker -> Job]
          /\ \A v \in Worker : Locals(v)'
        BY <1>1, <2>1, <2>2, <2>3, StepType DEF Commands
    <2> QED BY <1>1, <2>1, <2>4 DEF TypeInv, TypeOK, Commands, redis, history
<1>3. CASE ~(InSection(w, user[w]) /\ pc[w] # "unlock")
    <2>1. Leave(w)
        BY <1>3 DEF Fault
    <2>2. /\ pc' = [pc EXCEPT ![w] = "idle"]
          /\ op' \in [Worker -> Ops \union {"none"}]
          /\ user' \in [Worker -> User \union {NoUser}]
          /\ job' \in [Worker -> Job]
          /\ \A v \in Worker : Locals(v)'
        BY <1>1, <2>1, LeaveType
    <2>3. held' \subseteq minted /\ rotated' \subseteq minted /\ loggedIn' \subseteq User
        <3>1. CASE pc[w] = "unlock" /\ op[w] \in {"login", "refresh"}
            BY <1>3, <3>1, DeliverType DEF Fault
        <3>2. CASE pc[w] # "unlock"
            BY <1>3, <3>2 DEF Fault, TypeInv, TypeOK, history
        <3>3. CASE pc[w] = "unlock" /\ op[w] \notin {"login", "refresh"}
            BY <1>1, <3>3 DEF Locals
        <3> QED BY <3>1, <3>2, <3>3
    <2> QED BY <1>1, <2>2, <2>3 DEF TypeInv, TypeOK, redis
<1> QED BY <1>2, <1>3

\* Every step preserves the types.
LEMMA TypeNext == TypeInv /\ [Next]_vars => TypeInv'
<1> SUFFICES ASSUME TypeInv, [Next]_vars PROVE TypeInv'
    OBVIOUS
<1>1. CASE Tick
    <2>1. now \in Time
        BY DEF TypeInv, TypeOK
    <2>2. now' \in Time
        BY <1>1, <2>1, TimeAssumption DEF Tick, Time
    <2> QED BY <1>1, <2>2 DEF TypeInv, TypeOK, Tick, redis, workers, client, bounds, history, Locals
<1>2. ASSUME NEW w \in Worker, Start(w) PROVE TypeInv'
    BY <1>2, StartType
<1>3. ASSUME NEW w \in Worker, Step(w) PROVE TypeInv'
    BY <1>3, LoginType, RefreshType, LogoutType, SweepType DEF Step
<1>4. ASSUME NEW w \in Worker, Crash(w) PROVE TypeInv'
    <2>0. crashes \in Nat
        BY DEF TypeInv, TypeOK
    <2>1. /\ Leave(w) /\ minted' = minted /\ crashes' \in Nat
          /\ UNCHANGED <<now, redis, client, overruns, faults, history>>
        BY <1>4, <2>0, RedisAssumption DEF Crash, client
    <2>2. /\ pc' = [pc EXCEPT ![w] = "idle"]
          /\ op' \in [Worker -> Ops \union {"none"}]
          /\ user' \in [Worker -> User \union {NoUser}]
          /\ job' \in [Worker -> Job]
          /\ \A v \in Worker : Locals(v)'
        BY <2>1, LeaveType
    <2> QED BY <2>1, <2>2 DEF TypeInv, TypeOK, redis, client, history
<1>5. ASSUME NEW w \in Worker, Fault(w) PROVE TypeInv'
    BY <1>5, FaultType
<1>6. ASSUME NEW u \in User, Overrun(u) PROVE TypeInv'
    <2>1. overruns \in Nat
        BY DEF TypeInv, TypeOK
    <2>2. overruns' \in Nat
        BY <1>6, <2>1, RedisAssumption DEF Overrun
    <2> QED BY <1>6, <2>2 DEF TypeInv, TypeOK, Overrun, workers, client, history, Locals
<1>7. ASSUME NEW u \in User, OrphanExpires(u) PROVE TypeInv'
    BY <1>7 DEF TypeInv, TypeOK, OrphanExpires, workers, client, bounds, history, Locals
<1>8. CASE UNCHANGED vars
    BY <1>8 DEF TypeInv, TypeOK, vars, redis, workers, client, bounds, history, Locals
<1> QED BY <1>1, <1>2, <1>3, <1>4, <1>5, <1>6, <1>7, <1>8 DEF Next

\* In every behaviour each variable, the locals of every thread included, keeps
\* its type: an index a thread carries over other threads' commands stays one.
THEOREM TypeCorrect == Spec => []TypeOK
<1>1. TypeInv => TypeOK
    BY DEF TypeInv
<1> QED BY <1>1, TypeInit, TypeNext, PTL DEF Spec

\* TypeInv is an invariant of the registry.
LEMMA TypeInvariant == Spec => []TypeInv
    BY TypeInit, TypeNext, PTL DEF Spec

-----------------------------------------------------------------------------
(* The lock excludes.  Exclusion is not inductive: what is, is that a      *)
(* thread in its section is the one that set the lock it will delete.      *)

LockHeld ==
    overruns = 0 =>
        \A u \in User : \A w \in Worker : InSection(w, u) => lock[u] = w

\* No thread enters a section.
NoEntry == \A v \in Worker : \A u \in User : InSection(v, u)' => InSection(v, u)

\* A thread that goes on within its operation does not enter a section, unless it
\* was about to take the lock.
LEMMA GotoSection ==
    ASSUME TypeInv, NEW w \in Worker, NEW c, Goto(w, c), UNCHANGED <<op, user>>,
           pc[w] # "lock"
    PROVE  NoEntry
    BY DEF TypeInv, TypeOK, Goto, NoEntry, InSection

\* A thread that leaves its operation is in no section.
LEMMA LeaveSection ==
    ASSUME TypeInv, NEW w \in Worker, Leave(w)
    PROVE  NoEntry /\ \A u \in User : ~InSection(w, u)'
    BY DEF TypeInv, TypeOK, Leave, Goto, NoEntry, InSection

\* A thread that begins an operation is in no section: it has the lock to take,
\* or it takes none.
LEMMA BeginSection ==
    ASSUME TypeInv, NEW w \in Worker, NEW o, NEW u, NEW p, NEW j, Begin(w, o, u, p, j),
           o \in {"login", "refresh"} => p = "lock"
    PROVE  NoEntry
    BY DEF TypeInv, TypeOK, Begin, Goto, NoEntry, InSection

\* What a step of a thread does to the lock: nothing, or it takes a free one, or
\* it deletes that of its section.
Untouched == UNCHANGED <<lock, overruns>> /\ NoEntry
Taken(w) ==
    /\ lock[user[w]] = NoWorker
    /\ lock' = [lock EXCEPT ![user[w]] = w]
    /\ UNCHANGED <<op, user, overruns>>
    /\ pc' = [pc EXCEPT ![w] = pc'[w]]
Released(w) ==
    /\ InSection(w, user[w])
    /\ lock' = [lock EXCEPT ![user[w]] = NoWorker]
    /\ UNCHANGED overruns
    /\ Leave(w)

\* No command of a thread brings a second one into a section.
LEMMA LockSteps ==
    ASSUME TypeInv, NEW w \in Worker, Step(w)
    PROVE  Untouched \/ Taken(w) \/ Released(w)
<1> USE DEF bounds, redis
<1>1. ASSUME NEW next, AcquireLock(w, next)
      PROVE  Untouched \/ Taken(w)
    <2>1. UNCHANGED overruns
        BY <1>1 DEF AcquireLock
    <2>2. CASE /\ lock[user[w]] = NoWorker
               /\ lock' = [lock EXCEPT ![user[w]] = w]
               /\ Goto(w, next)
               /\ UNCHANGED <<op, user, job>>
        <3>1. pc' = [pc EXCEPT ![w] = pc'[w]]
            BY <2>2 DEF Goto, TypeInv, TypeOK
        <3> QED BY <2>1, <2>2, <3>1 DEF Taken
    <2>3. CASE UNCHANGED <<lock, pc, op, user>>
        BY <2>1, <2>3 DEF Untouched, NoEntry, InSection
    <2>4. CASE Leave(w) /\ UNCHANGED lock
        BY <2>1, <2>4, LeaveSection DEF Untouched
    <2> QED BY <1>1, <2>2, <2>3, <2>4 DEF AcquireLock
<1>2. ASSUME NEW next, RemoveTokenIndex(w, next) PROVE Untouched
    BY <1>2, GotoSection DEF RemoveTokenIndex, Untouched
<1>3. CASE AddTokenIndex(w)
    BY <1>3, GotoSection DEF AddTokenIndex, Untouched
<1>4. ASSUME Unlock(w), op[w] \in {"login", "refresh"} PROVE Released(w)
    BY <1>4 DEF Unlock, DeleteLock, Released, InSection
<1>5. CASE Login(w)
    <2>1. CASE LoginSize(w)
        BY <2>1, GotoSection DEF LoginSize, Untouched
    <2>2. CASE LoginPop(w)
        BY <2>2, GotoSection DEF LoginPop, Untouched
    <2>3. CASE LoginPush(w)
        BY <2>3, GotoSection DEF LoginPush, Untouched
    <2> QED BY <1>1, <1>2, <1>3, <1>4, <1>5, <2>1, <2>2, <2>3 DEF Login
<1>6. CASE Refresh(w)
    <2>1. CASE RefreshRange(w)
        BY <2>1, GotoSection DEF RefreshRange, Untouched
    <2>2. CASE RefreshSet(w)
        BY <2>2, GotoSection DEF RefreshSet, Untouched
    <2> QED BY <1>1, <1>2, <1>3, <1>4, <1>6, <2>1, <2>2 DEF Refresh
<1>7. CASE Logout(w)
    <2>1. CASE LogoutRange(w)
        BY <2>1, GotoSection DEF LogoutRange, Untouched
    <2>2. CASE LogoutNext(w)
        BY <2>2, GotoSection DEF LogoutNext, Untouched
    <2>3. CASE LogoutDelete(w)
        BY <2>3, LeaveSection DEF LogoutDelete, Untouched
    <2> QED BY <1>2, <1>7, <2>1, <2>2, <2>3 DEF Logout
<1>8. CASE Sweep(w)
    <2>1. CASE SweepRange(w)
        BY <2>1, GotoSection DEF SweepRange, Untouched
    <2>2. CASE SweepNext(w)
        <3>1. UNCHANGED <<lock, overruns>>
            BY <2>2 DEF SweepNext
        <3>2. Leave(w) \/ (pc[w] = "next" /\ UNCHANGED <<op, user>>
                           /\ (UNCHANGED pc \/ Goto(w, "del") \/ Goto(w, "lset")))
            BY <2>2 DEF SweepNext
        <3>3. CASE UNCHANGED <<pc, op, user>>
            BY <3>1, <3>3 DEF Untouched, NoEntry, InSection
        <3> QED BY <3>1, <3>2, <3>3, GotoSection, LeaveSection DEF Untouched
    <2>3. CASE SweepSet(w)
        BY <2>3, GotoSection, LeaveSection DEF SweepSet, Untouched
    <2>4. CASE SweepRemove(w)
        BY <2>4, GotoSection DEF SweepRemove, Untouched
    <2>5. CASE SweepDelete(w)
        BY <2>5, LeaveSection DEF SweepDelete, Untouched
    <2> QED BY <1>2, <1>8, <2>1, <2>2, <2>3, <2>4, <2>5 DEF Sweep
<1> QED BY <1>5, <1>6, <1>7, <1>8 DEF Step

\* A step that leaves the lock alone and enters no section keeps LockHeld.
LEMMA UntouchedKeeps ==
    ASSUME LockHeld, Untouched
    PROVE  LockHeld'
    BY DEF LockHeld, Untouched, NoEntry

\* LockHeld is inductive, relative to the types.
LEMMA LockNext == TypeInv /\ LockHeld /\ [Next]_vars => LockHeld'
<1> SUFFICES ASSUME TypeInv, LockHeld, [Next]_vars PROVE LockHeld'
    OBVIOUS
<1>1. CASE Tick
    <2>1. Untouched
        BY <1>1 DEF Tick, redis, workers, bounds, Untouched, NoEntry, InSection
    <2> QED BY <2>1, UntouchedKeeps
<1>2. ASSUME NEW w \in Worker, Start(w) PROVE LockHeld'
    <2>1. UNCHANGED <<lock, overruns>>
        BY <1>2 DEF Start, StartLogin, StartLogout, StartSweep, StartRefresh, redis, bounds
    <2>2. NoEntry
        BY <1>2, BeginSection DEF Start, StartLogin, StartLogout, StartSweep, StartRefresh
    <2> QED BY <2>1, <2>2, UntouchedKeeps DEF Untouched
<1>3. ASSUME NEW w \in Worker, Step(w) PROVE LockHeld'
    <2>1. CASE Untouched
        BY <2>1, UntouchedKeeps
    <2>2. CASE Taken(w)
        <3> SUFFICES ASSUME overruns' = 0, NEW u \in User, NEW v \in Worker,
                            InSection(v, u)'
                     PROVE  lock'[u] = v
            BY DEF LockHeld
        <3>1. CASE u = user[w]
            <4>1. lock'[u] = w
                BY <2>2, <3>1 DEF Taken, TypeInv, TypeOK
            <4>2. CASE v # w
                <5>1. InSection(v, u)
                    BY <2>2, <4>2 DEF Taken, InSection, TypeInv, TypeOK
                <5>2. lock[u] = v
                    BY <2>2, <5>1 DEF LockHeld, Taken
                <5> QED BY <2>2, <3>1, <5>2, WorkerAssumption DEF Taken
            <4> QED BY <4>1, <4>2
        <3>2. CASE u # user[w]
            <4>1. v # w
                BY <2>2, <3>2 DEF Taken, InSection
            <4>2. InSection(v, u)
                BY <2>2, <4>1 DEF Taken, InSection, TypeInv, TypeOK
            <4> QED BY <2>2, <3>2, <4>2 DEF Taken, LockHeld, TypeInv, TypeOK
        <3> QED BY <3>1, <3>2
    <2>3. CASE Released(w)
        <3> SUFFICES ASSUME overruns' = 0, NEW u \in User, NEW v \in Worker,
                            InSection(v, u)'
                     PROVE  lock'[u] = v
            BY DEF LockHeld
        <3>1. v # w /\ InSection(v, u) /\ Leave(w)
            BY <2>3, LeaveSection DEF Released, NoEntry
        <3>2. overruns = 0 /\ lock[u] = v
            BY <2>3, <3>1 DEF LockHeld, Released
        <3>3. u # user[w]
            BY <2>3, <3>1, <3>2 DEF LockHeld, Released
        <3> QED BY <2>3, <3>2, <3>3 DEF Released, TypeInv, TypeOK
    <2> QED BY <1>3, <2>1, <2>2, <2>3, LockSteps
<1>4. ASSUME NEW w \in Worker, Crash(w) PROVE LockHeld'
    <2>1. Untouched
        BY <1>4, LeaveSection DEF Crash, redis, Untouched
    <2> QED BY <2>1, UntouchedKeeps
<1>5. ASSUME NEW w \in Worker, Fault(w) PROVE LockHeld'
    <2>1. UNCHANGED <<lock, overruns>>
        BY <1>5 DEF Fault, redis
    <2>2. CASE Leave(w)
        BY <2>1, <2>2, LeaveSection, UntouchedKeeps DEF Untouched
    <2>3. CASE InSection(w, user[w]) /\ Goto(w, "unlock") /\ UNCHANGED <<op, user>>
        BY <2>1, <2>3, GotoSection, UntouchedKeeps DEF Untouched, InSection
    <2> QED BY <1>5, <2>2, <2>3 DEF Fault
<1>6. ASSUME NEW u \in User, Overrun(u) PROVE LockHeld'
    <2>1. overruns' # 0
        <3>1. overruns \in Nat
            BY DEF TypeInv, TypeOK
        <3> QED BY <1>6, <3>1, RedisAssumption DEF Overrun
    <2> QED BY <2>1 DEF LockHeld
<1>7. ASSUME NEW u \in User, OrphanExpires(u) PROVE LockHeld'
    BY <1>7 DEF OrphanExpires, LockHeld, InSection, workers, bounds, TypeInv, TypeOK
<1>8. CASE UNCHANGED vars
    <2>1. Untouched
        BY <1>8 DEF vars, redis, workers, bounds, Untouched, NoEntry, InSection
    <2> QED BY <2>1, UntouchedKeeps
<1> QED BY <1>1, <1>2, <1>3, <1>4, <1>5, <1>6, <1>7, <1>8 DEF Next

\* LockHeld is an invariant of the registry.
LEMMA LockInvariant == Spec => []LockHeld
<1>1. Init => LockHeld
    BY DEF Init, LockHeld, InSection
<1> QED BY <1>1, TypeInvariant, LockNext, PTL DEF Spec

\* As long as no lock has expired under its holder, no two threads are between
\* acquireLock and releaseLock of one user, with any number of threads, crashes
\* and failing commands, and although releaseLock deletes the key unseen.
THEOREM LockExcludes == Spec => []LockExclusion
<1>1. TypeInv /\ LockHeld => LockExclusion
    BY DEF LockHeld, LockExclusion
<1> QED BY <1>1, TypeInvariant, LockInvariant, PTL
-----------------------------------------------------------------------------
(* The limit on concurrent logins.  What makes it inductive is that a      *)
(* login which found room, and has not pushed yet, still has it: only      *)
(* another push could take it, and the lock keeps that one out.            *)

Pushing(w) == op[w] = "login" /\ pc[w] = "rpush"

RoomToPush ==
    overruns = 0 =>
        \A w \in Worker : Pushing(w) => Len(list[user[w]]) < MaxActive

LimitInv == SessionLimit /\ RoomToPush

\* No list grows, and no thread gets as far as the push.
NoGrowth == \A u \in User : Len(list'[u]) <= Len(list[u])
NoPush == \A v \in Worker : Pushing(v)' => Pushing(v) /\ user'[v] = user[v]

\* A thread that goes on to another command than RPUSH needs no room.
LEMMA GotoNoPush ==
    ASSUME TypeInv, NEW w \in Worker, NEW c, Goto(w, c), UNCHANGED <<op, user>>,
           c # "rpush"
    PROVE  NoPush
    BY DEF TypeInv, TypeOK, Goto, NoPush, Pushing

\* A thread that is done needs no room.
LEMMA LeaveNoPush ==
    ASSUME TypeInv, NEW w \in Worker, Leave(w)
    PROVE  NoPush
    BY DEF TypeInv, TypeOK, Leave, Goto, NoPush, Pushing

\* A thread that begins needs no room yet.
LEMMA BeginNoPush ==
    ASSUME TypeInv, NEW w \in Worker, NEW o, NEW u, NEW p, NEW j, Begin(w, o, u, p, j),
           p # "rpush"
    PROVE  NoPush
    BY DEF TypeInv, TypeOK, Begin, Goto, NoPush, Pushing

\* A list that becomes q, not longer than it was, is no growth.
LEMMA ShorterNoGrowth ==
    ASSUME TypeInv, NEW u \in User, NEW q, Len(q) <= Len(list[u]),
           list' = [list EXCEPT ![u] = q]
    PROVE  NoGrowth
<1>1. \A v \in User : list[v] \in Seq(Stored)
    BY DEF TypeInv, TypeOK
<1>2. \A v \in User : Len(list[v]) <= Len(list[v])
    <2> SUFFICES ASSUME NEW v \in User PROVE Len(list[v]) <= Len(list[v])
        OBVIOUS
    <2>1. Len(list[v]) \in Nat
        BY <1>1
    <2> QED BY <2>1
<1>3. list'[u] = q /\ \A v \in User \ {u} : list'[v] = list[v]
    BY DEF TypeInv, TypeOK
<1> QED BY <1>2, <1>3 DEF NoGrowth

\* A step that leaves the lists alone makes none longer.
LEMMA SameNoGrowth ==
    ASSUME TypeInv, UNCHANGED list
    PROVE  NoGrowth
<1> SUFFICES ASSUME NEW v \in User PROVE Len(list'[v]) <= Len(list[v])
    BY DEF NoGrowth
<1>1. list[v] \in Seq(Stored)
    BY DEF TypeInv, TypeOK
<1>2. Len(list[v]) \in Nat
    BY <1>1
<1> QED BY <1>2

\* A deleted list is empty.
LEMMA DeletedNoGrowth ==
    ASSUME TypeInv, NEW u \in User, list' = [list EXCEPT ![u] = <<>>]
    PROVE  NoGrowth
<1>1. list[u] \in Seq(Stored)
    BY DEF TypeInv, TypeOK
<1>2. Len(<<>>) <= Len(list[u])
    BY <1>1
<1> QED BY <1>2, ShorterNoGrowth

\* What a step of a thread does to the lists: nothing, or less, unless it is the
\* size check or the push of a login.
Tame == NoGrowth /\ NoPush /\ UNCHANGED overruns

\* No command makes a list too long, nor takes the room a thread has made.
LEMMA LimitSteps ==
    ASSUME TypeInv, NEW w \in Worker, Step(w)
    PROVE  \/ Tame
           \/ op[w] = "login" /\ (LoginSize(w) \/ LoginPush(w))
<1> USE DEF bounds, redis
<1>0. op[w] # "none" => user[w] \in User
    BY DEF TypeInv, Locals
<1>1. ASSUME NEW next, AcquireLock(w, next), next # "rpush" PROVE Tame
    <2>1. NoGrowth /\ UNCHANGED overruns
        BY <1>1, SameNoGrowth DEF AcquireLock
    <2>2. CASE Goto(w, next) /\ UNCHANGED <<op, user>>
        BY <1>1, <2>1, <2>2, GotoNoPush DEF Tame
    <2>3. CASE UNCHANGED <<pc, op, user>>
        BY <2>1, <2>3 DEF Tame, NoPush, Pushing
    <2>4. CASE Leave(w)
        BY <2>1, <2>4, LeaveNoPush DEF Tame
    <2> QED BY <1>1, <2>2, <2>3, <2>4 DEF AcquireLock
<1>2. ASSUME NEW next, RemoveTokenIndex(w, next), next # "rpush" PROVE Tame
    BY <1>2, GotoNoPush, SameNoGrowth DEF RemoveTokenIndex, Tame
<1>3. CASE AddTokenIndex(w)
    BY <1>3, GotoNoPush, SameNoGrowth DEF AddTokenIndex, Tame
<1>4. CASE Unlock(w)
    BY <1>4, LeaveNoPush, SameNoGrowth DEF Unlock, Tame
<1>5. CASE Login(w)
    <2>1. CASE LoginPop(w)
        <3> DEFINE l == list[user[w]]
                   q == IF l = <<>> THEN l ELSE Tail(l)
        <3>1. user[w] \in User
            BY <1>0, <1>5 DEF Login
        <3>2. l \in Seq(Stored) /\ (l # <<>> => Len(Tail(l)) = Len(l) - 1)
            BY <3>1, ListType
        <3>3. list' = [list EXCEPT ![user[w]] = q]
            BY <2>1 DEF LoginPop
        <3>4. Len(q) <= Len(l)
            <4> HIDE DEF l
            <4>1. Len(l) \in Nat
                BY <3>2
            <4> QED BY <3>2, <4>1
        <3> HIDE DEF q
        <3>5. NoGrowth
            BY <3>1, <3>3, <3>4, ShorterNoGrowth
        <3>6. UNCHANGED overruns
            BY <2>1 DEF LoginPop
        <3>7. NoPush
            BY <2>1, GotoNoPush DEF LoginPop
        <3> QED BY <3>5, <3>6, <3>7 DEF Tame
    <2> QED BY <1>1, <1>2, <1>3, <1>4, <1>5, <2>1 DEF Login
<1>6. CASE Refresh(w)
    <2>1. CASE RefreshRange(w)
        BY <2>1, GotoNoPush, SameNoGrowth DEF RefreshRange, Tame
    <2>2. CASE RefreshSet(w)
        <3>1. user[w] \in User /\ (pc[w] = "lset" => job[w].i \in Nat /\ job[w].victim \in Stored)
            BY <1>6 DEF Refresh, TypeInv, Locals, Stored
        <3>2. /\ pc[w] = "lset" /\ UNCHANGED <<overruns, op, user>>
              /\ Goto(w, "sadd access") \/ Goto(w, "unlock")
            BY <2>2 DEF RefreshSet
        <3>3. NoPush
            BY <3>2, GotoNoPush
        <3>4. CASE UNCHANGED list
            BY <3>2, <3>3, <3>4, SameNoGrowth DEF Tame
        <3>5. CASE list' = [list EXCEPT ![user[w]][job[w].i] = job[w].victim]
            <4> DEFINE l == list[user[w]]
                       q == [l EXCEPT ![job[w].i] = job[w].victim]
            <4>1. l \in Seq(Stored)
                BY <3>1, ListType
            <4>2. Len(q) = Len(l) /\ Len(l) \in Nat
                <5>1. job[w].i \in Nat /\ job[w].victim \in Stored
                    BY <3>1, <3>2
                <5> HIDE DEF l
                <5>2. Len(q) = Len(l)
                    BY <4>1, <5>1, SetAtLemma
                <5>3. Len(l) \in Nat
                    BY <4>1
                <5> QED BY <5>2, <5>3
            <4>3. list' = [list EXCEPT ![user[w]] = q] /\ Len(q) <= Len(l)
                BY <3>5, <4>2
            <4> HIDE DEF q
            <4> QED BY <3>1, <3>2, <3>3, <4>3, ShorterNoGrowth DEF Tame
        <3> QED BY <2>2, <3>4, <3>5 DEF RefreshSet
    <2> QED BY <1>1, <1>2, <1>3, <1>4, <1>6, <2>1, <2>2 DEF Refresh
<1>7. CASE Logout(w)
    <2>0. user[w] \in User
        BY <1>0, <1>7 DEF Logout
    <2>1. CASE LogoutRange(w)
        BY <2>1, GotoNoPush, SameNoGrowth DEF LogoutRange, Tame
    <2>2. CASE LogoutNext(w)
        BY <2>2, GotoNoPush, SameNoGrowth DEF LogoutNext, Tame
    <2>3. CASE LogoutDelete(w)
        BY <2>0, <2>3, LeaveNoPush, DeletedNoGrowth DEF LogoutDelete, Tame
    <2> QED BY <1>2, <1>7, <2>1, <2>2, <2>3 DEF Logout
<1>8. CASE Sweep(w)
    <2>0. user[w] \in User
        BY <1>0, <1>8 DEF Sweep
    <2>1. CASE SweepRange(w)
        BY <2>1, GotoNoPush, SameNoGrowth DEF SweepRange, Tame
    <2>2. CASE SweepNext(w)
        <3>1. UNCHANGED overruns /\ NoGrowth
            BY <2>2, SameNoGrowth DEF SweepNext
        <3>2. Leave(w) \/ (UNCHANGED <<op, user>>
                           /\ (UNCHANGED pc \/ Goto(w, "del") \/ Goto(w, "lset")))
            BY <2>2 DEF SweepNext
        <3>3. CASE UNCHANGED <<pc, op, user>>
            BY <3>1, <3>3 DEF Tame, NoPush, Pushing
        <3> QED BY <3>1, <3>2, <3>3, GotoNoPush, LeaveNoPush DEF Tame
    <2>3. CASE SweepSet(w)
        <3>1. pc[w] = "lset" /\ UNCHANGED overruns
            BY <2>3 DEF SweepSet
        <3>2. job[w].i \in Nat /\ EXPIRED \in Stored
            BY <1>8, <3>1 DEF Sweep, TypeInv, Locals, Stored
        <3>3. CASE Leave(w) /\ UNCHANGED list
            BY <3>1, <3>3, LeaveNoPush, SameNoGrowth DEF Tame
        <3>4. CASE /\ list' = [list EXCEPT ![user[w]][job[w].i] = EXPIRED]
                   /\ Goto(w, "lrem") /\ UNCHANGED <<op, user>>
            <4> DEFINE l == list[user[w]]
                       q == [l EXCEPT ![job[w].i] = EXPIRED]
            <4>1. l \in Seq(Stored)
                BY <2>0, ListType
            <4>2. Len(q) = Len(l) /\ Len(l) \in Nat
                <5>1. job[w].i \in Nat /\ EXPIRED \in Stored
                    BY <3>2
                <5> HIDE DEF l
                <5>2. Len(q) = Len(l)
                    BY <4>1, <5>1, SetAtLemma
                <5>3. Len(l) \in Nat
                    BY <4>1
                <5> QED BY <5>2, <5>3
            <4>3. list' = [list EXCEPT ![user[w]] = q] /\ Len(q) <= Len(l)
                BY <3>4, <4>2
            <4> HIDE DEF q
            <4>4. NoPush
                BY <3>4, GotoNoPush
            <4> QED BY <2>0, <3>1, <4>3, <4>4, ShorterNoGrowth DEF Tame
        <3> QED BY <2>3, <3>3, <3>4 DEF SweepSet
    <2>4. CASE SweepRemove(w)
        <3>1. list[user[w]] \in Seq(Stored)
            BY <2>0, ListType
        <3>2. Len(RemoveFirst(list[user[w]], EXPIRED)) <= Len(list[user[w]])
            BY <3>1, RemoveFirstLemma
        <3>3. list' = [list EXCEPT ![user[w]] = RemoveFirst(list[user[w]], EXPIRED)]
            BY <2>4 DEF SweepRemove
        <3>4. NoGrowth
            BY <2>0, <3>2, <3>3, ShorterNoGrowth
        <3> QED BY <2>4, <3>4, GotoNoPush DEF SweepRemove, Tame
    <2>5. CASE SweepDelete(w)
        BY <2>0, <2>5, LeaveNoPush, DeletedNoGrowth DEF SweepDelete, Tame
    <2> QED BY <1>2, <1>8, <2>1, <2>2, <2>3, <2>4, <2>5 DEF Sweep
<1> QED BY <1>5, <1>6, <1>7, <1>8 DEF Step

\* A step that lets no list grow and no login get as far as its push.
LEMMA TameKeeps ==
    ASSUME TypeInv, TypeInv', LimitInv, NoGrowth, NoPush, overruns' = 0 => overruns = 0
    PROVE  LimitInv'
<1> SUFFICES ASSUME overruns' = 0
             PROVE  /\ \A u \in User : Len(list'[u]) <= MaxActive
                    /\ \A w \in Worker : Pushing(w)' => Len(list'[user'[w]]) < MaxActive
    BY DEF LimitInv, SessionLimit, RoomToPush
<1>1. \A u \in User : list[u] \in Seq(Stored) /\ list'[u] \in Seq(Stored)
    BY DEF TypeInv, TypeOK
<1>2. \A u \in User : Len(list[u]) \in Nat /\ Len(list'[u]) \in Nat
    <2> SUFFICES ASSUME NEW u \in User PROVE Len(list[u]) \in Nat /\ Len(list'[u]) \in Nat
        OBVIOUS
    <2>1. list[u] \in Seq(Stored) /\ list'[u] \in Seq(Stored)
        BY <1>1
    <2> QED BY <2>1
<1>3. ASSUME NEW u \in User PROVE Len(list'[u]) <= MaxActive
    <2>1. Len(list'[u]) <= Len(list[u]) /\ Len(list[u]) <= MaxActive
        BY DEF NoGrowth, LimitInv, SessionLimit
    <2> QED BY <1>2, <2>1, RedisAssumption
<1>4. ASSUME NEW w \in Worker, Pushing(w)' PROVE Len(list'[user'[w]]) < MaxActive
    <2>1. Pushing(w) /\ user'[w] = user[w]
        BY <1>4 DEF NoPush
    <2>2. user[w] \in User
        BY <2>1 DEF Pushing, TypeInv, Locals
    <2>3. Len(list'[user[w]]) <= Len(list[user[w]]) /\ Len(list[user[w]]) < MaxActive
        BY <2>1, <2>2 DEF NoGrowth, LimitInv, RoomToPush
    <2> QED BY <1>2, <2>1, <2>2, <2>3, RedisAssumption
<1> QED BY <1>3, <1>4

\* The size check lets a login through only if there is room.
LEMMA LoginSizeLimit ==
    ASSUME TypeInv, LimitInv, NEW w \in Worker, op[w] = "login", LoginSize(w)
    PROVE  LimitInv'
<1>1. /\ UNCHANGED <<list, overruns, op, user>>
      /\ Goto(w, IF Len(list[user[w]]) >= MaxActive THEN "lpop" ELSE "rpush")
    BY DEF LoginSize, redis, bounds
<1>2. user[w] \in User
    BY DEF TypeInv, Locals
<1>3. Len(list[user[w]]) \in Nat
    <2>1. list[user[w]] \in Seq(Stored)
        BY <1>2, ListType
    <2> QED BY <2>1
<1>4. Pushing(w)' => Len(list[user[w]]) < MaxActive
    <2>1. CASE Len(list[user[w]]) >= MaxActive
        <3>1. pc'[w] = "lpop"
            BY <1>1, <2>1 DEF Goto, TypeInv, TypeOK
        <3> QED BY <3>1 DEF Pushing
    <2>2. CASE ~(Len(list[user[w]]) >= MaxActive)
        BY <1>3, <2>2, RedisAssumption
    <2> QED BY <2>1, <2>2
<1>5. \A v \in Worker \ {w} : Pushing(v)' => Pushing(v)
    BY <1>1 DEF Goto, Pushing, TypeInv, TypeOK
<1> QED BY <1>1, <1>4, <1>5 DEF LimitInv, SessionLimit, RoomToPush

\* The push uses the room of its login, which nobody else was about to use.
LEMMA LoginPushLimit ==
    ASSUME TypeInv, LockHeld, LimitInv, NEW w \in Worker, op[w] = "login", LoginPush(w)
    PROVE  LimitInv'
<1> SUFFICES ASSUME overruns' = 0
             PROVE  /\ \A u \in User : Len(list'[u]) <= MaxActive
                    /\ \A v \in Worker : Pushing(v)' => Len(list'[user'[v]]) < MaxActive
    BY DEF LimitInv, SessionLimit, RoomToPush
<1>1. /\ overruns = 0 /\ UNCHANGED <<op, user>> /\ Pushing(w) /\ Goto(w, "sadd access")
      /\ list' = [list EXCEPT ![user[w]] = Append(list[user[w]], job[w].new)]
    BY DEF LoginPush, bounds, Pushing
<1>2. user[w] \in User /\ job[w].new \in Stored
    BY DEF TypeInv, TypeOK, Locals, Stored
<1>3. Len(list'[user[w]]) = Len(list[user[w]]) + 1 /\ Len(list[user[w]]) \in Nat
    <2>1. list[user[w]] \in Seq(Stored)
        BY <1>2, ListType
    <2>2. Len(Append(list[user[w]], job[w].new)) = Len(list[user[w]]) + 1
        BY <1>2, <2>1, AppendLemma
    <2>3. Len(list[user[w]]) \in Nat
        BY <2>1
    <2> QED BY <1>1, <1>2, <2>2, <2>3 DEF TypeInv, TypeOK
<1>4. Len(list[user[w]]) < MaxActive
    BY <1>1 DEF LimitInv, RoomToPush
<1>5. Len(list'[user[w]]) <= MaxActive
    BY <1>3, <1>4, RedisAssumption
<1>6. \A u \in User \ {user[w]} : list'[u] = list[u]
    BY <1>1 DEF TypeInv, TypeOK
<1>7. \A u \in User : Len(list'[u]) <= MaxActive
    BY <1>1, <1>5, <1>6 DEF LimitInv, SessionLimit
<1>8. ASSUME NEW v \in Worker, Pushing(v)' PROVE Len(list'[user'[v]]) < MaxActive
    <2>1. v # w /\ Pushing(v) /\ user'[v] = user[v]
        BY <1>1, <1>8 DEF Goto, Pushing, TypeInv, TypeOK
    <2>2. user[v] \in User
        BY <2>1 DEF Pushing, TypeInv, Locals
    <2>3. InSection(v, user[v]) /\ InSection(w, user[w])
        BY <1>1, <2>1 DEF Pushing, InSection
    <2>4. lock[user[v]] = v /\ lock[user[w]] = w
        BY <1>1, <1>2, <2>2, <2>3 DEF LockHeld
    <2>5. user[v] # user[w]
        BY <2>1, <2>4
    <2>6. Len(list[user[v]]) < MaxActive
        BY <1>1, <2>1 DEF LimitInv, RoomToPush
    <2> QED BY <1>6, <2>1, <2>2, <2>5, <2>6
<1> QED BY <1>7, <1>8

\* LimitInv is inductive, relative to the types and to the lock.
LEMMA LimitNext == TypeInv /\ TypeInv' /\ LockHeld /\ LimitInv /\ [Next]_vars => LimitInv'
<1> SUFFICES ASSUME TypeInv, TypeInv', LockHeld, LimitInv, [Next]_vars PROVE LimitInv'
    OBVIOUS
<1>1. ASSUME UNCHANGED <<list, workers, overruns>> PROVE LimitInv'
    BY <1>1 DEF LimitInv, SessionLimit, RoomToPush, Pushing, workers
<1>2. CASE Tick
    BY <1>1, <1>2 DEF Tick, redis, bounds
<1>3. ASSUME NEW w \in Worker, Start(w) PROVE LimitInv'
    <2>1. UNCHANGED <<list, overruns>>
        BY <1>3 DEF Start, StartLogin, StartLogout, StartSweep, StartRefresh, redis, bounds
    <2>2. NoPush
        BY <1>3, BeginNoPush DEF Start, StartLogin, StartLogout, StartSweep, StartRefresh
    <2> QED BY <2>1, <2>2, SameNoGrowth, TameKeeps
<1>4. ASSUME NEW w \in Worker, Step(w) PROVE LimitInv'
    BY <1>4, LimitSteps, TameKeeps, LoginSizeLimit, LoginPushLimit DEF Tame
<1>5. ASSUME NEW w \in Worker, Crash(w) PROVE LimitInv'
    <2>1. UNCHANGED <<list, overruns>> /\ Leave(w)
        BY <1>5 DEF Crash, redis
    <2> QED BY <2>1, LeaveNoPush, SameNoGrowth, TameKeeps
<1>6. ASSUME NEW w \in Worker, Fault(w) PROVE LimitInv'
    <2>1. UNCHANGED <<list, overruns>>
        BY <1>6 DEF Fault, redis
    <2>2. Leave(w) \/ (Goto(w, "unlock") /\ UNCHANGED <<op, user>>)
        BY <1>6 DEF Fault
    <2>3. NoPush
        BY <2>2, LeaveNoPush, GotoNoPush
    <2> QED BY <2>1, <2>3, SameNoGrowth, TameKeeps
<1>7. ASSUME NEW u \in User, Overrun(u) PROVE LimitInv'
    <2>1. overruns \in Nat
        BY DEF TypeInv, TypeOK
    <2>2. overruns' # 0
        BY <1>7, <2>1, RedisAssumption DEF Overrun
    <2> QED BY <2>2 DEF LimitInv, SessionLimit, RoomToPush
<1>8. ASSUME NEW u \in User, OrphanExpires(u) PROVE LimitInv'
    BY <1>1, <1>8 DEF OrphanExpires, bounds
<1>9. CASE UNCHANGED vars
    BY <1>1, <1>9 DEF vars, redis, bounds
<1> QED BY <1>2, <1>3, <1>4, <1>5, <1>6, <1>7, <1>8, <1>9 DEF Next

\* As long as no lock has expired under its holder, a user never has more stored
\* sessions than MaxActive, although the size check and the push of a login are
\* commands apart and invalidations and sweeps do without the lock.
THEOREM SessionsLimited == Spec => []SessionLimit
<1>1. Init => LimitInv
    <2> SUFFICES ASSUME Init PROVE LimitInv
        OBVIOUS
    <2>1. \A u \in User : Len(list[u]) = 0
        BY DEF Init
    <2>2. \A w \in Worker : ~Pushing(w)
        BY DEF Init, Pushing
    <2> QED BY <2>1, <2>2, RedisAssumption DEF LimitInv, SessionLimit, RoomToPush
<1>2. LimitInv => SessionLimit
    BY DEF LimitInv
<1> QED BY <1>1, <1>2, TypeInvariant, LockInvariant, LimitNext, PTL DEF Spec
-----------------------------------------------------------------------------
(* The marks of the sweeps: MarkInv counts those of a user's list against  *)
(* the sweeps between their LSET and their LREM.                           *)

MarksIn(q) == {i \in DOMAIN q : q[i] = EXPIRED}

\* A list has finitely many marks.
LEMMA MarksFinite ==
    ASSUME NEW q \in Seq(Stored)
    PROVE  IsFiniteSet(MarksIn(q)) /\ Cardinality(MarksIn(q)) \in Nat
<1>1. MarksIn(q) \in SUBSET (1 .. Len(q)) /\ Len(q) \in Nat
    BY DEF MarksIn
<1>2. IsFiniteSet(1 .. Len(q))
    BY <1>1, FS_Interval
<1>3. IsFiniteSet(MarksIn(q))
    BY <1>1, <1>2, FS_Subset
<1> QED BY <1>3, FS_CardinalityType

\* Indices that map one to one into a finite set are at most as many.
LEMMA InjectionLemma ==
    ASSUME NEW S, NEW T, IsFiniteSet(T), NEW f \in [S -> T],
           \A a, b \in S : f[a] = f[b] => a = b
    PROVE  Cardinality(S) <= Cardinality(T)
<1>1. f \in Injection(S, T)
    BY DEF Injection, IsInjective
<1> QED BY <1>1, FS_Injection

\* Popping a list takes no mark into it.
LEMMA TailMarks ==
    ASSUME NEW q \in Seq(Stored), q # <<>>
    PROVE  Cardinality(MarksIn(Tail(q))) <= Cardinality(MarksIn(q))
<1> DEFINE f == [i \in MarksIn(Tail(q)) |-> i + 1]
<1>1. \A i \in DOMAIN Tail(q) : i \in Nat /\ i + 1 \in DOMAIN q /\ Tail(q)[i] = q[i + 1]
    OBVIOUS
<1>2. f \in [MarksIn(Tail(q)) -> MarksIn(q)]
    BY <1>1 DEF MarksIn
<1>3. \A a, b \in MarksIn(Tail(q)) : f[a] = f[b] => a = b
    BY <1>1 DEF MarksIn
<1> HIDE DEF f
<1> QED BY <1>2, <1>3, MarksFinite, InjectionLemma

\* Pushing a session adds no mark.
LEMMA AppendMarks ==
    ASSUME NEW q \in Seq(Stored), NEW p \in Pair
    PROVE  MarksIn(Append(q, p)) = MarksIn(q)
<1>1. p # EXPIRED
    BY MarkAssumption
<1>2. /\ DOMAIN Append(q, p) = 1 .. Len(q) + 1 /\ DOMAIN q = 1 .. Len(q) /\ Len(q) \in Nat
      /\ \A i \in 1 .. Len(q) : Append(q, p)[i] = q[i]
      /\ Append(q, p)[Len(q) + 1] = p
    OBVIOUS
<1>3. \A i \in 1 .. Len(q) + 1 : i \in 1 .. Len(q) \/ i = Len(q) + 1
    BY <1>2
<1>4. 1 .. Len(q) \subseteq 1 .. Len(q) + 1
    BY <1>2
<1> QED BY <1>1, <1>2, <1>3, <1>4 DEF MarksIn

\* Writing an entry makes at most that entry a mark, and none if it is a session.
LEMMA SetAtMarks ==
    ASSUME NEW q \in Seq(Stored), NEW i \in Nat, NEW x \in Stored
    PROVE  /\ Cardinality(MarksIn([q EXCEPT ![i] = x])) <= Cardinality(MarksIn(q)) + 1
           /\ x \in Pair => Cardinality(MarksIn([q EXCEPT ![i] = x])) <= Cardinality(MarksIn(q))
<1> DEFINE r == [q EXCEPT ![i] = x]
<1>1. /\ DOMAIN r = DOMAIN q
      /\ \A k \in DOMAIN q : r[k] = q[k] \/ (k = i /\ r[k] = x)
    OBVIOUS
<1> HIDE DEF r
<1>2. /\ MarksIn(r) \in SUBSET (MarksIn(q) \union {i})
      /\ x \in Pair => MarksIn(r) \in SUBSET MarksIn(q)
    BY <1>1, MarkAssumption DEF MarksIn
<1>3. /\ IsFiniteSet(MarksIn(q)) /\ Cardinality(MarksIn(q)) \in Nat
      /\ IsFiniteSet(MarksIn(q) \union {i})
      /\ Cardinality(MarksIn(q) \union {i}) <= Cardinality(MarksIn(q)) + 1
    <2>1. IsFiniteSet(MarksIn(q)) /\ Cardinality(MarksIn(q)) \in Nat
        BY MarksFinite
    <2>2. /\ IsFiniteSet(MarksIn(q) \union {i})
          /\ Cardinality(MarksIn(q) \union {i}) =
                 IF i \in MarksIn(q) THEN Cardinality(MarksIn(q)) ELSE Cardinality(MarksIn(q)) + 1
        BY <2>1, FS_AddElement
    <2> QED BY <2>1, <2>2
<1>4. Cardinality(MarksIn(r)) \in Nat
    <2>1. IsFiniteSet(MarksIn(r))
        BY <1>2, <1>3, FS_Subset
    <2> QED BY <2>1, FS_CardinalityType
<1>5. Cardinality(MarksIn(r)) <= Cardinality(MarksIn(q) \union {i})
    BY <1>2, <1>3, FS_Subset
<1>6. Cardinality(MarksIn(q) \union {i}) \in Nat
    BY <1>3, FS_CardinalityType
<1>7. x \in Pair => Cardinality(MarksIn(r)) <= Cardinality(MarksIn(q))
    BY <1>2, <1>3, FS_Subset
<1> QED BY <1>3, <1>4, <1>5, <1>6, <1>7 DEF r

\* What is left when the entry at a position is removed.
LEMMA RemoveAtEntries ==
    ASSUME NEW q \in Seq(Stored), NEW i \in DOMAIN q
    PROVE  \A k \in 1 .. Len(q) - 1 :
               RemoveAt(q, i)[k] = IF k < i THEN q[k] ELSE q[k + 1]
<1> DEFINE a == SubSeq(q, 1, i - 1)
           b == SubSeq(q, i + 1, Len(q))
<1>1. Len(q) \in Nat /\ i \in 1 .. Len(q) /\ \A j \in 1 .. Len(q) : q[j] \in Stored
    OBVIOUS
<1>2. a \in Seq(Stored) /\ Len(a) = i - 1 /\ \A k \in 1 .. i - 1 : a[k] = q[k]
    BY <1>1, SubSeqProperties
<1>3. b \in Seq(Stored) /\ Len(b) = Len(q) - i /\ \A k \in 1 .. Len(q) - i : b[k] = q[k + i]
    BY <1>1, SubSeqProperties
<1>4. RemoveAt(q, i) = a \o b
    BY DEF RemoveAt
<1> HIDE DEF a, b
<1>5. \A k \in 1 .. Len(q) - 1 : (a \o b)[k] = IF k <= i - 1 THEN a[k] ELSE b[k - (i - 1)]
    BY SMTT(30), <1>1, <1>2, <1>3, ConcatProperties
<1> SUFFICES ASSUME NEW k \in 1 .. Len(q) - 1
             PROVE  (a \o b)[k] = IF k < i THEN q[k] ELSE q[k + 1]
    BY <1>4
<1>6. CASE k < i
    BY <1>1, <1>2, <1>5, <1>6
<1>7. CASE ~(k < i)
    <2>1. k - (i - 1) \in 1 .. Len(q) - i /\ k - (i - 1) + i = k + 1 /\ ~(k <= i - 1)
        BY <1>1, <1>7
    <2>2. b[k - (i - 1)] = q[k + 1]
        BY <1>3, <2>1
    <2> QED BY <1>5, <1>7, <2>1, <2>2
<1> QED BY <1>6, <1>7

\* Removing a mark leaves one less.
LEMMA RemoveMarks ==
    ASSUME NEW q \in Seq(Stored), MarksIn(q) # {}
    PROVE  Cardinality(MarksIn(RemoveFirst(q, EXPIRED))) <= Cardinality(MarksIn(q)) - 1
<1> DEFINE I == {i \in 1 .. Len(q) : q[i] = EXPIRED}
           m == Min(I)
           r == RemoveAt(q, m)
           f == [k \in MarksIn(r) |-> IF k < m THEN k ELSE k + 1]
<1>1. EXPIRED \in Range(q)
    BY DEF MarksIn, Range
<1>2. I # {} /\ m \in DOMAIN q /\ q[m] = EXPIRED
    BY <1>1, FirstIndexLemma
<1>3. RemoveFirst(q, EXPIRED) = r
    BY <1>2 DEF RemoveFirst, SelectInSeq
<1> HIDE DEF I, m
<1>4. r \in Seq(Stored) /\ Len(r) = Len(q) - 1
    BY <1>2, RemoveAtLemma
<1>5. \A k \in DOMAIN r : r[k] = IF k < m THEN q[k] ELSE q[k + 1]
    <2>1. DOMAIN r = 1 .. Len(q) - 1
        <3> HIDE DEF r
        <3> QED BY <1>4
    <2> QED BY <1>2, <2>1, RemoveAtEntries
<1> HIDE DEF r
<1>6. \A k \in DOMAIN r : k \in Nat /\ k \in DOMAIN q /\ k + 1 \in DOMAIN q
    BY <1>4
<1>7. m \in MarksIn(q) /\ m \in Nat
    BY <1>2 DEF MarksIn
<1>8. f \in [MarksIn(r) -> MarksIn(q) \ {m}]
    <2> SUFFICES ASSUME NEW k \in MarksIn(r)
                 PROVE  (IF k < m THEN k ELSE k + 1) \in MarksIn(q) \ {m}
        OBVIOUS
    <2>1. k \in DOMAIN r /\ r[k] = EXPIRED
        BY DEF MarksIn
    <2>2. k \in Nat /\ k \in DOMAIN q /\ k + 1 \in DOMAIN q
        BY <1>6, <2>1
    <2> QED BY <1>5, <1>7, <2>1, <2>2 DEF MarksIn
<1>9. \A a, b \in MarksIn(r) : f[a] = f[b] => a = b
    BY <1>6, <1>7 DEF MarksIn
<1> HIDE DEF f
<1>10. IsFiniteSet(MarksIn(q)) /\ Cardinality(MarksIn(q)) \in Nat
    BY MarksFinite
<1>11. /\ IsFiniteSet(MarksIn(q) \ {m})
       /\ Cardinality(MarksIn(q) \ {m}) = Cardinality(MarksIn(q)) - 1
    BY <1>7, <1>10, FS_RemoveElement
<1>12. Cardinality(MarksIn(r)) <= Cardinality(MarksIn(q) \ {m})
    BY <1>8, <1>9, <1>11, InjectionLemma
<1> QED BY <1>3, <1>11, <1>12

\* The sweeps that are between their LSET and their LREM are finitely many, and no
\* user's list has more marks than the user has such sweeps.
MarkInv ==
    crashes + faults = 0 =>
        \A u \in User : /\ IsFiniteSet(Markers(u))
                        /\ Cardinality(Marks(u)) <= Cardinality(Markers(u))

\* What all commands do to marks and sweeps but the two that write and remove a mark.
NoMoreMarks ==
    \A u \in User : Cardinality(MarksIn(list'[u])) <= Cardinality(MarksIn(list[u]))
SameMarkers == \A u \in User : Markers(u)' = Markers(u)
Markless == NoMoreMarks /\ SameMarkers /\ UNCHANGED <<crashes, faults>>

\* A list that becomes q.
LEMMA BecomesNoMarks ==
    ASSUME TypeInv, NEW u \in User, NEW q, list' = [list EXCEPT ![u] = q],
           Cardinality(MarksIn(q)) <= Cardinality(MarksIn(list[u]))
    PROVE  NoMoreMarks
<1>1. list'[u] = q /\ \A v \in User \ {u} : list'[v] = list[v]
    BY DEF TypeInv, TypeOK
<1>2. \A v \in User : Cardinality(MarksIn(list[v])) \in Nat
    BY ListType, MarksFinite
<1>3. \A v \in User : Cardinality(MarksIn(list[v])) <= Cardinality(MarksIn(list[v]))
    BY <1>2
<1> QED BY <1>1, <1>3 DEF NoMoreMarks

\* A list that stays as it is, or is deleted.
LEMMA SameNoMarks ==
    ASSUME TypeInv, UNCHANGED list
    PROVE  NoMoreMarks
<1>1. \A u \in User : Cardinality(MarksIn(list[u])) \in Nat
    BY ListType, MarksFinite
<1> QED BY <1>1 DEF NoMoreMarks

\* A list that is deleted has no marks.
LEMMA DeletedNoMarks ==
    ASSUME TypeInv, NEW u \in User, list' = [list EXCEPT ![u] = <<>>]
    PROVE  NoMoreMarks
<1>1. Cardinality(MarksIn(<<>>)) = 0
    <2>1. MarksIn(<<>>) = {}
        BY DEF MarksIn
    <2> QED BY <2>1, FS_EmptySet
<1>2. Cardinality(MarksIn(list[u])) \in Nat
    BY ListType, MarksFinite
<1>3. Cardinality(MarksIn(<<>>)) <= Cardinality(MarksIn(list[u]))
    BY <1>1, <1>2
<1> QED BY <1>3, BecomesNoMarks

\* A thread that neither begins nor ends to be such a sweep.
LEMMA SameMarkersLemma ==
    ASSUME TypeInv, NEW w \in Worker, pc[w] # "lrem", pc'[w] # "lrem",
           \A v \in Worker \ {w} : pc'[v] = pc[v] /\ user'[v] = user[v]
    PROVE  SameMarkers
    BY DEF SameMarkers, Markers

\* A thread that goes on among the other commands leaves who is marking as it was.
LEMMA GotoMarkers ==
    ASSUME TypeInv, NEW w \in Worker, NEW c, Goto(w, c), UNCHANGED user,
           pc[w] # "lrem", c # "lrem"
    PROVE  SameMarkers
<1>1. pc'[w] # "lrem" /\ \A v \in Worker \ {w} : pc'[v] = pc[v] /\ user'[v] = user[v]
    BY DEF TypeInv, TypeOK, Goto
<1> QED BY <1>1, SameMarkersLemma

\* So does one that ends its operation elsewhere,
LEMMA LeaveMarkers ==
    ASSUME TypeInv, NEW w \in Worker, Leave(w), pc[w] # "lrem"
    PROVE  SameMarkers
<1>1. pc'[w] # "lrem" /\ \A v \in Worker \ {w} : pc'[v] = pc[v] /\ user'[v] = user[v]
    BY DEF TypeInv, TypeOK, Leave, Goto
<1> QED BY <1>1, SameMarkersLemma

\* and one that begins with another command.
LEMMA BeginMarkers ==
    ASSUME TypeInv, NEW w \in Worker, NEW o, NEW u, NEW p, NEW j, Begin(w, o, u, p, j),
           p # "lrem"
    PROVE  SameMarkers
<1>1. pc[w] # "lrem" /\ pc'[w] # "lrem"
    BY DEF TypeInv, TypeOK, Begin, Goto
<1>2. \A v \in Worker \ {w} : pc'[v] = pc[v] /\ user'[v] = user[v]
    BY DEF TypeInv, TypeOK, Begin, Goto
<1> QED BY <1>1, <1>2, SameMarkersLemma

\* A sweep that has sent its LSET is one more, one that has sent its LREM one less.
LEMMA MarkerJoins ==
    ASSUME TypeInv, NEW w \in Worker, user[w] \in User, Goto(w, "lrem"), UNCHANGED user,
           pc[w] # "lrem"
    PROVE  \A u \in User :
               /\ u = user[w] => Markers(u)' = Markers(u) \union {w} /\ w \notin Markers(u)
               /\ u # user[w] => Markers(u)' = Markers(u)
<1>1. pc'[w] = "lrem" /\ \A v \in Worker \ {w} : pc'[v] = pc[v]
    BY DEF TypeInv, TypeOK, Goto
<1> QED BY <1>1 DEF Markers

\* A thread that goes on from the removal of its marks is no marker any more; the others stay.
LEMMA MarkerLeaves ==
    ASSUME TypeInv, NEW w \in Worker, user[w] \in User, NEW c, Goto(w, c), UNCHANGED user,
           pc[w] = "lrem", c # "lrem"
    PROVE  \A u \in User :
               /\ u = user[w] => Markers(u)' = Markers(u) \ {w} /\ w \in Markers(u)
               /\ u # user[w] => Markers(u)' = Markers(u)
<1>1. pc'[w] # "lrem" /\ \A v \in Worker \ {w} : pc'[v] = pc[v]
    BY DEF TypeInv, TypeOK, Goto
<1> QED BY <1>1 DEF Markers

\* No command adds a mark or changes who is to remove one, but the two of a sweep.
LEMMA MarkSteps ==
    ASSUME TypeInv, NEW w \in Worker, Step(w)
    PROVE  \/ Markless
           \/ op[w] = "sweep" /\ pc[w] = "lset" /\ SweepSet(w)
           \/ op[w] = "sweep" /\ SweepRemove(w)
<1> USE DEF bounds, redis
<1>0. op[w] # "none" => user[w] \in User
    BY DEF TypeInv, Locals
<1>1. ASSUME NEW next, AcquireLock(w, next), next # "lrem" PROVE Markless
    <2>1. NoMoreMarks /\ UNCHANGED <<crashes, faults>> /\ pc[w] # "lrem"
        BY <1>1, SameNoMarks DEF AcquireLock
    <2>2. CASE Goto(w, next) /\ UNCHANGED <<op, user>>
        BY <1>1, <2>1, <2>2, GotoMarkers DEF Markless
    <2>3. CASE UNCHANGED <<pc, op, user>>
        BY <2>1, <2>3 DEF Markless, SameMarkers, Markers
    <2>4. CASE Leave(w)
        BY <2>1, <2>4, LeaveMarkers DEF Markless
    <2> QED BY <1>1, <2>2, <2>3, <2>4 DEF AcquireLock
<1>2. ASSUME NEW next, RemoveTokenIndex(w, next), next # "lrem" PROVE Markless
    BY <1>2, GotoMarkers, SameNoMarks DEF RemoveTokenIndex, Markless
<1>3. CASE AddTokenIndex(w)
    BY <1>3, GotoMarkers, SameNoMarks DEF AddTokenIndex, Markless
<1>4. CASE Unlock(w)
    BY <1>4, LeaveMarkers, SameNoMarks DEF Unlock, Markless
<1>5. CASE Login(w)
    <2>0. user[w] \in User
        BY <1>0, <1>5 DEF Login
    <2>1. CASE LoginSize(w)
        BY <2>1, GotoMarkers, SameNoMarks DEF LoginSize, Markless
    <2>2. CASE LoginPop(w)
        <3> DEFINE l == list[user[w]]
                   q == IF l = <<>> THEN l ELSE Tail(l)
        <3>1. l \in Seq(Stored)
            BY <2>0, ListType
        <3>2. Cardinality(MarksIn(q)) <= Cardinality(MarksIn(l))
            <4> HIDE DEF l
            <4>1. Cardinality(MarksIn(l)) \in Nat
                BY <3>1, MarksFinite
            <4> QED BY <3>1, <4>1, TailMarks
        <3>3. list' = [list EXCEPT ![user[w]] = q]
            BY <2>2 DEF LoginPop
        <3> HIDE DEF q
        <3>4. NoMoreMarks
            BY <2>0, <3>2, <3>3, BecomesNoMarks
        <3>5. SameMarkers
            BY <2>2, GotoMarkers DEF LoginPop
        <3> QED BY <2>2, <3>4, <3>5 DEF LoginPop, Markless
    <2>3. CASE LoginPush(w)
        <3> DEFINE l == list[user[w]]
                   q == Append(l, job[w].new)
        <3>1. l \in Seq(Stored) /\ job[w].new \in Pair
            BY <1>5, <2>0, ListType DEF Login, TypeInv, TypeOK, Locals
        <3>2. Cardinality(MarksIn(q)) <= Cardinality(MarksIn(l))
            <4> HIDE DEF l
            <4>1. Cardinality(MarksIn(l)) \in Nat
                BY <3>1, MarksFinite
            <4> QED BY <3>1, <4>1, AppendMarks
        <3>3. list' = [list EXCEPT ![user[w]] = q]
            BY <2>3 DEF LoginPush
        <3> HIDE DEF q
        <3>4. NoMoreMarks
            BY <2>0, <3>2, <3>3, BecomesNoMarks
        <3>5. SameMarkers
            BY <2>3, GotoMarkers DEF LoginPush
        <3> QED BY <2>3, <3>4, <3>5 DEF LoginPush, Markless
    <2> QED BY <1>1, <1>2, <1>3, <1>4, <1>5, <2>1, <2>2, <2>3 DEF Login
<1>6. CASE Refresh(w)
    <2>0. user[w] \in User
        BY <1>0, <1>6 DEF Refresh
    <2>1. CASE RefreshRange(w)
        BY <2>1, GotoMarkers, SameNoMarks DEF RefreshRange, Markless
    <2>2. CASE RefreshSet(w)
        <3>1. /\ pc[w] = "lset" /\ UNCHANGED <<crashes, faults, user>>
              /\ Goto(w, "sadd access") \/ Goto(w, "unlock")
            BY <2>2 DEF RefreshSet
        <3>2. SameMarkers
            BY <3>1, GotoMarkers
        <3>3. CASE UNCHANGED list
            BY <3>1, <3>2, <3>3, SameNoMarks DEF Markless
        <3>4. CASE list' = [list EXCEPT ![user[w]][job[w].i] = job[w].victim]
            <4> DEFINE l == list[user[w]]
                       q == [l EXCEPT ![job[w].i] = job[w].victim]
            <4>1. l \in Seq(Stored) /\ job[w].i \in Nat /\ job[w].victim \in Pair
                BY <1>6, <2>0, <3>1, ListType DEF Refresh, TypeInv, Locals
            <4>2. Cardinality(MarksIn(q)) <= Cardinality(MarksIn(l))
                <5> HIDE DEF l
                <5> QED BY <4>1, SetAtMarks DEF Stored
            <4>3. list' = [list EXCEPT ![user[w]] = q]
                BY <3>4
            <4> HIDE DEF q
            <4>4. NoMoreMarks
                BY <2>0, <4>2, <4>3, BecomesNoMarks
            <4> QED BY <3>1, <3>2, <4>4 DEF Markless
        <3> QED BY <2>2, <3>3, <3>4 DEF RefreshSet
    <2> QED BY <1>1, <1>2, <1>3, <1>4, <1>6, <2>1, <2>2 DEF Refresh
<1>7. CASE Logout(w)
    <2>0. user[w] \in User
        BY <1>0, <1>7 DEF Logout
    <2>1. CASE LogoutRange(w)
        BY <2>1, GotoMarkers, SameNoMarks DEF LogoutRange, Markless
    <2>2. CASE LogoutNext(w)
        BY <2>2, GotoMarkers, SameNoMarks DEF LogoutNext, Markless
    <2>3. CASE LogoutDelete(w)
        BY <2>0, <2>3, LeaveMarkers, DeletedNoMarks DEF LogoutDelete, Markless
    <2> QED BY <1>2, <1>7, <2>1, <2>2, <2>3 DEF Logout
<1>8. CASE Sweep(w)
    <2>0. user[w] \in User
        BY <1>0, <1>8 DEF Sweep
    <2>1. CASE SweepRange(w)
        BY <2>1, GotoMarkers, SameNoMarks DEF SweepRange, Markless
    <2>2. CASE SweepNext(w)
        <3>1. UNCHANGED <<crashes, faults>> /\ NoMoreMarks /\ pc[w] = "next"
            BY <2>2, SameNoMarks DEF SweepNext
        <3>2. Leave(w) \/ (UNCHANGED <<op, user>>
                           /\ (UNCHANGED pc \/ Goto(w, "del") \/ Goto(w, "lset")))
            BY <2>2 DEF SweepNext
        <3>3. CASE UNCHANGED <<pc, op, user>>
            BY <3>1, <3>3 DEF Markless, SameMarkers, Markers
        <3> QED BY <3>1, <3>2, <3>3, GotoMarkers, LeaveMarkers DEF Markless
    <2>3. CASE SweepDelete(w)
        BY <2>0, <2>3, LeaveMarkers, DeletedNoMarks DEF SweepDelete, Markless
    <2>4. CASE SweepSet(w)
        BY <1>8, <2>4 DEF Sweep, SweepSet
    <2> QED BY <1>2, <1>8, <2>1, <2>2, <2>3, <2>4 DEF Sweep
<1> QED BY <1>5, <1>6, <1>7, <1>8 DEF Step

\* Fewer marks, and the same sweeps to remove them.
LEMMA MarklessKeeps ==
    ASSUME TypeInv, TypeInv', MarkInv, NoMoreMarks, SameMarkers,
           (crashes + faults = 0)' => crashes + faults = 0
    PROVE  MarkInv'
<1> SUFFICES ASSUME (crashes + faults = 0)', NEW u \in User
             PROVE  /\ IsFiniteSet(Markers(u)')
                    /\ Cardinality(MarksIn(list'[u])) <= Cardinality(Markers(u)')
    BY DEF MarkInv, Marks, MarksIn
<1>1. /\ IsFiniteSet(Markers(u)) /\ Markers(u)' = Markers(u)
      /\ Cardinality(MarksIn(list[u])) <= Cardinality(Markers(u))
      /\ Cardinality(MarksIn(list'[u])) <= Cardinality(MarksIn(list[u]))
    BY DEF MarkInv, Marks, MarksIn, NoMoreMarks, SameMarkers
<1>2. Cardinality(MarksIn(list[u])) \in Nat
    BY ListType, MarksFinite
<1>3. Cardinality(MarksIn(list'[u])) \in Nat
    <2>1. list'[u] \in Seq(Stored)
        BY DEF TypeInv, TypeOK
    <2> QED BY <2>1, MarksFinite
<1>4. Cardinality(Markers(u)) \in Nat
    BY <1>1, FS_CardinalityType
<1> QED BY <1>1, <1>2, <1>3, <1>4

\* A mark comes with the sweep that is to remove it.
LEMMA SweepSetMarks ==
    ASSUME TypeInv, TypeInv', MarkInv, NEW w \in Worker, op[w] = "sweep", pc[w] = "lset",
           SweepSet(w)
    PROVE  MarkInv'
<1>0. user[w] \in User /\ job[w].i \in Nat /\ UNCHANGED <<crashes, faults>>
    BY DEF SweepSet, TypeInv, Locals, bounds
<1>1. CASE Leave(w) /\ UNCHANGED list
    BY <1>0, <1>1, LeaveMarkers, SameNoMarks, MarklessKeeps
<1>2. CASE /\ list' = [list EXCEPT ![user[w]][job[w].i] = EXPIRED]
           /\ Goto(w, "lrem") /\ UNCHANGED <<op, user>>
    <2> DEFINE l == list[user[w]]
               q == [l EXCEPT ![job[w].i] = EXPIRED]
    <2>1. list' = [list EXCEPT ![user[w]] = q]
        BY <1>2
    <2>2. l \in Seq(Stored)
        BY <1>0, ListType
    <2>3. Cardinality(MarksIn(q)) <= Cardinality(MarksIn(l)) + 1
        <3> HIDE DEF l
        <3> QED BY <1>0, <2>2, SetAtMarks DEF Stored
    <2> HIDE DEF q
    <2>4. list'[user[w]] = q /\ \A u \in User \ {user[w]} : list'[u] = list[u]
        BY <1>0, <2>1 DEF TypeInv, TypeOK
    <2>5. \A u \in User :
              /\ u = user[w] => Markers(u)' = Markers(u) \union {w} /\ w \notin Markers(u)
              /\ u # user[w] => Markers(u)' = Markers(u)
        BY <1>0, <1>2, MarkerJoins
    <2> SUFFICES ASSUME (crashes + faults = 0)', NEW u \in User
                 PROVE  /\ IsFiniteSet(Markers(u)')
                        /\ Cardinality(MarksIn(list'[u])) <= Cardinality(Markers(u)')
        BY DEF MarkInv, Marks, MarksIn
    <2>6. IsFiniteSet(Markers(u)) /\ Cardinality(MarksIn(list[u])) <= Cardinality(Markers(u))
        BY <1>0 DEF MarkInv, Marks, MarksIn
    <2>7. CASE u # user[w]
        BY <2>4, <2>5, <2>6, <2>7
    <2>8. CASE u = user[w]
        <3>1. /\ IsFiniteSet(Markers(u) \union {w})
              /\ Cardinality(Markers(u) \union {w}) = Cardinality(Markers(u)) + 1
            BY <2>5, <2>6, <2>8, FS_AddElement
        <3>2. Cardinality(MarksIn(l)) \in Nat
            BY <2>2, MarksFinite
        <3>3. Cardinality(MarksIn(q)) \in Nat
            <4>1. q \in Seq(Stored)
                BY <1>0, <2>4 DEF TypeInv, TypeOK
            <4> QED BY <4>1, MarksFinite
        <3>4. Cardinality(Markers(u)) \in Nat
            BY <2>6, FS_CardinalityType
        <3>5. Cardinality(MarksIn(l)) <= Cardinality(Markers(u))
            BY <2>6, <2>8
        <3>6. Cardinality(MarksIn(q)) <= Cardinality(Markers(u)) + 1
            BY <2>3, <3>2, <3>3, <3>4, <3>5
        <3>7. Markers(u)' = Markers(u) \union {w} /\ list'[u] = q
            BY <2>4, <2>5, <2>8
        <3>8. Cardinality(MarksIn(q)) <= Cardinality(Markers(u) \union {w})
            BY <3>1, <3>6
        <3> QED BY Zenon, <3>1, <3>7, <3>8
    <2> QED BY <2>7, <2>8
<1> QED BY <1>1, <1>2 DEF SweepSet

\* A sweep removes a mark, if its user's list still has one, whoever wrote it.
LEMMA SweepRemoveMarks ==
    ASSUME TypeInv, TypeInv', MarkInv, NEW w \in Worker, op[w] = "sweep", SweepRemove(w)
    PROVE  MarkInv'
<1> DEFINE l == list[user[w]]
           q == RemoveFirst(l, EXPIRED)
<1>1. user[w] \in User
    BY DEF TypeInv, Locals
<1>2. l \in Seq(Stored)
    BY <1>1, ListType
<1>3. /\ list' = [list EXCEPT ![user[w]] = q] /\ pc[w] = "lrem"
      /\ Goto(w, "srem access") /\ UNCHANGED <<user, crashes, faults>>
    BY DEF SweepRemove, bounds
<1>4. \A u \in User :
          /\ u = user[w] => Markers(u)' = Markers(u) \ {w} /\ w \in Markers(u)
          /\ u # user[w] => Markers(u)' = Markers(u)
    BY <1>1, <1>3, MarkerLeaves
<1>5. list'[user[w]] = q /\ \A u \in User \ {user[w]} : list'[u] = list[u]
    <2> HIDE DEF q
    <2> QED BY <1>1, <1>3 DEF TypeInv, TypeOK
<1>6. MarksIn(l) # {} => Cardinality(MarksIn(q)) <= Cardinality(MarksIn(l)) - 1
    <2> HIDE DEF l
    <2> QED BY <1>2, RemoveMarks
<1>7. MarksIn(l) = {} => Cardinality(MarksIn(q)) = 0
    <2> HIDE DEF l
    <2> SUFFICES ASSUME MarksIn(l) = {} PROVE q = l
        BY FS_EmptySet
    <2> QED BY <1>2 DEF MarksIn, RemoveFirst
<1> SUFFICES ASSUME (crashes + faults = 0)', NEW u \in User
             PROVE  /\ IsFiniteSet(Markers(u)')
                    /\ Cardinality(MarksIn(list'[u])) <= Cardinality(Markers(u)')
    BY DEF MarkInv, Marks, MarksIn
<1>8. IsFiniteSet(Markers(u)) /\ Cardinality(MarksIn(list[u])) <= Cardinality(Markers(u))
    BY <1>3 DEF MarkInv, Marks, MarksIn
<1>9. CASE u # user[w]
    BY <1>4, <1>5, <1>8, <1>9
<1>10. CASE u = user[w]
    <2> HIDE DEF q
    <2>1. /\ IsFiniteSet(Markers(u) \ {w})
          /\ Cardinality(Markers(u) \ {w}) = Cardinality(Markers(u)) - 1
        BY <1>4, <1>8, <1>10, FS_RemoveElement
    <2>2. Cardinality(MarksIn(l)) \in Nat
        BY <1>2, MarksFinite
    <2>3. Cardinality(MarksIn(q)) \in Nat
        <3>1. q \in Seq(Stored)
            BY <1>1, <1>5 DEF TypeInv, TypeOK
        <3> QED BY <3>1, MarksFinite
    <2>4. Cardinality(Markers(u)) \in Nat /\ Cardinality(Markers(u) \ {w}) \in Nat
        BY <1>8, <2>1, FS_CardinalityType
    <2>5. Cardinality(MarksIn(l)) <= Cardinality(Markers(u))
        BY <1>8, <1>10
    <2>6. Cardinality(MarksIn(q)) <= Cardinality(Markers(u) \ {w})
        BY <1>6, <1>7, <2>1, <2>2, <2>3, <2>4, <2>5
    <2>7. Markers(u)' = Markers(u) \ {w} /\ list'[u] = q
        BY <1>4, <1>5, <1>10
    <2> QED BY Zenon, <2>1, <2>6, <2>7
<1> QED BY <1>9, <1>10

\* MarkInv is inductive, relative to the types.
LEMMA MarkNext == TypeInv /\ TypeInv' /\ MarkInv /\ [Next]_vars => MarkInv'
<1> SUFFICES ASSUME TypeInv, TypeInv', MarkInv, [Next]_vars PROVE MarkInv'
    OBVIOUS
<1>1. ASSUME UNCHANGED <<list, workers, crashes, faults>> PROVE MarkInv'
    BY <1>1 DEF MarkInv, Marks, Markers, workers
<1>2. CASE Tick
    BY <1>1, <1>2 DEF Tick, redis, bounds
<1>3. ASSUME NEW w \in Worker, Start(w) PROVE MarkInv'
    <2>1. UNCHANGED <<list, crashes, faults>>
        BY <1>3 DEF Start, StartLogin, StartLogout, StartSweep, StartRefresh, redis, bounds
    <2>2. SameMarkers
        BY <1>3, BeginMarkers DEF Start, StartLogin, StartLogout, StartSweep, StartRefresh
    <2> QED BY <2>1, <2>2, SameNoMarks, MarklessKeeps
<1>4. ASSUME NEW w \in Worker, Step(w) PROVE MarkInv'
    BY <1>4, MarkSteps, MarklessKeeps, SweepSetMarks, SweepRemoveMarks DEF Markless
<1>5. crashes \in Nat /\ faults \in Nat
    BY DEF TypeInv, TypeOK
<1>6. ASSUME NEW w \in Worker, Crash(w) \/ Fault(w) PROVE MarkInv'
    <2>1. (crashes + faults)' = crashes + faults + 1
        BY <1>5, <1>6 DEF Crash, Fault
    <2> QED BY <1>5, <2>1 DEF MarkInv
<1>7. ASSUME NEW u \in User, Overrun(u) \/ OrphanExpires(u) PROVE MarkInv'
    BY <1>1, <1>7 DEF Overrun, OrphanExpires, bounds
<1>8. CASE UNCHANGED vars
    BY <1>1, <1>8 DEF vars, redis, bounds
<1> QED BY <1>2, <1>3, <1>4, <1>6, <1>7, <1>8 DEF Next

\* Without a crash or a failing command, the strings a sweep writes over expired
\* sessions are never more than the sweeps about to remove one: they go with the
\* sweeps that wrote them, whatever logins, rotations, invalidations and other sweeps
\* did to the list between the two commands.
THEOREM MarksGoWithSweeps == Spec => []MarksAreTransient
<1>1. Init => MarkInv
    <2> SUFFICES ASSUME Init, NEW u \in User
                 PROVE  /\ IsFiniteSet(Markers(u))
                        /\ Cardinality(Marks(u)) <= Cardinality(Markers(u))
        BY DEF MarkInv
    <2>1. Markers(u) = {} /\ Marks(u) = {}
        BY DEF Init, Markers, Marks
    <2> QED BY <2>1, FS_EmptySet
<1>2. MarkInv => MarksAreTransient
    BY DEF MarkInv, MarksAreTransient
<1> QED BY <1>1, <1>2, TypeInvariant, MarkNext, PTL DEF Spec
=============================================================================
