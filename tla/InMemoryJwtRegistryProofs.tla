---------------------- MODULE InMemoryJwtRegistryProofs ----------------------
(***************************************************************************)
(* Proofs about InMemoryJwtRegistry, for every value of its constants.     *)
(***************************************************************************)
EXTENDS InMemoryJwtRegistry, SequenceTheorems, FiniteSetTheorems, TLAPS

-----------------------------------------------------------------------------
(* What is done to a queue: its type, its length and its elements.         *)

\* Appending puts one more element at the tail, and adds it to the range.
LEMMA AppendLemma ==
    ASSUME NEW S, NEW q \in Seq(S), NEW x \in S
    PROVE  /\ Append(q, x) \in Seq(S)
           /\ Len(Append(q, x)) = Len(q) + 1
           /\ Range(Append(q, x)) = Range(q) \union {x}
<1>1. Append(q, x) \in Seq(S) /\ Len(Append(q, x)) = Len(q) + 1
    OBVIOUS
<1>2. \A i \in 1 .. Len(q) : Append(q, x)[i] = q[i]
    OBVIOUS
<1>3. Append(q, x)[Len(q) + 1] = x
    OBVIOUS
<1>4. \A i \in DOMAIN Append(q, x) : i \in 1 .. Len(q) \/ i = Len(q) + 1
    BY <1>1
<1>5. Range(Append(q, x)) \subseteq Range(q) \union {x}
    BY <1>2, <1>3, <1>4 DEF Range
<1>6. Range(q) \union {x} \subseteq Range(Append(q, x))
    BY <1>1, <1>2, <1>3 DEF Range
<1> QED BY <1>1, <1>5, <1>6

\* Replacing every occurrence of an element keeps the length, takes that element
\* out of the range and puts the new one in.
LEMMA ReplaceAllLemma ==
    ASSUME NEW S, NEW q \in Seq(S), NEW x \in S, NEW p, p \in Range(q)
    PROVE  /\ ReplaceAll(q, p, x) \in Seq(S)
           /\ Len(ReplaceAll(q, p, x)) = Len(q)
           /\ Range(ReplaceAll(q, p, x)) = (Range(q) \ {p}) \union {x}
<1> DEFINE r == ReplaceAll(q, p, x)
<1>1. r = [i \in 1 .. Len(q) |-> IF q[i] = p THEN x ELSE q[i]]
    BY DEF ReplaceAll
<1>2. r \in Seq(S) /\ Len(r) = Len(q)
    BY <1>1
<1>3. Range(r) \subseteq (Range(q) \ {p}) \union {x}
    BY <1>1 DEF Range
<1>4. (Range(q) \ {p}) \union {x} \subseteq Range(r)
    BY <1>1 DEF Range
<1> QED BY <1>2, <1>3, <1>4

\* Removing one position gives a shorter sequence of the same elements, or fewer.
LEMMA RemoveAtLemma ==
    ASSUME NEW S, NEW q \in Seq(S), NEW i \in DOMAIN q
    PROVE  /\ RemoveAt(q, i) \in Seq(S)
           /\ Len(RemoveAt(q, i)) = Len(q) - 1
           /\ Range(RemoveAt(q, i)) \subseteq Range(q)
           /\ Range(q) \subseteq Range(RemoveAt(q, i)) \union {q[i]}
<1> DEFINE a == SubSeq(q, 1, i - 1)
           b == SubSeq(q, i + 1, Len(q))
           r == RemoveAt(q, i)
<1>1. Len(q) \in Nat /\ i \in 1 .. Len(q)
    OBVIOUS
<1>2. a \in Seq(S) /\ Len(a) = i - 1 /\ \A j \in 1 .. i - 1 : a[j] = q[j]
    <2>1. \A j \in 1 .. i - 1 : q[j] \in S
        BY <1>1
    <2> QED BY <1>1, <2>1, SubSeqProperties
<1>3. /\ b \in Seq(S) /\ Len(b) = Len(q) - i
      /\ \A j \in 1 .. Len(q) - i : b[j] = q[i + j]
    <2>1. \A j \in i + 1 .. Len(q) : q[j] \in S
        BY <1>1
    <2>2. /\ b \in Seq(S)
          /\ Len(b) = IF i + 1 <= Len(q) THEN Len(q) - (i + 1) + 1 ELSE 0
          /\ \A j \in 1 .. Len(q) - (i + 1) + 1 : b[j] = q[(i + 1) + j - 1]
        BY <1>1, <2>1, SubSeqProperties
    <2> QED BY <1>1, <2>2
<1>4. r = a \o b
    BY DEF RemoveAt
<1> HIDE DEF a, b, r
<1>5. /\ r \in Seq(S) /\ Len(r) = Len(q) - 1
      /\ \A j \in 1 .. Len(q) - 1 : r[j] = IF j < i THEN q[j] ELSE q[j + 1]
    <2>1. /\ a \o b \in Seq(S)
          /\ Len(a \o b) = Len(a) + Len(b)
          /\ \A j \in 1 .. Len(a) + Len(b) :
                (a \o b)[j] = IF j <= Len(a) THEN a[j] ELSE b[j - Len(a)]
        BY <1>2, <1>3, ConcatProperties
    <2>2. Len(a) = i - 1 /\ Len(b) = Len(q) - i /\ Len(a) + Len(b) = Len(q) - 1
        BY <1>1, <1>2, <1>3
    <2>3. r \in Seq(S) /\ Len(r) = Len(q) - 1
        BY <1>4, <2>1, <2>2
    <2>4. ASSUME NEW j \in 1 .. Len(q) - 1
          PROVE  r[j] = IF j < i THEN q[j] ELSE q[j + 1]
        <3>1. r[j] = IF j <= Len(a) THEN a[j] ELSE b[j - Len(a)]
            BY <1>4, <2>1, <2>2, <2>4
        <3>2. CASE j < i
            BY SMTT(20), <1>1, <1>2, <2>2, <3>1, <3>2
        <3>3. CASE ~(j < i)
            <4>1. j - (i - 1) \in 1 .. Len(q) - i /\ i + (j - (i - 1)) = j + 1
                BY <1>1, <2>4, <3>3
            <4>2. b[j - (i - 1)] = q[j + 1]
                BY <1>3, <4>1
            <4>3. ~(j <= Len(a)) /\ j - Len(a) = j - (i - 1)
                BY <1>1, <2>2, <2>4, <3>3
            <4> QED BY <3>1, <3>3, <4>2, <4>3
        <3> QED BY <3>2, <3>3
    <2> QED BY <2>3, <2>4
<1>6. Range(r) \subseteq Range(q)
    <2> SUFFICES ASSUME NEW j \in 1 .. Len(r) PROVE r[j] \in Range(q)
        BY <1>5 DEF Range
    <2>1. j \in 1 .. Len(q) /\ j + 1 \in 1 .. Len(q) /\ r[j] \in {q[j], q[j + 1]}
        BY <1>1, <1>5
    <2> QED BY <1>1, <2>1 DEF Range
<1>7. Range(q) \subseteq Range(r) \union {q[i]}
    <2> SUFFICES ASSUME NEW j \in 1 .. Len(q), j # i PROVE q[j] \in Range(r)
        BY DEF Range
    <2>1. CASE j < i
        <3>1. j \in DOMAIN r /\ r[j] = q[j]
            BY <1>1, <1>5, <2>1
        <3> QED BY <3>1 DEF Range
    <2>2. CASE j > i
        <3>1. j - 1 \in DOMAIN r /\ r[j - 1] = q[j]
            BY <1>1, <1>5, <2>2
        <3> QED BY <3>1 DEF Range
    <2> QED BY <1>1, <2>1, <2>2
<1> QED BY <1>5, <1>6, <1>7 DEF r

\* A sequence has no more elements than places.
LEMMA RangeCardinality ==
    ASSUME NEW S, NEW q \in Seq(S)
    PROVE  IsFiniteSet(Range(q)) /\ Cardinality(Range(q)) <= Len(q)
<1>1. Len(q) \in Nat /\ DOMAIN q = 1 .. Len(q)
    OBVIOUS
<1>2. q \in Surjection(1 .. Len(q), Range(q))
    BY <1>1 DEF Surjection, Range
<1>3. IsFiniteSet(1 .. Len(q)) /\ Cardinality(1 .. Len(q)) = Len(q)
    BY <1>1, FS_Interval
<1> QED BY <1>2, <1>3, FS_Surjection
-----------------------------------------------------------------------------
(* Making room keeps the type, the bound and nothing new.                  *)

\* What registerJwtInformation polls leaves room for one session, and only sessions
\* that were there.
LEMMA MakeRoomLemma ==
    ASSUME NEW S, NEW q \in Seq(S)
    PROVE  /\ MakeRoom(q) \in Seq(S)
           /\ Len(MakeRoom(q)) < MaxActive
           /\ Range(MakeRoom(q)) \subseteq Range(q)
<1>1. CASE Len(q) < MaxActive
    BY <1>1 DEF MakeRoom
<1>2. CASE ~(Len(q) < MaxActive)
    <2> DEFINE m == Len(q) - MaxActive + 2
    <2>1. MaxActive \in Nat \ {0} /\ Len(q) \in Nat
        BY RegistryAssumption
    <2>2. m \in Int /\ m >= 2 /\ \A i \in m .. Len(q) : q[i] \in S
        BY <2>1, <1>2
    <2>3. /\ SubSeq(q, m, Len(q)) \in Seq(S)
          /\ Len(SubSeq(q, m, Len(q))) = IF m <= Len(q) THEN Len(q) - m + 1 ELSE 0
          /\ \A i \in 1 .. Len(q) - m + 1 : SubSeq(q, m, Len(q))[i] = q[m + i - 1]
        BY <2>1, <2>2, SubSeqProperties
    <2>4. MakeRoom(q) = SubSeq(q, m, Len(q))
        BY <1>2 DEF MakeRoom
    <2>5. Len(MakeRoom(q)) < MaxActive
        BY <2>1, <2>3, <2>4
    <2>6. Range(MakeRoom(q)) \subseteq Range(q)
        <3> SUFFICES ASSUME NEW i \in 1 .. Len(MakeRoom(q))
                     PROVE  MakeRoom(q)[i] \in Range(q)
            BY SMTT(30), <2>3, <2>4 DEF Range
        <3>1. m + i - 1 \in 1 .. Len(q) /\ MakeRoom(q)[i] = q[m + i - 1]
            <4>1. Len(MakeRoom(q)) = IF m <= Len(q) THEN Len(q) - m + 1 ELSE 0
                BY <2>3, <2>4
            <4>2. m \in Int /\ m >= 2 /\ Len(q) \in Nat
                BY <1>2, <2>2
            <4>3. i \in 1 .. Len(q) - m + 1 /\ m + i - 1 \in 1 .. Len(q)
                BY <4>1, <4>2
            <4> QED BY <2>3, <2>4, <4>3
        <3> QED BY <3>1 DEF Range
    <2> QED BY <2>3, <2>4, <2>5, <2>6
<1> QED BY <1>1, <1>2
-----------------------------------------------------------------------------
(* Type correctness.  It is inductive together with what the threads that  *)
(* are between two steps carry.                                            *)

InFlight ==
    /\ \A w \in Worker : pc[w] # "idle" => new[w] \in minted
    /\ \A p \in minted : p.iat <= now

TypeInv == TypeOK /\ InFlight

\* Initially everything has its type.
LEMMA TypeInit == Init => TypeInv
<1> SUFFICES ASSUME Init PROVE TypeInv
    OBVIOUS
<1>1. 0 \in Time /\ 0 \in 0 .. MaxMints
    BY TimeAssumption, RegistryAssumption DEF Time
<1> QED BY <1>1 DEF Init, TypeInv, TypeOK, InFlight

\* A pair minted now is a pair, and is not from the future.
LEMMA MintedLemma ==
    ASSUME NEW u \in User, now \in Time
    PROVE  /\ MintedAt(u, now) \in Pair
           /\ MintedAt(u, now).user = u
           /\ MintedAt(u, now).iat = now
    BY DEF MintedAt, Pair

\* Minting a pair keeps the types of what it writes.
LEMMA MintType ==
    ASSUME TypeInv, NEW w \in Worker, NEW u \in User, Mint(w, u), UNCHANGED now,
           UNCHANGED held, pc' \in [Worker -> {"idle", "register", "rotate"}],
           \A v \in Worker : v # w => pc'[v] = pc[v]
    PROVE  /\ minted' \subseteq Pair /\ held' \subseteq minted' /\ reminted' \subseteq minted'
           /\ mints' \in 0 .. MaxMints
           /\ new' \in [Worker -> Pair \union {NoPair}]
           /\ InFlight'
<1> USE DEF TypeInv, TypeOK
<1>1. MintedAt(u, now) \in Pair /\ MintedAt(u, now).iat = now
    BY MintedLemma
<1>2. /\ minted' = minted \union {MintedAt(u, now)}
      /\ new' = [new EXCEPT ![w] = MintedAt(u, now)]
      /\ mints < MaxMints /\ mints' = mints + 1
    BY DEF Mint
<1>3. mints' \in 0 .. MaxMints
    BY <1>2, RegistryAssumption
<1>4. \A v \in Worker : pc'[v] # "idle" => new'[v] \in minted'
    BY <1>2 DEF InFlight
<1>5. \A p \in minted' : p.iat <= now'
    BY <1>1, <1>2, TimeAssumption DEF InFlight, Time
<1>6. reminted' \subseteq minted'
    BY <1>2 DEF Mint
<1> QED BY <1>1, <1>2, <1>3, <1>4, <1>5, <1>6 DEF InFlight

\* The end of a request keeps the types of what it writes.
LEMMA FinishType ==
    ASSUME TypeInv, NEW w \in Worker, Finish(w), UNCHANGED <<now, minting>>
    PROVE  /\ pc' \in [Worker -> {"idle", "register", "rotate"}]
           /\ old' \in [Worker -> Pair \union {NoPair}]
           /\ new' \in [Worker -> Pair \union {NoPair}]
           /\ InFlight'
    BY DEF TypeInv, TypeOK, Finish, InFlight, minting

\* Every step preserves the types.
LEMMA TypeNext == TypeInv /\ [Next]_vars => TypeInv'
<1> SUFFICES ASSUME TypeInv, [Next]_vars PROVE TypeInv'
    OBVIOUS
<1> USE DEF TypeInv, TypeOK
<1>1. CASE Tick
    <2>1. now' \in Time /\ now' = now + 1
        BY <1>1, TimeAssumption DEF Tick, Time
    <2>2. InFlight'
        BY <1>1, <2>1 DEF Tick, InFlight, threads, minting, Time, Pair
    <2> QED BY <1>1, <2>1, <2>2 DEF Tick, registry, threads, minting, history
<1>2. ASSUME NEW w \in Worker, NEW u \in User, StartLogin(w, u) PROVE TypeInv'
    <2>1. pc' \in [Worker -> {"idle", "register", "rotate"}]
        BY <1>2 DEF StartLogin
    <2>2. \A v \in Worker : v # w => pc'[v] = pc[v]
        BY <1>2 DEF StartLogin
    <2>3. Mint(w, u) /\ UNCHANGED <<now, registry, old, held, history>>
        BY <1>2 DEF StartLogin
    <2>4. /\ minted' \subseteq Pair /\ held' \subseteq minted' /\ reminted' \subseteq minted'
          /\ mints' \in 0 .. MaxMints
          /\ new' \in [Worker -> Pair \union {NoPair}]
          /\ InFlight'
        BY <2>1, <2>2, <2>3, MintType
    <2> QED BY <2>1, <2>3, <2>4 DEF registry, history
<1>3. ASSUME NEW w \in Worker, NEW p \in held, StartRefresh(w, p) PROVE TypeInv'
    <2>1. pc' \in [Worker -> {"idle", "register", "rotate"}]
        BY <1>3 DEF StartRefresh
    <2>2. \A v \in Worker : v # w => pc'[v] = pc[v]
        BY <1>3 DEF StartRefresh
    <2>3. /\ Mint(w, p.user) /\ old' = [old EXCEPT ![w] = p]
          /\ UNCHANGED <<now, registry, held, history>>
        BY <1>3 DEF StartRefresh
    <2>4. p \in Pair /\ p.user \in User
        BY DEF Pair
    <2>5. /\ minted' \subseteq Pair /\ held' \subseteq minted' /\ reminted' \subseteq minted'
          /\ mints' \in 0 .. MaxMints
          /\ new' \in [Worker -> Pair \union {NoPair}]
          /\ InFlight'
        BY <2>1, <2>2, <2>3, <2>4, MintType
    <2> QED BY <2>1, <2>3, <2>4, <2>5 DEF registry, history
<1>4. ASSUME NEW w \in Worker, Register(w) PROVE TypeInv'
    <2> DEFINE u == new[w].user
    <2>1. new[w] \in minted /\ new[w] \in Pair /\ u \in User
        BY <1>4 DEF Register, InFlight, Pair
    <2>2. MakeRoom(queue[u]) \in Seq(Pair)
        BY <2>1, MakeRoomLemma
    <2>3. Append(MakeRoom(queue[u]), new[w]) \in Seq(Pair)
        BY <2>1, <2>2, AppendLemma
    <2>4. queue' \in [User -> Seq(Pair)]
        BY <1>4, <2>3 DEF Register
    <2>5. Finish(w) /\ UNCHANGED <<now, doomed, minting, rotated>>
        BY <1>4 DEF Register
    <2>6. /\ pc' \in [Worker -> {"idle", "register", "rotate"}]
          /\ old' \in [Worker -> Pair \union {NoPair}]
          /\ new' \in [Worker -> Pair \union {NoPair}]
          /\ InFlight'
        BY <2>5, FinishType
    <2>7. keys' \subseteq User /\ doomed' \subseteq keys'
        BY <1>4, <2>1 DEF Register
    <2>8. held' \subseteq minted' /\ unmatched' \in [User -> Nat]
        BY <1>4, <2>1 DEF Register, minting
    <2>9. late' \subseteq Pair
        BY <1>4, <2>1 DEF Register
    <2>10. loggedOut' \subseteq User \ keys'
        BY <1>4, <2>1 DEF Register
    <2> QED BY <2>4, <2>5, <2>6, <2>7, <2>8, <2>9, <2>10 DEF minting
<1>5. ASSUME NEW w \in Worker, Rotate(w) PROVE TypeInv'
    <2> DEFINE u == new[w].user
    <2>1. new[w] \in minted /\ new[w] \in Pair /\ u \in User
        BY <1>5 DEF Rotate, InFlight, Pair
    <2>2. Finish(w) /\ UNCHANGED <<now, minting>> /\ held' = held \union {new[w]}
        BY <1>5 DEF Rotate
    <2>3. /\ pc' \in [Worker -> {"idle", "register", "rotate"}]
          /\ old' \in [Worker -> Pair \union {NoPair}]
          /\ new' \in [Worker -> Pair \union {NoPair}]
          /\ InFlight'
        BY <2>2, FinishType
    <2>4. CASE RotateAbsent(w)
        BY <2>1, <2>2, <2>3, <2>4 DEF RotateAbsent, registry, history, minting
    <2>5. CASE RotateFound(w)
        <3>1. ReplaceAll(queue[u], old[w], new[w]) \in Seq(Pair)
            BY <2>1, <2>5, ReplaceAllLemma DEF RotateFound
        <3>2. old[w] \in Pair
            BY <2>1, <2>5 DEF RotateFound, Range
        <3> QED BY <2>1, <2>2, <2>3, <2>5, <3>1, <3>2 DEF RotateFound, minting
    <2>6. CASE RotateNotFound(w)
        <3>1. Append(queue[u], new[w]) \in Seq(Pair)
            BY <2>1, AppendLemma
        <3> QED BY <2>1, <2>2, <2>3, <2>6, <3>1 DEF RotateNotFound, minting
    <2> QED BY <1>5, <2>4, <2>5, <2>6 DEF Rotate
<1>6. ASSUME NEW u \in User, Invalidate(u) PROVE TypeInv'
    BY <1>6 DEF Invalidate, threads, minting, history, InFlight
<1>7. ASSUME NEW p \in minted, SweepDrop(p) PROVE TypeInv'
    <2>1. p \in Pair /\ p.user \in User
        BY DEF Pair
    <2>2. PICK i \in DOMAIN queue[p.user] :
            queue' = [queue EXCEPT ![p.user] = RemoveAt(@, i)]
        BY <1>7 DEF SweepDrop
    <2>3. RemoveAt(queue[p.user], i) \in Seq(Pair)
        BY <2>1, RemoveAtLemma
    <2> QED BY <1>7, <2>1, <2>2, <2>3 DEF SweepDrop, threads, minting, history, InFlight
<1>8. ASSUME NEW u \in User, SweepFindsEmpty(u) PROVE TypeInv'
    BY <1>8 DEF SweepFindsEmpty, threads, minting, history, InFlight
<1>9. ASSUME NEW u \in User, SweepRemove(u) PROVE TypeInv'
    <2>1. Range(queue[u]) \subseteq Pair
        BY DEF Range
    <2> QED BY <1>9, <2>1 DEF SweepRemove, threads, minting, history, InFlight
<1>10. CASE UNCHANGED vars
    BY <1>10 DEF vars, registry, threads, minting, history, InFlight
<1> QED BY <1>1, <1>2, <1>3, <1>4, <1>5, <1>6, <1>7, <1>8, <1>9, <1>10
        DEF Next, Request, Sweep

\* In every behaviour of the registry each variable keeps its type; a sweep is
\* never about to remove the key of a user the map does not hold.
THEOREM TypeCorrect == Spec => []TypeOK
<1>1. TypeInv => TypeOK
    BY DEF TypeInv
<1> QED BY <1>1, TypeInit, TypeNext, PTL DEF Spec

\* TypeInv is an invariant of the registry.
LEMMA TypeInvariant == Spec => []TypeInv
    BY TypeInit, TypeNext, PTL DEF Spec
-----------------------------------------------------------------------------
(* The limit on concurrent logins.                                         *)

\* No step lets the excess over the limit outgrow the unmatched rotations.
LEMMA ExcessNext == TypeInv /\ ExcessIsUnmatched /\ [Next]_vars => ExcessIsUnmatched'
<1> SUFFICES ASSUME TypeInv, ExcessIsUnmatched, [Next]_vars
             PROVE  ExcessIsUnmatched'
    OBVIOUS
<1> USE DEF TypeInv, TypeOK, ExcessIsUnmatched
<1>1. CASE Tick
    BY <1>1 DEF Tick, registry, history
<1>2. ASSUME NEW w \in Worker, NEW u \in User, StartLogin(w, u)
      PROVE  ExcessIsUnmatched'
    BY <1>2 DEF StartLogin, registry, history
<1>3. ASSUME NEW w \in Worker, NEW p \in held, StartRefresh(w, p)
      PROVE  ExcessIsUnmatched'
    BY <1>3 DEF StartRefresh, registry, history
<1>4. ASSUME NEW w \in Worker, Register(w) PROVE ExcessIsUnmatched'
    <2> DEFINE u == new[w].user
    <2>1. new[w] \in Pair /\ u \in User
        BY <1>4 DEF Register, InFlight, Pair
    <2>2. /\ MakeRoom(queue[u]) \in Seq(Pair)
          /\ Len(MakeRoom(queue[u])) < MaxActive
        BY <2>1, MakeRoomLemma
    <2>3. Len(Append(MakeRoom(queue[u]), new[w])) = Len(MakeRoom(queue[u])) + 1
        BY <2>1, <2>2, AppendLemma
    <2>4. Len(queue'[u]) <= MaxActive + unmatched'[u]
        BY <1>4, <2>1, <2>2, <2>3, RegistryAssumption DEF Register
    <2>5. \A v \in User \ {u} : queue'[v] = queue[v] /\ unmatched'[v] = unmatched[v]
        BY <1>4 DEF Register
    <2> QED BY <2>4, <2>5
<1>5. ASSUME NEW w \in Worker, Rotate(w) PROVE ExcessIsUnmatched'
    <2> DEFINE u == new[w].user
    <2>1. new[w] \in Pair /\ u \in User
        BY <1>5 DEF Rotate, InFlight, Pair
    <2>2. CASE RotateAbsent(w)
        BY <2>2 DEF RotateAbsent, registry, history
    <2>3. CASE RotateFound(w)
        <3>1. Len(ReplaceAll(queue[u], old[w], new[w])) = Len(queue[u])
            BY <2>1, <2>3, ReplaceAllLemma DEF RotateFound
        <3>2. Len(queue'[u]) <= MaxActive + unmatched'[u]
            BY <2>1, <2>3, <3>1 DEF RotateFound
        <3>3. \A v \in User \ {u} : queue'[v] = queue[v] /\ unmatched'[v] = unmatched[v]
            BY <2>3 DEF RotateFound
        <3> QED BY <3>2, <3>3
    <2>4. CASE RotateNotFound(w)
        <3>1. Len(Append(queue[u], new[w])) = Len(queue[u]) + 1
            BY <2>1, AppendLemma
        <3>2. Len(queue[u]) <= MaxActive + unmatched[u] /\ Len(queue[u]) \in Nat
            BY <2>1
        <3>3. Len(queue'[u]) <= MaxActive + unmatched'[u]
            BY <2>1, <2>4, <3>1, <3>2, RegistryAssumption DEF RotateNotFound
        <3>4. \A v \in User \ {u} : queue'[v] = queue[v] /\ unmatched'[v] = unmatched[v]
            BY <2>4 DEF RotateNotFound
        <3> QED BY <3>3, <3>4
    <2> QED BY <1>5, <2>2, <2>3, <2>4 DEF Rotate
<1>6. ASSUME NEW u \in User, Invalidate(u) PROVE ExcessIsUnmatched'
    BY <1>6, RegistryAssumption DEF Invalidate, history
<1>7. ASSUME NEW p \in minted, SweepDrop(p) PROVE ExcessIsUnmatched'
    <2>1. p.user \in User
        BY DEF Pair
    <2>2. PICK i \in DOMAIN queue[p.user] :
            queue' = [queue EXCEPT ![p.user] = RemoveAt(@, i)]
        BY <1>7 DEF SweepDrop
    <2>3. Len(RemoveAt(queue[p.user], i)) = Len(queue[p.user]) - 1
        BY <2>1, RemoveAtLemma
    <2>4. Len(queue[p.user]) <= MaxActive + unmatched[p.user] /\ Len(queue[p.user]) \in Nat
        BY <2>1
    <2>5. Len(queue'[p.user]) <= MaxActive + unmatched[p.user]
        BY <2>1, <2>2, <2>3, <2>4, RegistryAssumption
    <2>6. unmatched' = unmatched
        BY <1>7 DEF SweepDrop, history
    <2> QED BY <2>1, <2>2, <2>5, <2>6
<1>8. ASSUME NEW u \in User, SweepFindsEmpty(u) PROVE ExcessIsUnmatched'
    BY <1>8 DEF SweepFindsEmpty, history
<1>9. ASSUME NEW u \in User, SweepRemove(u) PROVE ExcessIsUnmatched'
    BY <1>9, RegistryAssumption DEF SweepRemove, history
<1>10. CASE UNCHANGED vars
    BY <1>10 DEF vars, registry, history
<1> QED BY <1>1, <1>2, <1>3, <1>4, <1>5, <1>6, <1>7, <1>8, <1>9, <1>10
        DEF Next, Request, Sweep

\* A user never has more sessions than MaxActive plus the rotations, since the
\* last login, that found nothing to replace and added their pair all the same:
\* nothing else than those makes the code exceed the configured limit.
THEOREM SessionsBounded == Spec => []ExcessIsUnmatched
<1>1. Init => ExcessIsUnmatched
    <2> SUFFICES ASSUME Init, NEW u \in User
                 PROVE  Len(queue[u]) <= MaxActive + unmatched[u]
        BY DEF ExcessIsUnmatched
    <2>1. queue[u] = <<>> /\ unmatched[u] = 0
        BY DEF Init
    <2>2. Len(queue[u]) = 0
        BY <2>1
    <2> QED BY <2>1, <2>2, RegistryAssumption
<1> QED BY <1>1, TypeInvariant, ExcessNext, PTL DEF Spec
-----------------------------------------------------------------------------
(* Rotated pairs stay dead, those apart that were minted twice.            *)
(* RotatedStaysDead is not inductive: a thread that carries a pair some    *)
(* queue already had, or that another thread carries too, would revive it. *)

\* The pairs of a queue are its user's, and were minted.
QueuesOwn == \A u \in User : \A p \in Range(queue[u]) : p.user = u /\ p \in minted

\* A pair that was minted once is, while a thread carries it, nobody else's, and
\* new to the registry.
Unused(w) ==
    /\ ~Active(new[w])
    /\ \A v \in Worker \ {w} : pc[v] # "idle" => new[v] # new[w]

FreshInFlight ==
    \A w \in Worker : pc[w] # "idle" /\ new[w] \notin reminted
                        => Unused(w) /\ new[w] \notin rotated

RotationInv ==
    /\ rotated \subseteq minted
    /\ QueuesOwn
    /\ FreshInFlight
    /\ RotatedStaysDead

\* A new pair is none that was rotated, listed or under way, or it was minted before
\* and is a pair minted twice from now on.
LEMMA RotationMint ==
    ASSUME TypeInv, RotationInv, NEW w \in Worker, NEW u \in User,
           Mint(w, u), UNCHANGED <<queue, rotated>>,
           pc' \in [Worker -> {"idle", "register", "rotate"}],
           \A v \in Worker : v # w => pc'[v] = pc[v]
    PROVE  RotationInv'
<1> USE DEF TypeInv, TypeOK, RotationInv
<1> DEFINE p == MintedAt(u, now)
<1>1. /\ minted' = minted \union {p}
      /\ p \in minted => p \in reminted'
      /\ reminted \subseteq reminted' /\ reminted' \subseteq reminted \union {p}
      /\ new'[w] = p /\ \A v \in Worker : v # w => new'[v] = new[v]
    BY DEF Mint
<1> HIDE DEF p
<1>2. p \notin minted => ~Active(p) /\ p \notin rotated
    BY DEF QueuesOwn, Active
<1>3. \A q : Active(q)' <=> Active(q)
    BY DEF Active
<1>4. p \notin minted => \A v \in Worker : v # w /\ pc[v] # "idle" => new[v] # p
    BY DEF InFlight
<1>5. FreshInFlight'
    <2> SUFFICES ASSUME NEW v \in Worker, pc'[v] # "idle", new'[v] \notin reminted'
                 PROVE  Unused(v)' /\ new'[v] \notin rotated
        BY DEF FreshInFlight
    <2>1. CASE v = w
        BY <1>1, <1>2, <1>3, <1>4, <2>1 DEF Unused
    <2>2. CASE v # w
        <3>1. pc[v] # "idle" /\ new'[v] = new[v] /\ new[v] \notin reminted
            BY <1>1, <2>2
        <3>2. new[v] \in minted /\ new[v] # p
            BY <1>1, <3>1 DEF InFlight
        <3> QED BY <1>1, <1>3, <3>1, <3>2 DEF FreshInFlight, Unused
    <2> QED BY <2>1, <2>2
<1>6. QueuesOwn' /\ RotatedStaysDead' /\ rotated' \subseteq minted'
    BY <1>1, <1>3 DEF QueuesOwn, RotatedStaysDead
<1> QED BY <1>5, <1>6

\* What a step that only takes pairs away from the queues leaves.
LEMMA RotationShrink ==
    ASSUME RotationInv, UNCHANGED <<pc, new, minted, rotated, reminted>>,
           \A u \in User : Range(queue'[u]) \subseteq Range(queue[u])
    PROVE  RotationInv'
<1>1. \A q : Active(q)' => Active(q)
    BY DEF Active
<1> QED BY <1>1 DEF RotationInv, QueuesOwn, FreshInFlight, Unused, RotatedStaysDead

\* What a step leaves in which thread w puts the pair it carries, and nothing
\* else, into the queue of its user, and is done.
LEMMA RotationAdd ==
    ASSUME TypeInv, RotationInv, NEW w \in Worker,
           pc[w] # "idle", pc'[w] = "idle",
           \A v \in Worker : v # w => pc'[v] = pc[v] /\ new'[v] = new[v],
           UNCHANGED <<minted, reminted>>,
           Range(queue'[new[w].user]) \subseteq Range(queue[new[w].user]) \union {new[w]},
           \A v \in User : v # new[w].user => queue'[v] = queue[v]
    PROVE  /\ QueuesOwn'
           /\ \A q : Active(q)' => Active(q) \/ q = new[w]
           /\ \A v \in Worker : pc'[v] # "idle" /\ new'[v] \notin reminted
                                    => Unused(v)' /\ new'[v] \notin rotated
           /\ \A p \in rotated \ reminted : ~Active(p)'
<1> USE DEF TypeInv, TypeOK, RotationInv
<1>1. new[w] \in minted /\ new[w].user \in User
    BY DEF InFlight, Pair
<1>2. QueuesOwn'
    <2> SUFFICES ASSUME NEW v \in User, NEW p \in Range(queue'[v])
                 PROVE  p.user = v /\ p \in minted
        BY DEF QueuesOwn
    <2>1. p \in Range(queue[v]) \/ (p = new[w] /\ v = new[w].user)
        OBVIOUS
    <2> QED BY <1>1, <2>1 DEF QueuesOwn
<1>3. \A q : Active(q)' => Active(q) \/ q = new[w]
    BY DEF Active
<1>4. ASSUME NEW v \in Worker, pc'[v] # "idle", new'[v] \notin reminted
      PROVE  Unused(v)' /\ new'[v] \notin rotated
    <2>1. /\ v # w /\ pc[v] # "idle" /\ new'[v] = new[v]
          /\ new[v] # new[w] /\ new[v] \notin reminted
        BY <1>4 DEF FreshInFlight, Unused
    <2>2. new[v] \notin rotated /\ \A u \in User : new[v] \notin Range(queue'[u])
        BY <1>3, <2>1 DEF FreshInFlight, Unused, Active
    <2>3. ASSUME NEW x \in Worker \ {v}, pc'[x] # "idle" PROVE new'[x] # new'[v]
        BY <2>1, <2>3 DEF FreshInFlight, Unused
    <2> QED BY <2>1, <2>2, <2>3 DEF Unused, Active
<1>5. \A p \in rotated \ reminted : ~Active(p)'
    BY <1>3 DEF FreshInFlight, RotatedStaysDead
<1> QED BY <1>2, <1>3, <1>4, <1>5

\* No step brings a rotated pair back.
LEMMA RotationNext == TypeInv /\ RotationInv /\ [Next]_vars => RotationInv'
<1> SUFFICES ASSUME TypeInv, RotationInv, [Next]_vars PROVE RotationInv'
    OBVIOUS
<1> USE DEF TypeInv, TypeOK
<1>1. CASE Tick
    BY <1>1, RotationShrink DEF Tick, registry, threads, minting, history
<1>2. ASSUME NEW w \in Worker, NEW u \in User, StartLogin(w, u) PROVE RotationInv'
    <2>1. /\ pc' \in [Worker -> {"idle", "register", "rotate"}]
          /\ \A v \in Worker : v # w => pc'[v] = pc[v]
          /\ Mint(w, u) /\ UNCHANGED <<queue, rotated>>
        BY <1>2 DEF StartLogin, registry, history
    <2> QED BY <2>1, RotationMint
<1>3. ASSUME NEW w \in Worker, NEW p \in held, StartRefresh(w, p) PROVE RotationInv'
    <2>1. /\ pc' \in [Worker -> {"idle", "register", "rotate"}]
          /\ \A v \in Worker : v # w => pc'[v] = pc[v]
          /\ Mint(w, p.user) /\ UNCHANGED <<queue, rotated>>
        BY <1>3 DEF StartRefresh, registry, history
    <2>2. p.user \in User
        BY DEF Pair
    <2> QED BY <2>1, <2>2, RotationMint
<1>4. ASSUME NEW w \in Worker, Register(w) PROVE RotationInv'
    <2> DEFINE u == new[w].user
    <2>1. /\ new[w] \in minted /\ new[w] \in Pair /\ u \in User
          /\ pc[w] # "idle" /\ pc'[w] = "idle"
          /\ \A v \in Worker : v # w => pc'[v] = pc[v] /\ new'[v] = new[v]
          /\ UNCHANGED <<minted, reminted, rotated>>
        BY <1>4 DEF Register, Finish, InFlight, Pair, minting
    <2>2. /\ MakeRoom(queue[u]) \in Seq(Pair)
          /\ Range(MakeRoom(queue[u])) \subseteq Range(queue[u])
        BY <2>1, MakeRoomLemma
    <2>3. Range(queue'[u]) \subseteq Range(queue[u]) \union {new[w]}
        BY <1>4, <2>1, <2>2, AppendLemma DEF Register
    <2>4. \A v \in User : v # u => queue'[v] = queue[v]
        BY <1>4 DEF Register
    <2>5. /\ QueuesOwn' /\ \A p \in rotated \ reminted : ~Active(p)'
          /\ \A v \in Worker : pc'[v] # "idle" /\ new'[v] \notin reminted
                            => Unused(v)' /\ new'[v] \notin rotated
        BY <2>1, <2>3, <2>4, RotationAdd
    <2> QED BY <2>1, <2>5 DEF RotationInv, FreshInFlight, RotatedStaysDead, Active
<1>5. ASSUME NEW w \in Worker, Rotate(w) PROVE RotationInv'
    <2> DEFINE u == new[w].user
    <2>1. /\ new[w] \in minted /\ new[w] \in Pair /\ u \in User
          /\ pc[w] # "idle" /\ pc'[w] = "idle"
          /\ \A v \in Worker : v # w => pc'[v] = pc[v] /\ new'[v] = new[v]
          /\ UNCHANGED <<minted, reminted>>
        BY <1>5 DEF Rotate, Finish, InFlight, Pair, minting
    <2>2. CASE RotateAbsent(w)
        <3>1. queue' = queue /\ rotated' = rotated
            BY <2>2 DEF RotateAbsent, registry, history
        <3>2. /\ QueuesOwn' /\ \A p \in rotated \ reminted : ~Active(p)'
              /\ \A v \in Worker : pc'[v] # "idle" /\ new'[v] \notin reminted
                            => Unused(v)' /\ new'[v] \notin rotated
            BY <2>1, <3>1, RotationAdd
        <3> QED BY <2>1, <3>1, <3>2 DEF RotationInv, FreshInFlight, RotatedStaysDead
    <2>3. CASE RotateFound(w)
        <3>1. /\ old[w] \in Range(queue[u])
              /\ rotated' = rotated \union {old[w]}
              /\ \A v \in User : v # u => queue'[v] = queue[v]
            BY <2>3 DEF RotateFound
        <3>2. Range(queue'[u]) = (Range(queue[u]) \ {old[w]}) \union {new[w]}
            BY <2>1, <2>3, ReplaceAllLemma DEF RotateFound
        <3>3. old[w].user = u /\ old[w] \in minted
            BY <2>1, <3>1 DEF RotationInv, QueuesOwn
        <3>4. /\ QueuesOwn' /\ \A p \in rotated \ reminted : ~Active(p)'
              /\ \A v \in Worker : pc'[v] # "idle" /\ new'[v] \notin reminted
                            => Unused(v)' /\ new'[v] \notin rotated
            BY <2>1, <3>1, <3>2, RotationAdd
        <3>5. old[w] \notin reminted => \A v \in User : old[w] \notin Range(queue'[v])
            <4> SUFFICES ASSUME old[w] \notin reminted,
                                NEW v \in User, old[w] \in Range(queue'[v])
                         PROVE  FALSE
                OBVIOUS
            <4>1. old[w] # new[w]
                BY <2>1, <3>1 DEF RotationInv, FreshInFlight, Unused, Active
            <4>2. v # u
                BY <3>2, <4>1
            <4>3. old[w] \in Range(queue[v])
                BY <3>1, <4>2
            <4> QED BY <3>3, <4>2, <4>3 DEF RotationInv, QueuesOwn
        <3>6. \A v \in Worker \ {w} : pc[v] # "idle" /\ new[v] \notin reminted
                                        => new[v] # old[w]
            BY <2>1, <3>1 DEF RotationInv, FreshInFlight, Unused, Active
        <3>7. FreshInFlight'
            BY <2>1, <3>1, <3>4, <3>6 DEF FreshInFlight
        <3>8. RotatedStaysDead'
            BY <2>1, <3>1, <3>4, <3>5 DEF RotatedStaysDead, Active
        <3> QED BY <2>1, <3>1, <3>3, <3>4, <3>7, <3>8 DEF RotationInv
    <2>4. CASE RotateNotFound(w)
        <3>1. /\ rotated' = rotated
              /\ \A v \in User : v # u => queue'[v] = queue[v]
            BY <2>4 DEF RotateNotFound
        <3>2. Range(queue'[u]) = Range(queue[u]) \union {new[w]}
            BY <2>1, <2>4, AppendLemma DEF RotateNotFound
        <3>3. /\ QueuesOwn' /\ \A p \in rotated \ reminted : ~Active(p)'
              /\ \A v \in Worker : pc'[v] # "idle" /\ new'[v] \notin reminted
                            => Unused(v)' /\ new'[v] \notin rotated
            BY <2>1, <3>1, <3>2, RotationAdd
        <3> QED BY <2>1, <3>1, <3>3 DEF RotationInv, FreshInFlight, RotatedStaysDead, Active
    <2> QED BY <1>5, <2>2, <2>3, <2>4 DEF Rotate
<1>6. ASSUME NEW u \in User, Invalidate(u) PROVE RotationInv'
    <2>1. Range(<<>>) = {}
        BY DEF Range
    <2>2. \A v \in User : Range(queue'[v]) \subseteq Range(queue[v])
        BY <1>6, <2>1 DEF Invalidate
    <2> QED BY <1>6, <2>2, RotationShrink DEF Invalidate, threads, minting, history
<1>7. ASSUME NEW p \in minted, SweepDrop(p) PROVE RotationInv'
    <2>1. p.user \in User
        BY DEF Pair
    <2>2. PICK i \in DOMAIN queue[p.user] :
            queue' = [queue EXCEPT ![p.user] = RemoveAt(@, i)]
        BY <1>7 DEF SweepDrop
    <2>3. Range(RemoveAt(queue[p.user], i)) \subseteq Range(queue[p.user])
        BY <2>1, RemoveAtLemma
    <2>4. \A v \in User : Range(queue'[v]) \subseteq Range(queue[v])
        BY <2>1, <2>2, <2>3
    <2> QED BY <1>7, <2>4, RotationShrink DEF SweepDrop, threads, minting, history
<1>8. ASSUME NEW u \in User, SweepFindsEmpty(u) PROVE RotationInv'
    BY <1>8, RotationShrink DEF SweepFindsEmpty, threads, minting, history
<1>9. ASSUME NEW u \in User, SweepRemove(u) PROVE RotationInv'
    <2>1. Range(<<>>) = {}
        BY DEF Range
    <2>2. \A v \in User : Range(queue'[v]) \subseteq Range(queue[v])
        BY <1>9, <2>1 DEF SweepRemove
    <2> QED BY <1>9, <2>2, RotationShrink DEF SweepRemove, threads, minting, history
<1>10. CASE UNCHANGED vars
    BY <1>10, RotationShrink DEF vars, registry, threads, minting, history
<1> QED BY <1>1, <1>2, <1>3, <1>4, <1>5, <1>6, <1>7, <1>8, <1>9, <1>10
        DEF Next, Request, Sweep

\* A pair that was exchanged for a new one is never accepted again, however the
\* requests interleave with logins, logouts, other refreshes of the same token and
\* the sweep, unless the very same pair was minted a second time.
THEOREM RotationIsFinal == Spec => []RotatedStaysDead
<1>1. Init => RotationInv
    BY DEF Init, RotationInv, QueuesOwn, FreshInFlight, RotatedStaysDead, Range
<1>2. RotationInv => RotatedStaysDead
    BY DEF RotationInv
<1>3. TypeInv /\ RotationInv /\ [Next]_vars => RotationInv'
    BY RotationNext
<1> QED BY <1>1, <1>2, <1>3, TypeInvariant, PTL DEF Spec
-----------------------------------------------------------------------------
(* The registry implements the contract of JwtRegistry.                    *)

Sessions == [u \in User |-> Range(queue[u])]

\* What a step does to the sessions when it changes the queue of one user.
LEMMA SessionsExcept ==
    ASSUME TypeInv, NEW u \in User, NEW q,
           queue' = [queue EXCEPT ![u] = q]
    PROVE  Sessions' = [Sessions EXCEPT ![u] = Range(q)]
    BY DEF Sessions, TypeInv, TypeOK

\* The contract counts as the registry does.
LEMMA SameCardinality == \A S : Contract!Cardinality(S) = Cardinality(S)
    BY Zenon DEF Contract!Cardinality, Cardinality

\* The queue of a doomed user was found empty: what it holds, logins put there since.
LateInv == \A u \in doomed : Range(queue[u]) \subseteq late

\* No step puts anything else into the queue of a doomed user.
LEMMA LateNext == TypeInv /\ LateInv /\ [Next]_vars => LateInv'
<1> SUFFICES ASSUME TypeInv, LateInv, [Next]_vars, NEW x \in doomed'
             PROVE  Range(queue'[x]) \subseteq late'
    BY DEF LateInv
<1> USE DEF TypeInv, TypeOK
<1>1. CASE UNCHANGED <<queue, doomed, late>>
    BY <1>1 DEF LateInv
<1>2. ASSUME NEW w \in Worker, Register(w) PROVE Range(queue'[x]) \subseteq late'
    <2> DEFINE u == new[w].user
    <2>1. /\ new[w] \in Pair /\ u \in User /\ doomed' = doomed
          /\ late' = IF u \in doomed THEN late \union {new[w]} ELSE late
        BY <1>2 DEF Register, InFlight, Pair
    <2>2. CASE x = u
        <3>1. /\ MakeRoom(queue[u]) \in Seq(Pair)
              /\ Range(MakeRoom(queue[u])) \subseteq Range(queue[u])
            BY <2>1, MakeRoomLemma
        <3>2. Range(queue'[u]) \subseteq Range(queue[u]) \union {new[w]}
            BY <1>2, <2>1, <3>1, AppendLemma DEF Register
        <3> QED BY <2>1, <2>2, <3>2 DEF LateInv
    <2>3. CASE x # u
        BY <1>2, <2>1, <2>3 DEF LateInv, Register
    <2> QED BY <2>2, <2>3
<1>3. ASSUME NEW w \in Worker, Rotate(w) PROVE Range(queue'[x]) \subseteq late'
    BY <1>3 DEF Rotate, RotateAbsent, RotateFound, RotateNotFound, registry, history, LateInv
<1>4. ASSUME NEW u \in User, Invalidate(u) PROVE Range(queue'[x]) \subseteq late'
    BY <1>4 DEF Invalidate, history, LateInv
<1>5. ASSUME NEW p \in minted, SweepDrop(p) PROVE Range(queue'[x]) \subseteq late'
    BY <1>5 DEF SweepDrop
<1>6. ASSUME NEW u \in User, SweepFindsEmpty(u) PROVE Range(queue'[x]) \subseteq late'
    BY <1>6 DEF SweepFindsEmpty, Range
<1>7. ASSUME NEW u \in User, SweepRemove(u) PROVE Range(queue'[x]) \subseteq late'
    BY <1>7 DEF SweepRemove
<1>8. CASE Tick
    BY <1>1, <1>8 DEF Tick, registry, history
<1>9. ASSUME NEW w \in Worker, NEW u \in User, StartLogin(w, u)
      PROVE  UNCHANGED <<queue, doomed, late>>
    BY <1>9 DEF StartLogin, registry, history
<1>10. ASSUME NEW w \in Worker, NEW p \in held, StartRefresh(w, p)
       PROVE  UNCHANGED <<queue, doomed, late>>
    BY <1>10 DEF StartRefresh, registry, history
<1>11. CASE UNCHANGED vars
    BY <1>1, <1>11 DEF vars, registry, history
<1> QED BY <1>1, <1>2, <1>3, <1>4, <1>5, <1>6, <1>7, <1>8, <1>9, <1>10, <1>11
        DEF Next, Request, Sweep

\* Every step of the registry is one of the contract, or none, or the sweep takes away
\* what logins put into a queue it had found empty.
LEMMA ContractStep ==
    TypeInv /\ LateInv /\ [Next]_vars => [Contract!Next \/ LoginLost]_(Contract!vars)
<1> SUFFICES ASSUME TypeInv, LateInv, [Next]_vars
             PROVE  [Contract!Next \/ LoginLost]_(Contract!vars)
    OBVIOUS
<1> USE DEF TypeInv, TypeOK
<1>0. ASSUME UNCHANGED <<now, keys, loggedOut, queue, pc, new>> PROVE UNCHANGED Contract!vars
    BY <1>0 DEF Contract!vars, Contract!sessions, Contract!requests
<1>1. CASE Tick
    <2>1. Contract!Tick
        BY <1>1 DEF Tick, registry, threads, history, Contract!Tick, Contract!sessions, Contract!requests
    <2> QED BY <2>1 DEF Contract!Next
<1>2. ASSUME NEW w \in Worker, NEW u \in User, StartLogin(w, u) PROVE Contract!Next
    <2>1. Contract!Ask(w, u)
        BY <1>2 DEF StartLogin, Mint, registry, history, Contract!Ask, Contract!sessions,
           Contract!MintedAt, MintedAt
    <2> QED BY <2>1 DEF Contract!Next
<1>3. ASSUME NEW w \in Worker, NEW p \in held, StartRefresh(w, p) PROVE Contract!Next
    <2>1. p.user \in User
        BY DEF Pair
    <2>2. Contract!Ask(w, p.user)
        BY <1>3 DEF StartRefresh, Mint, registry, history, Contract!Ask, Contract!sessions,
           Contract!MintedAt, MintedAt
    <2> QED BY <2>1, <2>2 DEF Contract!Next
<1>4. ASSUME NEW w \in Worker, Register(w) PROVE Contract!Next
    <2> DEFINE u == new[w].user
               q == Append(MakeRoom(queue[u]), new[w])
    <2>1. new[w] \in Pair /\ u \in User
        BY <1>4 DEF Register, InFlight, Pair
    <2>2. /\ MakeRoom(queue[u]) \in Seq(Pair)
          /\ Len(MakeRoom(queue[u])) < MaxActive
          /\ Range(MakeRoom(queue[u])) \subseteq Range(queue[u])
        BY <2>1, MakeRoomLemma
    <2>3. /\ q \in Seq(Pair) /\ Len(q) = Len(MakeRoom(queue[u])) + 1
          /\ Range(q) = Range(MakeRoom(queue[u])) \union {new[w]}
        BY <2>1, <2>2, AppendLemma
    <2>4. Cardinality(Range(q)) <= MaxActive
        <3>1. IsFiniteSet(Range(q)) /\ Cardinality(Range(q)) <= Len(q)
            BY <2>3, RangeCardinality
        <3>2. Cardinality(Range(q)) \in Nat
            BY <3>1, FS_CardinalityType
        <3> QED BY <2>2, <2>3, <3>1, <3>2, RegistryAssumption
    <2>5. Sessions' = [Sessions EXCEPT ![u] = Range(q)]
        BY <1>4, <2>1, SessionsExcept DEF Register
    <2>6. Range(MakeRoom(queue[u])) \in SUBSET Sessions[u]
        BY <2>1, <2>2 DEF Sessions
    <2>7. /\ keys' = keys \union {u} /\ loggedOut' = loggedOut \ {u} /\ now' = now
          /\ pc[w] = "register" /\ new[w].user = u /\ Contract!Answer(w)
        BY <1>4 DEF Register, Finish, Contract!Answer, Contract!NoPair, NoPair
    <2> HIDE DEF u, q
    <2>8. Contract!Login(w, u)
        <3> DEFINE kept == Range(MakeRoom(queue[u]))
                   left == kept \union {new[w]}
        <3>1. Cardinality(left) <= MaxActive /\ Sessions' = [Sessions EXCEPT ![u] = left]
            BY <2>3, <2>4, <2>5
        <3>2. kept \in SUBSET Sessions[u]
            BY <2>6
        <3> HIDE DEF kept
        <3> QED BY <2>7, <3>1, <3>2, SameCardinality DEF Contract!Login, Sessions
    <2> QED BY <2>1, <2>8 DEF Contract!Next
<1>5. ASSUME NEW w \in Worker, Rotate(w) PROVE Contract!Next \/ UNCHANGED Contract!vars
    <2> DEFINE u == new[w].user
    <2>1. new[w] \in Pair /\ u \in User
        BY <1>5 DEF Rotate, InFlight, Pair
    <2>2. /\ now' = now
          /\ pc[w] = "rotate" /\ new[w].user = u /\ Contract!Answer(w)
        BY <1>5 DEF Rotate, Finish, Contract!Answer, Contract!NoPair, NoPair
    <2>3. CASE RotateAbsent(w)
        <3> HIDE DEF u
        <3>1. u \notin keys /\ UNCHANGED <<keys, loggedOut, queue>>
            BY <2>2, <2>3 DEF RotateAbsent, registry, history
        <3>2. Contract!RefreshTooLate(w, u)
            BY <2>2, <3>1 DEF Contract!RefreshTooLate, Contract!sessions
        <3> QED BY <2>1, <3>2 DEF Contract!Next
    <2>4. CASE RotateFound(w)
        <3>1. u \in keys /\ UNCHANGED <<keys, loggedOut>> /\ old[w] \in Pair
            BY <2>1, <2>4 DEF RotateFound, Range
        <3>2. Sessions' = [Sessions EXCEPT ![u] =
                            (Sessions[u] \ {old[w]}) \union {new[w]}]
            <4>1. Range(ReplaceAll(queue[u], old[w], new[w]))
                    = (Sessions[u] \ {old[w]}) \union {new[w]}
                BY <2>1, <2>4, ReplaceAllLemma DEF RotateFound, Sessions
            <4> QED BY <2>1, <2>4, <4>1, SessionsExcept DEF RotateFound
        <3> HIDE DEF u
        <3>3. Contract!Refresh(w, u)
            BY <2>1, <2>2, <3>1, <3>2 DEF Contract!Refresh, Contract!Pair, Contract!Time,
               Pair, Time, Sessions
        <3> QED BY <2>1, <3>3 DEF Contract!Next
    <2>5. CASE RotateNotFound(w)
        <3>1. u \in keys /\ UNCHANGED <<keys, loggedOut>>
            BY <2>5 DEF RotateNotFound
        <3>2. Sessions' = [Sessions EXCEPT ![u] =
                            (Sessions[u] \ {new[w]}) \union {new[w]}]
            <4>1. Range(Append(queue[u], new[w]))
                    = (Sessions[u] \ {new[w]}) \union {new[w]}
                BY <2>1, AppendLemma DEF Sessions
            <4> QED BY <2>1, <2>5, <4>1, SessionsExcept DEF RotateNotFound
        <3> HIDE DEF u
        <3>3. Contract!Refresh(w, u)
            BY <2>1, <2>2, <3>1, <3>2 DEF Contract!Refresh, Contract!Pair, Contract!Time,
               Pair, Time, Sessions
        <3> QED BY <2>1, <3>3 DEF Contract!Next
    <2> QED BY <1>5, <2>3, <2>4, <2>5 DEF Rotate
<1>6. ASSUME NEW u \in User, Invalidate(u) PROVE Contract!Next
    <2>1. Range(<<>>) = {}
        BY DEF Range
    <2>2. Sessions' = [Sessions EXCEPT ![u] = {}]
        BY <1>6, <2>1, SessionsExcept DEF Invalidate
    <2>3. Contract!Invalidate(u)
        BY <1>6, <2>2 DEF Invalidate, threads, Contract!Invalidate, Contract!requests, Sessions
    <2> QED BY <2>3 DEF Contract!Next
<1>7. ASSUME NEW p \in minted, SweepDrop(p) PROVE Contract!Next \/ UNCHANGED Contract!vars
    <2>1. p \in Pair /\ p.user \in User
        BY DEF Pair
    <2>2. PICK i \in DOMAIN queue[p.user] :
            /\ queue[p.user][i] = p
            /\ queue' = [queue EXCEPT ![p.user] = RemoveAt(@, i)]
        BY <1>7 DEF SweepDrop
    <2> DEFINE r == RemoveAt(queue[p.user], i)
    <2>3. Range(r) \subseteq Range(queue[p.user]) /\ Range(queue[p.user]) \subseteq Range(r) \union {p}
        BY <2>1, <2>2, RemoveAtLemma
    <2>4. Sessions' = [Sessions EXCEPT ![p.user] = Range(r)]
        BY <2>1, <2>2, SessionsExcept
    <2>5. UNCHANGED <<now, keys, loggedOut, pc, new>> /\ SessionExpired(p, now)
        BY <1>7 DEF SweepDrop, threads, history
    <2> HIDE DEF r
    <2>6. CASE p \in Range(r)
        <3>1. Range(r) = Sessions[p.user]
            <4>1. Sessions[p.user] = Range(queue[p.user])
                BY <2>1 DEF Sessions
            <4>2. Range(r) = Range(queue[p.user])
                BY ONLY <2>3, <2>6, Zenon
            <4> QED BY <4>1, <4>2, Zenon
        <3>2. Sessions' = Sessions
            BY <2>4, <3>1 DEF Sessions
        <3> QED BY <2>5, <3>2 DEF Sessions, Contract!vars, Contract!sessions, Contract!requests
    <2>7. CASE p \notin Range(r)
        <3>1. Range(r) = Sessions[p.user] \ {p}
            BY <2>1, <2>3, <2>7 DEF Sessions
        <3>2. Contract!Sweep(p)
            BY <2>4, <2>5, <3>1 DEF Contract!Sweep, Contract!requests, Sessions, Contract!SessionExpired,
               Contract!AccessExpired, Contract!RefreshExpired, SessionExpired,
               AccessExpired, RefreshExpired
        <3> QED BY <2>1, <3>2 DEF Contract!Next, Contract!Pair, Contract!Time, Pair, Time
    <2> QED BY <2>6, <2>7
<1>8. ASSUME NEW u \in User, SweepFindsEmpty(u) PROVE UNCHANGED Contract!vars
    BY <1>0, <1>8 DEF SweepFindsEmpty, threads
<1>9. CASE UNCHANGED vars
    BY <1>0, <1>9 DEF vars, registry, threads, history
<1>10. ASSUME NEW u \in User, SweepRemove(u) PROVE Contract!Next \/ LoginLost
    <2>1. CASE queue[u] = <<>>
        <3>1. queue' = queue
            BY <1>10, <2>1 DEF SweepRemove
        <3>2. Range(queue[u]) = {}
            BY <2>1 DEF Range
        <3>3. Contract!Forget(u)
            BY <1>10, <3>1, <3>2 DEF SweepRemove, threads, history, Contract!Forget, Contract!requests
        <3> QED BY <3>3 DEF Contract!Next
    <2>2. CASE queue[u] # <<>>
        BY <1>10, <2>2 DEF SweepRemove, LateInv, LoginLost
    <2> QED BY <2>1, <2>2
<1> QED BY <1>1, <1>2, <1>3, <1>4, <1>5, <1>6, <1>7, <1>8, <1>9, <1>10
        DEF Next, Request, Sweep

\* Seen as sets of accepted pairs, every step of the registry is one of the contract,
\* except that a sweep may end sessions that logins put into a queue it had just found
\* empty: a login leaves at most MaxActive sessions, a refresh, however late it lands,
\* opens no session for a user who has been logged out, and whatever else the sweep
\* takes away has expired.
THEOREM ImplementsContract == Spec => ContractSpec
<1>1. Init => Contract!Init
    BY DEF Init, Contract!Init, Contract!NoPair, NoPair, Range
<1>2. Init => LateInv
    BY DEF Init, LateInv
<1> QED BY <1>1, <1>2, TypeInvariant, LateNext, ContractStep, PTL DEF Spec, ContractSpec
=============================================================================
