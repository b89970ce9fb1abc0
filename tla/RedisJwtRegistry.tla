-------------------------- MODULE RedisJwtRegistry --------------------------
(***************************************************************************)
(* security/jwt/RedisJwtRegistry and redis/RedisLockProvider, as the       *)
(* threads of several instances use them at once (profile "distributed").  *)
(*                                                                         *)
(* Redis executes one command at a time, and nothing here groups several:  *)
(* every command is a step, and the commands of different threads          *)
(* interleave.  The keys are                                               *)
(*                                                                         *)
(*     lock:<user>         lock[u]    the lock of a user, with a TTL        *)
(*     jwt:user:<user>     list[u]    the sessions, oldest first            *)
(*     jwt:access_tokens   access     index of the accepted access tokens   *)
(*     jwt:refresh_tokens  refresh    index of the accepted refresh tokens  *)
(*                                                                         *)
(* A token is accepted if it is in its index; the list only says which     *)
(* tokens to take out of the indexes.  Registering and rotating hold the   *)
(* lock of the user; invalidating and sweeping do not.                     *)
(*                                                                         *)
(* Left out: the seven-day TTL of the lists and of the indexes, which is   *)
(* that of a refresh token; the contents of a session other than its pair. *)
(***************************************************************************)
EXTENDS JwtTokens, SequencesExt

CONSTANTS
    Worker,         \* request and scheduler threads of all instances
    Ops,            \* the operations the threads perform
    MaxActive,      \* app.jwt.max-active-count
    MaxAttempts,    \* @Retryable(maxAttempts) of an operation that locks
    OncePerSecond,  \* TRUE: nobody gets two pairs in one second, which also
                    \* bounds the requests of a run; the theorems need neither
    MaxMishaps      \* bound: locks that expire while they are held, threads that
                    \* die within an operation, and commands that fail, together

ASSUME RedisAssumption ==
    /\ Ops \subseteq {"login", "refresh", "logout", "sweep"}
    /\ MaxActive \in Nat \ {0}
    /\ MaxAttempts \in Nat \ {0}
    /\ OncePerSecond \in BOOLEAN
    /\ MaxMishaps \in Nat

NoWorker == "nobody"
NoUser   == "no user"
\* The string an expired session is overwritten with before it is removed.
EXPIRED  == [user |-> "EXPIRED", iat |-> 0]

ASSUME WorkerAssumption == NoWorker \notin Worker

\* A session is an object and the mark a String: no session is taken for a mark.
ASSUME MarkAssumption == EXPIRED \notin Pair

VARIABLES
    now,        \* the clock
    lock,       \* the worker that set the lock of a user, or NoWorker
    list,       \* the stored sessions of each user
    access,     \* index of access tokens
    refresh,    \* index of refresh tokens
    pc,         \* the next command of each worker
    op,         \* the operation it is part of
    user,       \* the user it is about
    job,        \* the local variables of the worker
    minted,     \* every pair minted so far
    held,       \* the pairs that reached a client
    overruns, crashes, faults,  \* how many of each mishap there have been
    rotated,    \* history: pairs a client was given a new one for
    loggedIn    \* history: users with a login since their last logout began

redis   == <<lock, list, access, refresh>>
workers == <<pc, op, user, job>>
client  == <<minted, held>>
bounds  == <<overruns, crashes, faults>>
Mishaps == overruns + crashes + faults
history == <<rotated, loggedIn>>
vars    == <<now, redis, workers, client, bounds, history>>

\* new: the pair minted; old: the one presented; victim: the one whose tokens are
\* leaving the indexes; snap: what LRANGE returned; i: the index into it; valid:
\* hasValidTokens; tries: failed attempts at the lock; done: nothing has failed.
NoJob == [new |-> NoPair, old |-> NoPair, victim |-> NoPair, snap |-> <<>>,
          i |-> 0, valid |-> FALSE, tries |-> 0, done |-> TRUE]

Init ==
    /\ now = 0
    /\ lock = [u \in User |-> NoWorker]
    /\ list = [u \in User |-> <<>>]
    /\ access = {}
    /\ refresh = {}
    /\ pc = [w \in Worker |-> "idle"]
    /\ op = [w \in Worker |-> "none"]
    /\ user = [w \in Worker |-> NoUser]
    /\ job = [w \in Worker |-> NoJob]
    /\ minted = {}
    /\ held = {}
    /\ overruns = 0 /\ crashes = 0 /\ faults = 0
    /\ rotated = {}
    /\ loggedIn = {}

Tick ==
    /\ now < MaxTime
    /\ now' = now + 1
    /\ UNCHANGED <<redis, workers, client, bounds, history>>

\* Worker w goes on with command p.
Goto(w, p) == pc' = [pc EXCEPT ![w] = p]

\* Worker w begins operation o for user u, at command p, with locals j.
Begin(w, o, u, p, j) ==
    /\ pc[w] = "idle"
    /\ o \in Ops
    /\ Goto(w, p)
    /\ op' = [op EXCEPT ![w] = o]
    /\ user' = [user EXCEPT ![w] = u]
    /\ job' = [job EXCEPT ![w] = j]

\* Worker w is done, or its operation ends with an exception.
Leave(w) ==
    /\ Goto(w, "idle")
    /\ op' = [op EXCEPT ![w] = "none"]
    /\ user' = [user EXCEPT ![w] = NoUser]
    /\ job' = [job EXCEPT ![w] = NoJob]

Mint(u) ==
    /\ OncePerSecond => MintedAt(u, now) \notin minted
    /\ minted' = minted \union {MintedAt(u, now)}
-----------------------------------------------------------------------------
(* RedisLockProvider.                                                      *)

\* MUTANT: acquireLock within the try, so that a failure deletes the lock too
AcquireLockInTry(w, next) ==
    /\ pc[w] = "lock"
    /\ \/ /\ lock[user[w]] = NoWorker
          /\ lock' = [lock EXCEPT ![user[w]] = w]
          /\ Goto(w, next)
          /\ UNCHANGED <<op, user, job>>
       \/ /\ lock[user[w]] # NoWorker
          /\ lock' = [lock EXCEPT ![user[w]] = NoWorker]
          /\ IF job[w].tries + 1 < MaxAttempts
             THEN /\ job' = [job EXCEPT ![w].tries = @ + 1]
                  /\ UNCHANGED <<pc, op, user>>
             ELSE Leave(w)
    /\ UNCHANGED <<now, list, access, refresh, client, bounds, history>>

\* SET NX EX 10.  When the key is there, RedisLockAcquisitionException makes
\* @Retryable try again, up to MaxAttempts times; the last one is the caller's.
AcquireLock(w, next) ==
    /\ pc[w] = "lock"
    /\ \/ /\ lock[user[w]] = NoWorker
          /\ lock' = [lock EXCEPT ![user[w]] = w]
          /\ Goto(w, next)
          /\ UNCHANGED <<op, user, job>>
       \/ /\ lock[user[w]] # NoWorker
          /\ job[w].tries + 1 < MaxAttempts
          /\ job' = [job EXCEPT ![w].tries = @ + 1]
          /\ UNCHANGED <<lock, pc, op, user>>
       \/ /\ lock[user[w]] # NoWorker
          /\ job[w].tries + 1 >= MaxAttempts
          /\ Leave(w)
          /\ UNCHANGED lock
    /\ UNCHANGED <<now, list, access, refresh, client, bounds, history>>

\* DEL, whoever set the key: its value is not looked at.
DeleteLock(w) == lock' = [lock EXCEPT ![user[w]] = NoWorker]

\* Worker w is between acquireLock and releaseLock for user u.
InSection(w, u) ==
    /\ user[w] = u
    /\ op[w] \in {"login", "refresh"}
    /\ pc[w] # "lock"
-----------------------------------------------------------------------------
(* The two private helpers, two commands each.  `next` is where the caller *)
(* goes on.                                                                *)

RemoveTokenIndex(w, next) ==
    \/ /\ pc[w] = "srem access"
       /\ access' = access \ {job[w].victim}
       /\ Goto(w, "srem refresh")
       /\ UNCHANGED <<now, lock, list, refresh, op, user, job, client, bounds, history>>
    \/ /\ pc[w] = "srem refresh"
       /\ refresh' = refresh \ {job[w].victim}
       /\ Goto(w, next)
       /\ UNCHANGED <<now, lock, list, access, op, user, job, client, bounds, history>>

AddTokenIndex(w) ==
    \/ /\ pc[w] = "sadd access"
       /\ access' = access \union {job[w].new}
       /\ Goto(w, "sadd refresh")
       /\ UNCHANGED <<now, lock, list, refresh, op, user, job, client, bounds, history>>
    \/ /\ pc[w] = "sadd refresh"
       /\ refresh' = refresh \union {job[w].new}
       /\ Goto(w, "unlock")
       /\ UNCHANGED <<now, lock, list, access, op, user, job, client, bounds, history>>

\* The response of a successful login or refresh reaches the client.
Deliver(w) ==
    IF job[w].done
    THEN /\ held' = held \union {job[w].new}
         /\ rotated' = rotated \union (IF op[w] = "refresh" THEN {job[w].old} ELSE {})
         /\ loggedIn' = loggedIn \union (IF op[w] = "login" THEN {user[w]} ELSE {})
    ELSE UNCHANGED <<held, history>>

\* finally: releaseLock.  When nothing has failed the client gets the new pair.
Unlock(w) ==
    /\ pc[w] = "unlock"
    /\ DeleteLock(w)
    /\ Leave(w)
    /\ Deliver(w)
    /\ UNCHANGED <<now, list, access, refresh, minted, bounds>>
-----------------------------------------------------------------------------
(* registerJwtInformation.                                                 *)

StartLogin(w, u) ==
    /\ Mint(u)
    /\ Begin(w, "login", u, "lock", [NoJob EXCEPT !.new = MintedAt(u, now)])
    /\ UNCHANGED <<now, redis, held, bounds, history>>

\* MUTANT: while currentSize > maxActiveJwtCount
LoginSizeTooLate(w) ==
    /\ pc[w] = "llen"
    /\ Goto(w, IF Len(list[user[w]]) > MaxActive THEN "lpop" ELSE "rpush")
    /\ UNCHANGED <<now, redis, op, user, job, client, bounds, history>>

\* LLEN
LoginSize(w) ==
    /\ pc[w] = "llen"
    /\ Goto(w, IF Len(list[user[w]]) >= MaxActive THEN "lpop" ELSE "rpush")
    /\ UNCHANGED <<now, redis, op, user, job, client, bounds, history>>

\* MUTANT: LINDEX 0 for LPOP
LoginPeek(w) ==
    LET l == list[user[w]] IN
    /\ pc[w] = "lpop"
    /\ IF l # <<>> /\ Head(l) # EXPIRED
       THEN /\ job' = [job EXCEPT ![w].victim = Head(l)]
            /\ Goto(w, "srem access")
       ELSE /\ Goto(w, "llen")
            /\ UNCHANGED job
    /\ UNCHANGED <<now, redis, op, user, client, bounds, history>>

\* LPOP: null when the list has gone, a String when a sweep left its mark.
LoginPop(w) ==
    LET l == list[user[w]] IN
    /\ pc[w] = "lpop"
    /\ list' = [list EXCEPT ![user[w]] = IF l = <<>> THEN l ELSE Tail(l)]
    /\ IF l # <<>> /\ Head(l) # EXPIRED
       THEN /\ job' = [job EXCEPT ![w].victim = Head(l)]
            /\ Goto(w, "srem access")
       ELSE /\ Goto(w, "llen")
            /\ UNCHANGED job
    /\ UNCHANGED <<now, lock, access, refresh, op, user, client, bounds, history>>

LoginPush(w) ==
    /\ pc[w] = "rpush"
    /\ list' = [list EXCEPT ![user[w]] = Append(@, job[w].new)]
    /\ Goto(w, "sadd access")
    /\ UNCHANGED <<now, lock, access, refresh, op, user, job, client, bounds, history>>

Login(w) ==
    /\ op[w] = "login"
    /\ \/ AcquireLock(w, "llen") \/ LoginSize(w) \/ LoginPop(w)
       \/ RemoveTokenIndex(w, "llen")
       \/ LoginPush(w) \/ AddTokenIndex(w) \/ Unlock(w)
-----------------------------------------------------------------------------
(* TokenRefreshService.refreshTokens and rotateJwtInformation.             *)

\* SISMEMBER and the checks of the token itself; then a new pair is minted.
StartRefresh(w, p) ==
    /\ p \in refresh
    /\ ~RefreshExpired(p, now)
    /\ Mint(p.user)
    /\ Begin(w, "refresh", p.user, "lock",
             [NoJob EXCEPT !.new = MintedAt(p.user, now), !.old = p])
    /\ UNCHANGED <<now, redis, held, bounds, history>>

\* LRANGE, and the first session with the presented token, if there is one.
RefreshRange(w) ==
    LET l == list[user[w]] IN
    /\ pc[w] = "lrange"
    /\ IF job[w].old \in Range(l)
       THEN LET i == SelectInSeq(l, LAMBDA p : p = job[w].old) IN
            /\ job' = [job EXCEPT ![w].i = i, ![w].victim = l[i]]
            /\ Goto(w, "srem access")
       ELSE /\ Goto(w, "unlock")
            /\ UNCHANGED job
    /\ UNCHANGED <<now, redis, op, user, client, bounds, history>>

\* LSET i.  What is stored is the session as it was: jwtInfo.rotate returns the
\* rotated one, and its result is dropped.  An index out of range, or a key that
\* has gone, is an error.
RefreshSet(w) ==
    /\ pc[w] = "lset"
    /\ IF job[w].i <= Len(list[user[w]])
       THEN /\ list' = [list EXCEPT ![user[w]][job[w].i] = job[w].victim]
            /\ Goto(w, "sadd access")
            /\ UNCHANGED job
       ELSE /\ job' = [job EXCEPT ![w].done = FALSE]
            /\ Goto(w, "unlock")
            /\ UNCHANGED list
    /\ UNCHANGED <<now, lock, access, refresh, op, user, client, bounds, history>>

Refresh(w) ==
    /\ op[w] = "refresh"
    /\ \/ AcquireLock(w, "lrange") \/ RefreshRange(w)
       \/ RemoveTokenIndex(w, "lset")
       \/ RefreshSet(w) \/ AddTokenIndex(w) \/ Unlock(w)
-----------------------------------------------------------------------------
(* invalidateJwtInformationByUserId: by JwtLogoutHandler, and twice in a   *)
(* row by a role change when the user has a session.  No lock.             *)

StartLogout(w, u) ==
    /\ Begin(w, "logout", u, "lrange", NoJob)
    /\ loggedIn' = loggedIn \ {u}
    /\ UNCHANGED <<now, redis, client, bounds, rotated>>

LogoutRange(w) ==
    /\ pc[w] = "lrange"
    /\ job' = [job EXCEPT ![w].snap = list[user[w]], ![w].i = 1]
    /\ Goto(w, "next")
    /\ UNCHANGED <<now, redis, op, user, client, bounds, history>>

\* forEach over what LRANGE returned, passing over what is not a session.
LogoutNext(w) ==
    LET j == job[w] IN
    /\ pc[w] = "next"
    /\ \/ /\ j.i > Len(j.snap)
          /\ Goto(w, "del")
          /\ UNCHANGED job
       \/ /\ j.i <= Len(j.snap)
          /\ job' = [job EXCEPT ![w].i = @ + 1, ![w].victim = j.snap[j.i]]
          /\ Goto(w, IF j.snap[j.i] = EXPIRED THEN "next" ELSE "srem access")
    /\ UNCHANGED <<now, redis, op, user, client, bounds, history>>

LogoutDelete(w) ==
    /\ pc[w] = "del"
    /\ list' = [list EXCEPT ![user[w]] = <<>>]
    /\ Leave(w)
    /\ UNCHANGED <<now, lock, access, refresh, client, bounds, history>>

Logout(w) ==
    /\ op[w] = "logout"
    /\ \/ LogoutRange(w) \/ LogoutNext(w)
       \/ RemoveTokenIndex(w, "next") \/ LogoutDelete(w)
-----------------------------------------------------------------------------
(* clearExpiredJwtInformation, by the scheduler of each instance.  No lock. *)

\* KEYS finds the users with a list; one of them is looked at per Begin, the
\* loop over the keys being as many sweeps in a row.
StartSweep(w, u) ==
    /\ list[u] # <<>>
    /\ Begin(w, "sweep", u, "lrange", NoJob)
    /\ UNCHANGED <<now, redis, client, bounds, history>>

SweepRange(w) ==
    LET l == list[user[w]] IN
    /\ pc[w] = "lrange"
    /\ job' = [job EXCEPT ![w].snap = l, ![w].i = Len(l)]
    /\ Goto(w, "next")
    /\ UNCHANGED <<now, redis, op, user, client, bounds, history>>

\* The loop body up to its first command: from the last session to the first.
SweepNext(w) ==
    LET j == job[w] IN
    /\ pc[w] = "next"
    /\ \/ /\ j.i = 0
          /\ IF j.valid THEN Leave(w)
                        ELSE Goto(w, "del") /\ UNCHANGED <<op, user, job>>
       \/ /\ j.i > 0 /\ j.snap[j.i] = EXPIRED
          /\ job' = [job EXCEPT ![w].i = @ - 1]
          /\ UNCHANGED <<pc, op, user>>
       \/ /\ j.i > 0 /\ j.snap[j.i] # EXPIRED
          /\ ~SessionExpired(j.snap[j.i], now)
          /\ job' = [job EXCEPT ![w].i = @ - 1, ![w].valid = TRUE]
          /\ UNCHANGED <<pc, op, user>>
       \/ /\ j.i > 0 /\ j.snap[j.i] # EXPIRED
          /\ SessionExpired(j.snap[j.i], now)
          /\ job' = [job EXCEPT ![w].victim = j.snap[j.i]]
          /\ Goto(w, "lset")
          /\ UNCHANGED <<op, user>>
    /\ UNCHANGED <<now, redis, client, bounds, history>>

\* LSET i "EXPIRED"; an error ends the whole sweep.
SweepSet(w) ==
    /\ pc[w] = "lset"
    /\ IF job[w].i <= Len(list[user[w]])
       THEN /\ list' = [list EXCEPT ![user[w]][job[w].i] = EXPIRED]
            /\ Goto(w, "lrem")
            /\ UNCHANGED <<op, user, job>>
       ELSE Leave(w) /\ UNCHANGED list
    /\ UNCHANGED <<now, lock, access, refresh, client, bounds, history>>

\* MUTANT: LREM 1 of the session, which the mark has replaced
SweepRemoveSession(w) ==
    /\ pc[w] = "lrem"
    /\ list' = [list EXCEPT ![user[w]] = RemoveFirst(@, job[w].victim)]
    /\ job' = [job EXCEPT ![w].i = @ - 1]
    /\ Goto(w, "srem access")
    /\ UNCHANGED <<now, lock, access, refresh, op, user, client, bounds, history>>

\* LREM 1 "EXPIRED": the first one from the head, whoever wrote it.
SweepRemove(w) ==
    /\ pc[w] = "lrem"
    /\ list' = [list EXCEPT ![user[w]] = RemoveFirst(@, EXPIRED)]
    /\ job' = [job EXCEPT ![w].i = @ - 1]
    /\ Goto(w, "srem access")
    /\ UNCHANGED <<now, lock, access, refresh, op, user, client, bounds, history>>

SweepDelete(w) ==
    /\ pc[w] = "del"
    /\ list' = [list EXCEPT ![user[w]] = <<>>]
    /\ Leave(w)
    /\ UNCHANGED <<now, lock, access, refresh, client, bounds, history>>

Sweep(w) ==
    /\ op[w] = "sweep"
    /\ \/ SweepRange(w) \/ SweepNext(w) \/ SweepSet(w) \/ SweepRemove(w)
       \/ RemoveTokenIndex(w, "next") \/ SweepDelete(w)
-----------------------------------------------------------------------------
(* What may go wrong.                                                      *)

\* The TTL of a lock runs out while its section is still going on: a holder held
\* up for ten seconds.
Overrun(u) ==
    /\ Mishaps < MaxMishaps
    /\ \E w \in Worker : InSection(w, u)
    /\ lock[u] # NoWorker
    /\ lock' = [lock EXCEPT ![u] = NoWorker]
    /\ overruns' = overruns + 1
    /\ UNCHANGED <<now, list, access, refresh, workers, client, crashes, faults, history>>

\* MUTANT: SET NX without EX
OrphanStays(u) == lock[u] # NoWorker /\ FALSE /\ UNCHANGED vars

\* The TTL of a lock nobody will release runs out.
OrphanExpires(u) ==
    /\ lock[u] # NoWorker
    /\ \A w \in Worker : ~InSection(w, u)
    /\ lock' = [lock EXCEPT ![u] = NoWorker]
    /\ UNCHANGED <<now, list, access, refresh, workers, client, bounds, history>>

\* The instance of w dies; another thread takes its place.
Crash(w) ==
    /\ Mishaps < MaxMishaps
    /\ pc[w] # "idle"
    /\ crashes' = crashes + 1
    /\ Leave(w)
    /\ UNCHANGED <<now, redis, client, overruns, faults, history>>

\* A command fails.  In the section of the lock, finally still releases it;
\* releaseLock itself swallows its exception and the lock stays.
Fault(w) ==
    /\ Mishaps < MaxMishaps
    /\ pc[w] # "idle"
    /\ faults' = faults + 1
    /\ IF InSection(w, user[w]) /\ pc[w] # "unlock"
       THEN /\ job' = [job EXCEPT ![w].done = FALSE]
            /\ Goto(w, "unlock")
            /\ UNCHANGED <<op, user, held, history>>
       ELSE /\ Leave(w)
            /\ IF pc[w] = "unlock" THEN Deliver(w) ELSE UNCHANGED <<held, history>>
    /\ UNCHANGED <<now, redis, minted, overruns, crashes>>
-----------------------------------------------------------------------------
Step(w) == Login(w) \/ Refresh(w) \/ Logout(w) \/ Sweep(w)

Start(w) ==
    \/ \E u \in User : StartLogin(w, u) \/ StartLogout(w, u) \/ StartSweep(w, u)
    \/ \E p \in held : StartRefresh(w, p)

Next ==
    \/ Tick
    \/ \E w \in Worker : Start(w) \/ Step(w) \/ Crash(w) \/ Fault(w)
    \/ \E u \in User : Overrun(u) \/ OrphanExpires(u)

Spec == Init /\ [][Next]_vars

\* A running thread goes on, and Redis expires keys.
FairSpec ==
    /\ Spec
    /\ \A w \in Worker : WF_vars(Step(w))
    /\ \A u \in User : WF_vars(OrphanExpires(u))
-----------------------------------------------------------------------------
Stored == Pair \union {EXPIRED}
Job == [new : Pair \union {NoPair}, old : Pair \union {NoPair},
        victim : Stored \union {NoPair}, snap : Seq(Stored),
        i : Nat, valid : BOOLEAN, tries : Nat, done : BOOLEAN]

TypeOK ==
    /\ now \in Time
    /\ lock \in [User -> Worker \union {NoWorker}]
    /\ list \in [User -> Seq(Stored)]
    /\ access \subseteq minted /\ refresh \subseteq minted
    /\ pc \in [Worker -> {"idle", "lock", "llen", "lpop", "rpush", "lrange", "next",
                          "lset", "lrem", "del", "srem access", "srem refresh",
                          "sadd access", "sadd refresh", "unlock"}]
    /\ op \in [Worker -> Ops \union {"none"}]
    /\ user \in [Worker -> User \union {NoUser}]
    /\ job \in [Worker -> Job]
    /\ minted \subseteq Pair /\ held \subseteq minted
    /\ overruns \in Nat
    /\ crashes \in Nat
    /\ faults \in Nat
    /\ rotated \subseteq minted
    /\ loggedIn \subseteq User

\* No thread is doing anything for user u.
Quiet(u) == \A w \in Worker : user[w] # u

Accepted(u) == {p \in access \union refresh : p.user = u}

\* The lock excludes: as long as no lock has expired under its holder, two threads
\* are never both between acquireLock and releaseLock of one user, although the
\* release deletes the key whoever set it and a crash leaves it behind.
LockExclusion ==
    overruns = 0 =>
        \A u \in User : \A v, w \in Worker :
            InSection(v, u) /\ InSection(w, u) => v = w

\* The limit on concurrent logins, of stored sessions: it survives crashes, failing
\* commands, and invalidations and sweeps that do not take the lock.
SessionLimit == overruns = 0 => \A u \in User : Len(list[u]) <= MaxActive

\* The strings a sweep writes over expired sessions are gone with the sweeps that
\* wrote them, whatever else moved the list meanwhile.
Marks(u) == {i \in DOMAIN list[u] : list[u][i] = EXPIRED}
Markers(u) == {w \in Worker : user[w] = u /\ pc[w] = "lrem"}
MarksAreTransient ==
    crashes + faults = 0 =>
        \A u \in User : Cardinality(Marks(u)) <= Cardinality(Markers(u))

\* Every operation ends, also one that waits for a lock a dead thread holds.
OperationsEnd == \A w \in Worker : pc[w] # "idle" ~> pc[w] = "idle"

\* No lock stays for ever, also when its holder died or its release failed.
LockIsFreed == \A u \in User : lock[u] # NoWorker ~> lock[u] = NoWorker
-----------------------------------------------------------------------------
(* What the comments of the code say.                                      *)

\* JwtRegistry.java:14 - an invalidation by user id ends all sessions of the user:
\* with no login since it began, none of the user's tokens is accepted after it.
LogoutEndsSessions ==
    \A u \in User \ loggedIn : Quiet(u) => Accepted(u) = {}

\* JwtRegistry.java:34 - a refresh rotates: the pair a client holds last works.
CurrentPairIsAccepted ==
    \A p \in held \ rotated : Quiet(p.user) => p \in access
=============================================================================
