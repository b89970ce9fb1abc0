------------------------- MODULE InMemoryJwtRegistry -------------------------
(***************************************************************************)
(* security/jwt/InMemoryJwtRegistry, the registry of a single instance, as *)
(* the request threads and the scheduler use it.                           *)
(*                                                                         *)
(* origin is a ConcurrentHashMap from user id to a queue of sessions.  Its *)
(* keys are `keys`, the queue of a key is queue[u] (empty for a user that  *)
(* is not a key).  compute, computeIfPresent and remove are atomic on a    *)
(* key, so register, rotate and invalidate are each one step; what happens *)
(* before them in the request (minting the pair, checking the refresh      *)
(* token) is a step of its own, and other threads run in between.          *)
(*                                                                         *)
(* entrySet().removeIf is NOT atomic: the predicate empties the queue and  *)
(* finds it empty, and only then does the map take the key away, provided  *)
(* that it still holds the very same queue object.  `doomed` is the user   *)
(* whose queue was found empty and whose key is about to go; register      *)
(* offers to the queue in place, so it leaves the user doomed, while       *)
(* rotate installs another queue and saves it.                             *)
(***************************************************************************)
EXTENDS JwtTokens, SequencesExt

CONSTANTS
    Worker,       \* request threads
    MaxActive,    \* jwt.max-active-session
    MaxMints      \* bound: the number of pairs minted

ASSUME RegistryAssumption ==
    /\ MaxActive \in Nat \ {0}
    /\ MaxMints \in Nat

VARIABLES
    now,        \* the clock
    keys,       \* the keys of origin
    queue,      \* the sessions of each user, oldest first
    doomed,     \* users whose key the sweep is about to remove
    pc,         \* where each request thread is
    old,        \* the refresh token a thread presents
    new,        \* the pair a thread has minted
    minted,     \* every pair minted so far
    mints,      \* how many times a pair was minted
    held,       \* the pairs that reached a client
    unmatched,  \* history: rotations that found nothing to replace since
                \* the user's last login
    rotated,    \* history: pairs that were exchanged for a new one
    reminted,   \* history: pairs minted more than once (see JwtTokens)
    late,       \* history: sessions that logins put into the queue the sweep
                \* had last found empty
    loggedOut   \* history: users invalidated since their last login

registry == <<keys, queue, doomed>>
threads  == <<pc, old, new>>
minting  == <<minted, mints, reminted>>
history  == <<unmatched, rotated, late, loggedOut>>
vars     == <<now, registry, threads, minting, held, history>>

Init ==
    /\ now = 0
    /\ keys = {}
    /\ queue = [u \in User |-> <<>>]
    /\ doomed = {}
    /\ pc = [w \in Worker |-> "idle"]
    /\ old = [w \in Worker |-> NoPair]
    /\ new = [w \in Worker |-> NoPair]
    /\ minted = {}
    /\ mints = 0
    /\ held = {}
    /\ unmatched = [u \in User |-> 0]
    /\ rotated = {}
    /\ reminted = {}
    /\ late = {}
    /\ loggedOut = {}

\* hasActiveJwtInformationBy{Access,Refresh}Token
Active(p) == \E u \in User : p \in Range(queue[u])

Tick ==
    /\ now < MaxTime
    /\ now' = now + 1
    /\ UNCHANGED <<registry, threads, minting, held, history>>

\* Thread w mints a pair for u.
Mint(w, u) ==
    LET p == MintedAt(u, now) IN
    /\ mints < MaxMints
    /\ minted' = minted \union {p}
    /\ reminted' = IF p \in minted THEN reminted \union {p} ELSE reminted
    /\ mints' = mints + 1
    /\ new' = [new EXCEPT ![w] = p]

\* The thread is done with its request.
Finish(w) ==
    /\ pc' = [pc EXCEPT ![w] = "idle"]
    /\ old' = [old EXCEPT ![w] = NoPair]
    /\ new' = [new EXCEPT ![w] = NoPair]
-----------------------------------------------------------------------------
\* A login succeeds: by password (JwtLoginSuccessHandler) or by a provider's
\* callback (SocialOAuthService).
StartLogin(w, u) ==
    /\ pc[w] = "idle"
    /\ Mint(w, u)
    /\ pc' = [pc EXCEPT ![w] = "register"]
    /\ UNCHANGED <<now, registry, old, held, history>>

\* poll while size() >= maxActiveJwtCount
\* MUTANT: while size() > maxActiveJwtCount
CrowdedMakeRoom(q) == IF Len(q) <= MaxActive THEN q
                      ELSE SubSeq(q, Len(q) - MaxActive + 1, Len(q))
MakeRoom(q) == IF Len(q) < MaxActive THEN q
               ELSE SubSeq(q, Len(q) - MaxActive + 2, Len(q))

Register(w) ==
    LET u == new[w].user IN
    /\ pc[w] = "register"
    /\ keys' = keys \union {u}
    /\ queue' = [queue EXCEPT ![u] = Append(MakeRoom(@), new[w])]
    /\ held' = held \union {new[w]}
    /\ unmatched' = [unmatched EXCEPT ![u] = 0]
    /\ late' = IF u \in doomed THEN late \union {new[w]} ELSE late
    /\ loggedOut' = loggedOut \ {u}
    /\ Finish(w)
    /\ UNCHANGED <<now, doomed, minting, rotated>>
-----------------------------------------------------------------------------
\* TokenRefreshService.refreshTokens up to the rotation: the presented token
\* is registered and has not expired, and a new pair is minted.
StartRefresh(w, p) ==
    /\ pc[w] = "idle"
    /\ Active(p)
    /\ ~RefreshExpired(p, now)
    /\ Mint(w, p.user)
    /\ old' = [old EXCEPT ![w] = p]
    /\ pc' = [pc EXCEPT ![w] = "rotate"]
    /\ UNCHANGED <<now, registry, held, history>>

\* MUTANT: compute instead of computeIfPresent
RotateAbsentInstalls(w) ==
    LET u == new[w].user IN
    /\ u \notin keys
    /\ keys' = keys \union {u}
    /\ queue' = [queue EXCEPT ![u] = <<new[w]>>]
    /\ UNCHANGED <<doomed, history>>

\* computeIfPresent: a user that is not a key stays away.
RotateAbsent(w) ==
    /\ new[w].user \notin keys
    /\ UNCHANGED <<registry, history>>

\* MUTANT: the new pair is added and the old one kept
RotateFoundKeepsOld(w) ==
    LET u == new[w].user IN
    /\ u \in keys
    /\ old[w] \in Range(queue[u])
    /\ queue' = [queue EXCEPT ![u] = Append(@, new[w])]
    /\ doomed' = doomed \ {u}
    /\ rotated' = rotated \union {old[w]}
    /\ UNCHANGED <<keys, unmatched, late, loggedOut>>

RotateFound(w) ==
    LET u == new[w].user IN
    /\ u \in keys
    /\ old[w] \in Range(queue[u])
    /\ queue' = [queue EXCEPT ![u] = ReplaceAll(@, old[w], new[w])]
    /\ doomed' = doomed \ {u}
    /\ rotated' = rotated \union {old[w]}
    /\ UNCHANGED <<keys, unmatched, late, loggedOut>>

\* The old pair has gone since it was checked: the new one is added anyway.
RotateNotFound(w) ==
    LET u == new[w].user IN
    /\ u \in keys
    /\ old[w] \notin Range(queue[u])
    /\ queue' = [queue EXCEPT ![u] = Append(@, new[w])]
    /\ doomed' = doomed \ {u}
    /\ unmatched' = [unmatched EXCEPT ![u] = @ + 1]
    /\ UNCHANGED <<keys, rotated, late, loggedOut>>

Rotate(w) ==
    /\ pc[w] = "rotate"
    /\ RotateAbsent(w) \/ RotateFound(w) \/ RotateNotFound(w)
    /\ held' = held \union {new[w]}
    /\ Finish(w)
    /\ UNCHANGED <<now, minting>>
-----------------------------------------------------------------------------
\* JwtLogoutHandler, and each of the two invalidations of a role change
\* (AuthController.updateUserRole, BasicAuthService.updateUserRole).
Invalidate(u) ==
    /\ keys' = keys \ {u}
    /\ queue' = [queue EXCEPT ![u] = <<>>]
    /\ doomed' = doomed \ {u}
    /\ loggedOut' = loggedOut \union {u}
    /\ UNCHANGED <<now, threads, minting, held, unmatched, rotated, late>>

\* MUTANT: isTokenExpired(access) && isTokenExpired(refresh)
SweepDropBothExpired(p) ==
    /\ doomed = {}
    /\ AccessExpired(p, now) /\ RefreshExpired(p, now)
    /\ \E i \in DOMAIN queue[p.user] :
        /\ queue[p.user][i] = p
        /\ queue' = [queue EXCEPT ![p.user] = RemoveAt(@, i)]
    /\ UNCHANGED <<now, keys, doomed, threads, minting, held, history>>

\* clearExpiredJwtInformation, in the predicate of removeIf: an expired pair
\* is unlinked from its queue ...
SweepDrop(p) ==
    /\ doomed = {}
    /\ SessionExpired(p, now)
    /\ \E i \in DOMAIN queue[p.user] :
        /\ queue[p.user][i] = p
        /\ queue' = [queue EXCEPT ![p.user] = RemoveAt(@, i)]
    /\ UNCHANGED <<now, keys, doomed, threads, minting, held, history>>

\* ... and at its end the queue is found empty ...
SweepFindsEmpty(u) ==
    /\ doomed = {}
    /\ u \in keys
    /\ queue[u] = <<>>
    /\ doomed' = {u}
    /\ late' = {}
    /\ UNCHANGED <<now, keys, queue, threads, minting, held, unmatched, rotated, loggedOut>>

\* ... and the removal of the key, if it still holds the queue found empty.
SweepRemove(u) ==
    /\ u \in doomed
    /\ keys' = keys \ {u}
    /\ queue' = [queue EXCEPT ![u] = <<>>]
    /\ doomed' = {}
    /\ UNCHANGED <<now, threads, minting, held, history>>
-----------------------------------------------------------------------------
Sweep ==
    \/ \E p \in minted : SweepDrop(p)
    \/ \E u \in User : SweepFindsEmpty(u) \/ SweepRemove(u)

Request(w) ==
    \/ \E u \in User : StartLogin(w, u)
    \/ \E p \in held : StartRefresh(w, p)
    \/ Register(w)
    \/ Rotate(w)

Next ==
    \/ Tick
    \/ \E w \in Worker : Request(w)
    \/ \E u \in User : Invalidate(u)
    \/ Sweep

Spec == Init /\ [][Next]_vars

\* The sweep runs every five minutes, for ever; each pass tests every pair that
\* stays in the queue of a key throughout it, and no request keeps it waiting.
SweepFairness ==
    /\ \A p \in Pair : SF_vars(SweepDrop(p))
    /\ \A u \in User : WF_vars(SweepRemove(u))

FairSpec == Spec /\ SweepFairness
-----------------------------------------------------------------------------
TypeOK ==
    /\ now \in Time
    /\ keys \subseteq User
    /\ queue \in [User -> Seq(Pair)]
    /\ doomed \subseteq keys
    /\ pc \in [Worker -> {"idle", "register", "rotate"}]
    /\ old \in [Worker -> Pair \union {NoPair}]
    /\ new \in [Worker -> Pair \union {NoPair}]
    /\ minted \subseteq Pair
    /\ mints \in 0 .. MaxMints
    /\ held \subseteq minted
    /\ unmatched \in [User -> Nat]
    /\ rotated \subseteq Pair
    /\ reminted \subseteq minted
    /\ late \subseteq Pair
    /\ loggedOut \subseteq User \ keys

\* The limit on concurrent logins, as far as the code keeps it: what exceeds it
\* are rotations that found nothing to replace, and the next login clears them.
ExcessIsUnmatched == \A u \in User : Len(queue[u]) <= MaxActive + unmatched[u]

\* Rotation: a pair that was exchanged for a new one is never accepted again,
\* neither by the filter nor for a refresh, whatever the other threads do, unless
\* the very same pair was minted a second time: nothing in a token tells apart
\* the two pairs a user gets in one second.  (JwtInformation.java:15)
RotatedStaysDead == \A p \in rotated \ reminted : ~Active(p)

\* An expired session does not stay registered for ever.
Listed(u, t) == MintedAt(u, t) \in Range(queue[u])
ExpiredIsSwept ==
    \A u \in User, t \in Time :
        Listed(u, t) /\ SessionExpired(MintedAt(u, t), now) ~> ~Listed(u, t)

Contract == INSTANCE SessionContract
    WITH loggedIn <- keys, live <- [u \in User |-> Range(queue[u])],
         asked <- pc, fresh <- new

\* The one step that is none of the contract: the sweep removes the key of a
\* queue it found empty, with the sessions that logins put into it since.
LoginLost ==
    \E u \in doomed :
        /\ queue[u] # <<>> /\ Range(queue[u]) \subseteq late
        /\ SweepRemove(u)

\* The registry keeps the contract of JwtRegistry, LoginLost apart: a sweep takes
\* nothing else that is valid, no refresh logs a user in, however late it lands.
ContractSpec == Contract!Init /\ [][Contract!Next \/ LoginLost]_(Contract!vars)
-----------------------------------------------------------------------------
(* What the comments of the code say, and the code does not do.            *)

\* JwtRegistry.java:39 - the sweep deletes expired sessions, so a key about to
\* be removed carries none that is still valid.
SweepTakesExpiredOnly ==
    \A u \in doomed : \A p \in Range(queue[u]) : SessionExpired(p, now)
=============================================================================
