--------------------------- MODULE SessionContract ---------------------------
(***************************************************************************)
(* What security/jwt/JwtRegistry promises its callers, whoever implements  *)
(* it: which sessions a user has, and what may change them.                *)
(*                                                                         *)
(*   - a login opens the session it was asked for, and leaves at most      *)
(*     MaxActive of them;                                                  *)
(*   - a refresh puts the new pair in the place of another, but only while *)
(*     the user is known: it logs nobody in;                               *)
(*   - an invalidation ends every session of the user, valid or not, and   *)
(*     nothing else does;                                                  *)
(*   - the sweep only takes expired sessions away, and forgets a user who  *)
(*     has none left.                                                      *)
(*                                                                         *)
(* A thread is asked for a login or for a refresh and answers later; what  *)
(* happens to the user in between is what makes the promise hard to keep.  *)
(*                                                                         *)
(* JwtRegistry says no more than that of the number of sessions after a    *)
(* refresh, and neither does this module.                                  *)
(***************************************************************************)
EXTENDS JwtTokens, FiniteSets

CONSTANTS
    Worker,      \* threads that serve requests
    MaxActive    \* limit of concurrent logins per user

VARIABLES
    now,        \* the clock
    loggedIn,   \* users the registry knows
    loggedOut,  \* users whose sessions an invalidation has ended since they logged in
    live,       \* the pairs of each user that the registry accepts
    asked,      \* what each thread has been asked for
    fresh       \* the pair it will hand out

sessions == <<loggedIn, loggedOut, live>>
requests == <<asked, fresh>>
vars     == <<now, sessions, requests>>

Init ==
    /\ now = 0
    /\ loggedIn = {} /\ loggedOut = {}
    /\ live = [u \in User |-> {}]
    /\ asked = [w \in Worker |-> "idle"]
    /\ fresh = [w \in Worker |-> NoPair]

Tick ==
    /\ now < MaxTime
    /\ now' = now + 1
    /\ UNCHANGED <<sessions, requests>>

\* The caller has minted a pair for u.
Ask(w, u) ==
    /\ asked[w] = "idle"
    /\ \E op \in {"register", "rotate"} : asked' = [asked EXCEPT ![w] = op]
    /\ fresh' = [fresh EXCEPT ![w] = MintedAt(u, now)]
    /\ UNCHANGED <<now, sessions>>

Answer(w) ==
    /\ asked' = [asked EXCEPT ![w] = "idle"]
    /\ fresh' = [fresh EXCEPT ![w] = NoPair]

\* registerJwtInformation: the oldest sessions make room for the new one.
Login(w, u) ==
    /\ asked[w] = "register" /\ fresh[w].user = u
    /\ loggedIn' = loggedIn \union {u}
    /\ loggedOut' = loggedOut \ {u}
    /\ \E kept \in SUBSET live[u] :
        /\ Cardinality(kept \union {fresh[w]}) <= MaxActive
        /\ live' = [live EXCEPT ![u] = kept \union {fresh[w]}]
    /\ Answer(w)
    /\ UNCHANGED now

\* rotateJwtInformation: a pair gives way to a new one.
Refresh(w, u) ==
    /\ asked[w] = "rotate" /\ fresh[w].user = u
    /\ u \in loggedIn
    /\ \E old \in Pair : live' = [live EXCEPT ![u] = (@ \ {old}) \union {fresh[w]}]
    /\ Answer(w)
    /\ UNCHANGED <<now, loggedIn, loggedOut>>

\* The user has been logged out meanwhile: the new pair opens nothing.
RefreshTooLate(w, u) ==
    /\ asked[w] = "rotate" /\ fresh[w].user = u
    /\ u \notin loggedIn
    /\ Answer(w)
    /\ UNCHANGED <<now, sessions>>

\* invalidateJwtInformationByUserId: every session of the user ends.
Invalidate(u) ==
    /\ loggedIn' = loggedIn \ {u}
    /\ loggedOut' = loggedOut \union {u}
    /\ live' = [live EXCEPT ![u] = {}]
    /\ UNCHANGED <<now, requests>>

\* clearExpiredJwtInformation: an expired session goes.
Sweep(p) ==
    /\ SessionExpired(p, now)
    /\ live' = [live EXCEPT ![p.user] = @ \ {p}]
    /\ UNCHANGED <<now, loggedIn, loggedOut, requests>>

\* clearExpiredJwtInformation: a user without sessions goes.
Forget(u) ==
    /\ live[u] = {}
    /\ loggedIn' = loggedIn \ {u}
    /\ UNCHANGED <<now, loggedOut, live, requests>>

Next ==
    \/ Tick
    \/ \E w \in Worker, u \in User :
            Ask(w, u) \/ Login(w, u) \/ Refresh(w, u) \/ RefreshTooLate(w, u)
    \/ \E u \in User : Invalidate(u) \/ Forget(u)
    \/ \E p \in Pair : Sweep(p)

Spec == Init /\ [][Next]_vars
=============================================================================
