------------------------------ MODULE UserAccounts ------------------------------
(***************************************************************************)
(* The table of users, written by requests that run side by side: signing  *)
(* up, changing and deleting an account, changing a role, logging in over  *)
(* a social provider, and the initializer of every instance that starts.   *)
(* A request reads, checks, tells the clients, and writes when its         *)
(* transaction commits; PostgreSQL runs at READ COMMITTED, so what it read *)
(* may be gone by then, and only the constraints of schema.sql are sure.   *)
(* Hibernate writes every column of a changed row, the ones as they were   *)
(* loaded included.  The list of all users is cached in Redis.             *)
(***************************************************************************)
EXTENDS Naturals, FiniteSets

CONSTANTS
    User,           \* the UUIDs that rows get, each drawn once
    Username, Email,
    AdminName, AdminEmail,      \* of the account AdminInitializer creates
    Identity,                   \* accounts of social providers, and
    SocialName, SocialEmail,    \* what the provider says of each
    Worker,         \* threads that serve requests, of any instance
    MaxOps,         \* bound: writing requests
    MaxMishaps      \* bound: threads that die and broadcasts that fail

NoUser == "none"
NoIdentity == "none"
NoName == "none"
Role == {"USER", "ADMIN"}
Ops  == {"create", "update", "delete", "role", "social", "admin"}

ASSUME AccountsAssumption ==
    /\ NoUser \notin User /\ NoIdentity \notin Identity
    /\ NoName \notin Username \cup User \cup Email
    /\ Username \cap User = {}
    /\ AdminName \in Username /\ AdminEmail \in Email
    /\ SocialName \in [Identity -> Username] /\ SocialEmail \in [Identity -> Email]
    /\ MaxOps \in Nat /\ MaxMishaps \in Nat

\* A row of users.  A user stands for the name that was made unique for it.
Account == [name : Username \cup User, email : Email, role : Role]
NoAccount == [name |-> NoName, email |-> NoName, role |-> "USER"]

VARIABLES
    evictFirst,     \* whether @CacheEvict runs inside of @Transactional
    account, link,  \* the rows of users and of social_accounts
    drawn,          \* UUIDs in use
    cached, list,   \* the cache "users": whether it is filled, and with what
    shown,          \* what clients were told last of each user
    pc, op, job,    \* per thread: its next step, its request and its locals
    ops, mishaps,
    started,        \* whether some instance has come up
    \* What has happened, for the properties:
    intent,         \* what the requests that succeeded have made of each user
    overlapped,     \* users with two writers at a time
    misled,         \* users with a write the clients were told wrongly of, or not
    unevicted,      \* whether the list may have been left behind in the cache
    dismissed,      \* whether an administrator has been dismissed
    overtaken       \* threads in whose way another request has come since they looked

rows    == <<account, link, drawn>>
cache   == <<cached, list, unevicted>>
threads == <<pc, op, job>>
outcome == <<intent, overlapped, misled, dismissed>>
history == <<outcome, overtaken>>
vars    == <<evictFirst, rows, cache, shown, threads, ops, mishaps, started, history>>

Live == {u \in User : account[u] # NoAccount}

\* user: the row written; old: as it was loaded; new: what is asked for; read: the
\* list that was read.
NoJob == [user |-> NoUser, identity |-> NoIdentity, old |-> NoAccount,
          new |-> NoAccount, read |-> [u \in User |-> NoAccount]]

Init ==
    /\ evictFirst \in BOOLEAN
    /\ account = [u \in User |-> NoAccount]
    /\ link = [s \in Identity |-> NoUser]
    /\ drawn = {}
    /\ cached = FALSE
    /\ list = [u \in User |-> NoAccount]
    /\ shown = [u \in User |-> NoAccount]
    /\ pc = [w \in Worker |-> "idle"]
    /\ op = [w \in Worker |-> "none"]
    /\ job = [w \in Worker |-> NoJob]
    /\ ops = 0 /\ mishaps = 0
    /\ started = FALSE
    /\ intent = [u \in User |-> NoAccount]
    /\ overlapped = {} /\ misled = {}
    /\ unevicted = FALSE /\ dismissed = FALSE
    /\ overtaken = {}

-----------------------------------------------------------------------------
(* Threads.                                                                *)

Goto(w, p) == pc' = [pc EXCEPT ![w] = p]

\* The request is answered, or ends with an exception.
Finish(w) ==
    /\ Goto(w, "idle")
    /\ op' = [op EXCEPT ![w] = "none"]
    /\ job' = [job EXCEPT ![w] = NoJob]

\* ... having written nothing.
GiveUp(w) == Finish(w) /\ overtaken' = overtaken \ {w}

Begin(w, o, p, j) ==
    /\ pc[w] = "idle"
    /\ ops < MaxOps
    /\ ops' = ops + 1
    /\ op' = [op EXCEPT ![w] = o]
    /\ job' = [job EXCEPT ![w] = j]
    /\ Goto(w, p)

\* An entity gets its UUID when it is saved, before it is inserted.
Draw(w, u, new) ==
    /\ u \in User \ drawn
    /\ drawn' = drawn \cup {u}
    /\ job' = [job EXCEPT ![w].user = u, ![w].new = new]

NameTaken(n) == \E u \in Live : account[u].name = n
EmailTaken(e) == \E u \in Live : account[u].email = e

ClearCache ==
    /\ cached' = FALSE
    /\ list' = [u \in User |-> NoAccount]
    /\ unevicted' = FALSE

-----------------------------------------------------------------------------
(* BasicUserService.create, update and delete, up to their commits.        *)

\* create clears the cache before anything else.
StartCreate(w, n, e) ==
    /\ Begin(w, "create", "check",
             [NoJob EXCEPT !.new = [name |-> n, email |-> e, role |-> "USER"]])
    /\ ClearCache
    /\ UNCHANGED <<evictFirst, rows, shown, mishaps, started, history>>

\* An update names a new username and has a new password, so that there is something to
\* write; its e-mail may be missing.
StartUpdate(w, u, n, e) ==
    /\ u \in Live
    /\ Begin(w, "update", "check",
             [NoJob EXCEPT !.user = u, !.old = account[u],
                           !.new = [name |-> n, email |-> e, role |-> "USER"]])
    /\ UNCHANGED <<evictFirst, rows, cache, shown, mishaps, started, history>>

StartDelete(w, u) ==
    /\ u \in Live
    /\ Begin(w, "delete", "check", [NoJob EXCEPT !.user = u, !.old = account[u]])
    /\ UNCHANGED <<evictFirst, rows, cache, shown, mishaps, started, history>>

\* An exception before anything was written.
Reject(w) ==
    /\ GiveUp(w)
    /\ UNCHANGED <<evictFirst, rows, cache, shown, ops, mishaps, started, outcome>>

\* MUTANT: the username is not looked up
FreeEmail(w) == ~EmailTaken(job[w].new.email)

Free(w) == ~EmailTaken(job[w].new.email) /\ ~NameTaken(job[w].new.name)

CreateCheck(w) ==
    /\ pc[w] = "check" /\ op[w] = "create"
    /\ \/ /\ Free(w)
          /\ \E u \in User : Draw(w, u, job[w].new)
          /\ Goto(w, "tell")
          /\ UNCHANGED <<evictFirst, account, link, cache, shown, op, ops, mishaps, started, history>>
       \/ ~Free(w) /\ Reject(w)

\* It finds the user's own account too: a name or an e-mail cannot be kept by naming it.
UpdateCheck(w) ==
    /\ pc[w] = "check" /\ op[w] = "update"
    /\ \/ /\ Free(w)
          /\ Goto(w, "tell")
          /\ UNCHANGED <<evictFirst, rows, cache, shown, op, job, ops, mishaps, started, history>>
       \/ ~Free(w) /\ Reject(w)

DeleteCheck(w) ==
    /\ pc[w] = "check" /\ op[w] = "delete"
    /\ \/ /\ job[w].user \in Live
          /\ Goto(w, "tell")
          /\ UNCHANGED <<evictFirst, rows, cache, shown, op, job, ops, mishaps, started, history>>
       \/ job[w].user \notin Live /\ Reject(w)

\* MUTANT: the user is built anew from the request
ResultAnew(w) ==
    LET old == job[w].old  new == job[w].new IN
    CASE op[w] = "update" -> [new EXCEPT !.email = IF @ = NoName THEN old.email ELSE @]
      [] op[w] = "role"   -> [old EXCEPT !.role = new.role]
      [] op[w] = "delete" -> NoAccount
      [] OTHER            -> new

\* The row as w has it, and writes it: what it does not change is as it was loaded.
Result(w) ==
    LET old == job[w].old  new == job[w].new IN
    CASE op[w] = "update" -> [name |-> new.name, role |-> old.role,
                              email |-> IF new.email = NoName THEN old.email ELSE new.email]
      [] op[w] = "role"   -> [old EXCEPT !.role = new.role]
      [] op[w] = "delete" -> NoAccount
      [] OTHER            -> new

AfterTell(w) == IF evictFirst /\ op[w] # "create" THEN "evict" ELSE "commit"

\* MUTANT: the DTO is mapped before the row is changed
TellOld(w) ==
    /\ pc[w] = "tell"
    /\ shown' = [shown EXCEPT ![job[w].user] = job[w].old]
    /\ Goto(w, AfterTell(w))
    /\ UNCHANGED <<evictFirst, rows, cache, op, job, ops, mishaps, started, history>>

\* The clients are told before the commit; a failure is caught.
Tell(w) ==
    LET u == job[w].user IN
    /\ pc[w] = "tell"
    /\ \/ /\ shown' = [shown EXCEPT ![u] = Result(w)]
          /\ UNCHANGED <<mishaps, misled>>
       \/ /\ mishaps < MaxMishaps
          /\ mishaps' = mishaps + 1
          /\ misled' = misled \cup {u}
          /\ UNCHANGED shown
    /\ Goto(w, AfterTell(w))
    /\ UNCHANGED <<evictFirst, rows, cache, op, job, ops, started, intent, overlapped,
                   dismissed, overtaken>>

\* MUTANT: the key 'all' is evicted, which the list is not under
EvictKey(w) ==
    /\ pc[w] = "evict"
    /\ IF evictFirst
       THEN Goto(w, "commit") /\ UNCHANGED <<op, job>>
       ELSE Finish(w)
    /\ UNCHANGED <<evictFirst, rows, cache, shown, ops, mishaps, started, history>>

\* @CacheEvict(value = "users", allEntries = true).
Evict(w) ==
    /\ pc[w] = "evict"
    /\ ClearCache
    /\ IF evictFirst
       THEN Goto(w, "commit") /\ UNCHANGED <<op, job>>
       ELSE Finish(w)
    /\ UNCHANGED <<evictFirst, rows, shown, ops, mishaps, started, history>>

-----------------------------------------------------------------------------
(* The database.                                                           *)

\* The constraints UNIQUE of schema.sql, for a row of u.
Fits(u, row) ==
    \A v \in Live \ {u} : account[v].name # row.name /\ account[v].email # row.email

\* Requests that have read the row of u to change it.
Writers(u) == {w \in Worker : job[w].user = u /\ op[w] \in {"update", "delete", "role"}}

\* MUTANT: social_accounts keeps the links of a user who is deleted
LinksKept(u, row) == link

\* ON DELETE CASCADE of social_accounts.
LinksAfter(u, row) ==
    [s \in Identity |-> IF link[s] = u /\ row = NoAccount THEN NoUser ELSE link[s]]

\* What w has made of the user, in the columns that it was asked to change.
Intended(w) ==
    LET was == intent[job[w].user]  new == job[w].new IN
    CASE op[w] = "update" -> [name |-> new.name, role |-> was.role,
                              email |-> IF new.email = NoName THEN was.email ELSE new.email]
      [] op[w] = "role"   -> [was EXCEPT !.role = new.role]
      [] OTHER            -> Result(w)

\* w has loaded the row that it is to write, or looked for a name or an e-mail.
Pending(w) ==
    \/ op[w] \in {"update", "delete", "role"} /\ (pc[w] = "evict" => evictFirst)
    \/ op[w] = "create" /\ pc[w] \in {"tell", "commit"}
    \/ op[w] = "social" /\ pc[w] \in {"name", "save"}

\* A write of row for u changes the row that v has loaded, or takes what v is to write.
InTheWay(v, u, row) ==
    \/ job[v].user = u
    \/ /\ row # NoAccount
       /\ \/ row.name = Result(v).name \/ row.email = Result(v).email
          \/ op[v] = "social" /\ row.email = SocialEmail[job[v].identity]

\* The flush and the commit of the row of w: the row must still be there, and fit.
Write(w) ==
    LET u == job[w].user  row == Result(w) IN
    /\ op[w] \in {"update", "delete", "role"} => u \in Live
    /\ row # NoAccount => Fits(u, row)
    /\ account' = [account EXCEPT ![u] = row]
    /\ link' = LinksAfter(u, row)
    /\ intent' = [intent EXCEPT ![u] = Intended(w)]
    /\ overlapped' = IF Writers(u) \ {w} # {} THEN overlapped \cup {u} ELSE overlapped
    /\ dismissed' = \/ dismissed
                    \/ /\ op[w] \in {"role", "delete"}
                       /\ account[u].role = "ADMIN" /\ row.role # "ADMIN"
    /\ overtaken' = {v \in Worker \ {w} :
                        Pending(v) /\ (v \in overtaken \/ InTheWay(v, u, row))}

\* The constraints refuse the row, or it has been deleted: the transaction rolls back.
Refused(w) ==
    LET u == job[w].user  row == Result(w) IN
    \/ op[w] \in {"update", "delete", "role"} /\ u \notin Live
    \/ row # NoAccount /\ ~Fits(u, row)

\* Requests with a broadcast are done once they are committed and the cache is clear.
Commit(w) ==
    /\ pc[w] = "commit"
    /\ \/ /\ Write(w)
          /\ IF op[w] # "create" /\ ~evictFirst
             THEN Goto(w, "evict") /\ UNCHANGED <<op, job, unevicted>>
             ELSE Finish(w) /\ unevicted' = TRUE
          /\ UNCHANGED misled
       \/ /\ Refused(w)
          /\ GiveUp(w)
          /\ misled' = misled \cup {job[w].user}
          /\ UNCHANGED <<account, link, intent, overlapped, dismissed, unevicted>>
    /\ UNCHANGED <<evictFirst, drawn, cached, list, shown, ops, mishaps, started>>

-----------------------------------------------------------------------------
(* Requests that tell nobody and clear no cache: BasicAuthService          *)
(* .updateUserRole, SocialOAuthService.findOrCreateUser, which has a       *)
(* transaction per row, and AdminInitializer.                              *)

\* An administrator gives u another role.
StartRole(w, u, r) ==
    /\ u \in Live /\ r # account[u].role
    /\ \E a \in Live : account[a].role = "ADMIN"
    /\ Begin(w, "role", "save",
             [NoJob EXCEPT !.user = u, !.old = account[u], !.new = [account[u] EXCEPT !.role = r]])
    /\ UNCHANGED <<evictFirst, rows, cache, shown, mishaps, started, history>>

\* There is no account of this identity yet.
StartSocial(w, s) ==
    /\ link[s] = NoUser
    /\ Begin(w, "social", "email", [NoJob EXCEPT !.identity = s])
    /\ UNCHANGED <<evictFirst, rows, cache, shown, mishaps, started, history>>

FindByEmail(w) ==
    LET e == SocialEmail[job[w].identity] IN
    /\ pc[w] = "email"
    /\ \/ \E u \in Live : /\ account[u].email = e
                          /\ job' = [job EXCEPT ![w].user = u]
                          /\ Goto(w, "link")
       \/ ~EmailTaken(e) /\ Goto(w, "name") /\ UNCHANGED job
    /\ UNCHANGED <<evictFirst, rows, cache, shown, op, ops, mishaps, started, history>>

\* ensureUniqueUsername: the provider's name, or that with a random suffix.
ChooseName(w) ==
    LET s == job[w].identity  n == SocialName[s] IN
    /\ pc[w] = "name"
    /\ \E u \in User :
          Draw(w, u, [name |-> IF NameTaken(n) THEN u ELSE n, email |-> SocialEmail[s],
                      role |-> "USER"])
    /\ Goto(w, "save")
    /\ UNCHANGED <<evictFirst, account, link, cache, shown, op, ops, mishaps, started, history>>

\* MUTANT: the initial account keeps the role of the constructor
InitialUser == [name |-> AdminName, email |-> AdminEmail, role |-> "USER"]

InitialAdmin == [name |-> AdminName, email |-> AdminEmail, role |-> "ADMIN"]

\* An instance comes up: existsByRole.
StartInstance(w) ==
    /\ IF \E u \in Live : account[u].role = "ADMIN"
       THEN started' = TRUE /\ UNCHANGED <<threads, drawn, ops>>
       ELSE /\ \E u \in User \ drawn :
                  /\ Begin(w, "admin", "save",
                           [NoJob EXCEPT !.user = u, !.new = InitialAdmin])
                  /\ drawn' = drawn \cup {u}
            /\ UNCHANGED started
    /\ UNCHANGED <<evictFirst, account, link, cache, shown, mishaps, history>>

\* The row of one of these is written.  An instance whose row is refused stops.
Save(w) ==
    LET u == job[w].user IN
    /\ pc[w] = "save"
    /\ \/ /\ Write(w)
          /\ unevicted' = TRUE
          /\ misled' = misled \cup {u}
          /\ started' = (started \/ op[w] = "admin")
          /\ IF op[w] = "social" THEN Goto(w, "link") /\ UNCHANGED <<op, job>> ELSE Finish(w)
       \/ /\ Refused(w)
          /\ GiveUp(w)
          /\ UNCHANGED <<account, link, unevicted, started, outcome>>
    /\ UNCHANGED <<evictFirst, drawn, cached, list, shown, ops, mishaps>>

\* MUTANT: the link is saved over the one of another login
LinkOverwrites(w) ==
    /\ pc[w] = "link"
    /\ IF job[w].user \in Live
       THEN link' = [link EXCEPT ![job[w].identity] = job[w].user]
       ELSE UNCHANGED link
    /\ Finish(w)
    /\ UNCHANGED <<evictFirst, account, drawn, cache, shown, ops, mishaps, started, history>>

\* UNIQUE (provider, provider_user_id) and the foreign key of the user.
Link(w) ==
    LET s == job[w].identity  u == job[w].user IN
    /\ pc[w] = "link"
    /\ link' = IF link[s] = NoUser /\ u \in Live THEN [link EXCEPT ![s] = u] ELSE link
    /\ Finish(w)
    /\ UNCHANGED <<evictFirst, account, drawn, cache, shown, ops, mishaps, started, history>>

-----------------------------------------------------------------------------
(* BasicUserService.findAll, @Cacheable("users").                          *)

MissCache(w) ==
    /\ pc[w] = "idle" /\ ~cached
    /\ Goto(w, "read")
    /\ op' = [op EXCEPT ![w] = "findAll"]
    /\ UNCHANGED <<evictFirst, rows, cache, shown, job, ops, mishaps, started, history>>

ReadAll(w) ==
    /\ pc[w] = "read"
    /\ job' = [job EXCEPT ![w].read = account]
    /\ Goto(w, "put")
    /\ UNCHANGED <<evictFirst, rows, cache, shown, op, ops, mishaps, started, history>>

PutCache(w) ==
    /\ pc[w] = "put"
    /\ cached' = TRUE
    /\ list' = job[w].read
    /\ unevicted' = (job[w].read # account)
    /\ Finish(w)
    /\ UNCHANGED <<evictFirst, rows, shown, ops, mishaps, started, history>>

\* The TTL of ten minutes.
Expire ==
    /\ cached
    /\ ClearCache
    /\ UNCHANGED <<evictFirst, rows, shown, threads, ops, mishaps, started, history>>

-----------------------------------------------------------------------------
\* The instance of w dies; a transaction under way rolls back.
Crash(w) ==
    /\ pc[w] # "idle"
    /\ mishaps < MaxMishaps
    /\ mishaps' = mishaps + 1
    /\ misled' = IF pc[w] = "commit" \/ (pc[w] = "evict" /\ evictFirst)
                 THEN misled \cup {job[w].user} ELSE misled
    /\ unevicted' = (unevicted \/ (pc[w] = "evict" /\ ~evictFirst))
    /\ GiveUp(w)
    /\ UNCHANGED <<evictFirst, rows, cached, list, shown, ops, started, intent, overlapped, dismissed>>

Start(w) ==
    \/ \E n \in Username, e \in Email : StartCreate(w, n, e)
    \/ \E u \in User, n \in Username, e \in Email \cup {NoName} : StartUpdate(w, u, n, e)
    \/ \E u \in User : StartDelete(w, u)
    \/ \E u \in User, r \in Role : StartRole(w, u, r)
    \/ \E s \in Identity : StartSocial(w, s)
    \/ StartInstance(w)
    \/ MissCache(w)

Step(w) ==
    \/ CreateCheck(w) \/ UpdateCheck(w) \/ DeleteCheck(w)
    \/ Tell(w) \/ Evict(w) \/ Commit(w)
    \/ FindByEmail(w) \/ ChooseName(w) \/ Save(w) \/ Link(w)
    \/ ReadAll(w) \/ PutCache(w)

Next ==
    \/ \E w \in Worker : Start(w) \/ Step(w) \/ Crash(w)
    \/ Expire

Spec == Init /\ [][Next]_vars

-----------------------------------------------------------------------------
Row == Account \cup {NoAccount}
Points == {"idle", "check", "tell", "evict", "commit", "email", "name", "save", "link", "read", "put"}
Job == [user : User \cup {NoUser}, identity : Identity \cup {NoIdentity}, old : Row,
        new : [name : Username \cup User \cup {NoName}, email : Email \cup {NoName}, role : Role],
        read : [User -> Row]]

TypeOK ==
    /\ evictFirst \in BOOLEAN
    /\ account \in [User -> Row]
    /\ link \in [Identity -> User \cup {NoUser}]
    /\ drawn \subseteq User
    /\ cached \in BOOLEAN /\ list \in [User -> Row]
    /\ shown \in [User -> Row]
    /\ pc \in [Worker -> Points]
    /\ op \in [Worker -> Ops \cup {"none", "findAll"}]
    /\ job \in [Worker -> Job]
    /\ ops \in Nat /\ mishaps \in Nat
    /\ started \in BOOLEAN
    /\ intent \in [User -> Row]
    /\ overlapped \subseteq User /\ misled \subseteq User
    /\ unevicted \in BOOLEAN /\ dismissed \in BOOLEAN
    /\ overtaken \subseteq Worker

\* What a request has found allowed, and has told the clients of, is refused at its
\* commit only because another one has come first: since it looked, its row was written, or
\* its username or e-mail was given to another user.  Only an instance that finds no
\* administrator does not look for the name that it takes.
RefusedIsOvertaken ==
    \A w \in Worker \ overtaken :
        pc[w] \in {"commit", "save"} /\ op[w] # "admin" => ~Refused(w)

\* What a request that succeeded has asked for is what is stored, column by column,
\* unless two requests changed the user at the same time.
AcknowledgedIsStored ==
    \A u \in User \ overlapped : account[u] = intent[u]

\* The clients know a user as stored, unless a request they have been told of is still
\* to commit, two requests changed the user at the same time, or one failed or told
\* nobody.
Telling(u) ==
    {w \in Worker : job[w].user = u /\ (pc[w] = "commit" \/ (pc[w] = "evict" /\ evictFirst))}
ViewIsTrue ==
    \A u \in User \ (overlapped \cup misled) : Telling(u) = {} => shown[u] = account[u]

\* A cached list differs from the table only while an eviction is about to follow, or
\* when a request has left it behind that evicts too early or not at all, or when it
\* was read before a commit and cached after.
StaleIsExplained ==
    cached /\ list # account =>
        unevicted \/ \E w \in Worker : pc[w] = "evict" /\ ~evictFirst

\* A social identity is linked to an account that exists.
LinkedIsLive == \A s \in Identity : link[s] # NoUser => link[s] \in Live

\* It stays with that account for as long as there is one, whatever other logins of
\* it are under way.
LinkLasts ==
    [][\A s \in Identity :
           link[s] # NoUser /\ link'[s] # link[s] =>
               link'[s] = NoUser /\ account'[link[s]] = NoAccount]_vars

\* After an instance has come up there is an administrator, however many came up at
\* once, until one is dismissed or deleted.
StartedHasAdmin ==
    started /\ ~dismissed => \E u \in Live : account[u].role = "ADMIN"
=============================================================================
