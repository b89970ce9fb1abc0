--------------------------- MODULE UserAccountsProofs ---------------------------
(* Theorems of UserAccounts: any accounts, identities, threads, requests and    *)
(* mishaps.                                                                     *)
EXTENDS UserAccounts, TLAPS

(***************************************************************************)
(* What a thread has at each point.                                        *)
(***************************************************************************)

Changing(w) == op[w] \in {"update", "delete", "role"}

\* The thread has a row that has not been written yet, and that nobody else can know.
Inserting(w) ==
    \/ op[w] = "create" /\ pc[w] \in {"tell", "commit"}
    \/ op[w] \in {"admin", "social"} /\ pc[w] = "save"

PointOf(w) ==
    CASE op[w] = "none"    -> pc[w] = "idle"
      [] op[w] = "findAll" -> pc[w] \in {"read", "put"}
      [] op[w] = "create"  -> pc[w] \in {"check", "tell", "commit"}
      [] op[w] \in {"update", "delete"} -> pc[w] \in {"check", "tell", "evict", "commit"}
      [] op[w] = "role"    -> pc[w] = "save"
      [] op[w] = "social"  -> pc[w] \in {"email", "name", "save", "link"}
      [] op[w] = "admin"   -> pc[w] = "save"

LocalInv(w) ==
    LET u == job[w].user  old == job[w].old  new == job[w].new IN
    /\ PointOf(w)
    /\ op[w] \in {"none", "findAll"} => u = NoUser
    /\ op[w] = "create" /\ pc[w] = "check" => u = NoUser
    /\ op[w] = "social" /\ pc[w] \in {"email", "name"} => u = NoUser
    /\ Changing(w) => u \in drawn /\ old \in Account
    /\ Inserting(w) => u \in drawn /\ account[u] = NoAccount
    /\ op[w] = "social" /\ pc[w] = "link" => u \in drawn
    /\ op[w] = "create" \/ Inserting(w) => new \in Account
    /\ op[w] = "update" => new.name \in Username /\ new.email \in Email \cup {NoName}
    /\ op[w] = "social" => job[w].identity \in Identity
    /\ op[w] = "create" \/ (op[w] = "social" /\ Inserting(w)) => new.role = "USER"
    /\ op[w] = "admin" => new.role = "ADMIN"

\* A row is drawn before it is written, and only one thread can write it first.
DrawnInv ==
    /\ Live \subseteq drawn
    /\ \A u \in User : intent[u] = NoAccount <=> account[u] = NoAccount
    /\ \A v, w \in Worker : Inserting(w) /\ job[v].user = job[w].user => v = w

TypeInv == TypeOK /\ DrawnInv /\ \A w \in Worker : LocalInv(w)

(***************************************************************************)
(* Rows.                                                                   *)
(***************************************************************************)

\* Whoever changes a row has it as it is, as long as nobody else has changed it since.
LoadedInv ==
    \A w \in Worker :
        Changing(w) /\ job[w].user \notin overlapped /\ (pc[w] = "evict" => evictFirst) =>
            job[w].old = account[job[w].user]

\* The clients have been told last what the only request will write that is about to.
ToldInv ==
    \A u \in User \ (overlapped \cup misled), w \in Worker :
        Telling(u) = {w} => shown[u] = Result(w)

(***************************************************************************)
(* Administrators.                                                         *)
(***************************************************************************)

\* An administrator who has been one whenever the row was loaded.
Founder(a) ==
    /\ account[a].role = "ADMIN"
    /\ \A w \in Writers(a) : job[w].old.role = "ADMIN"

NoAdminYet ==
    /\ ~started
    /\ \A u \in User : account[u].role = "USER"
    /\ \A w \in Worker : op[w] # "role" /\ job[w].old.role = "USER"

AdminInv == dismissed \/ (\E a \in User : Founder(a)) \/ NoAdminYet

-----------------------------------------------------------------------------
(* What a step leaves alone.                                               *)

\* The step is one of w.
Only(w) ==
    \A v \in Worker \ {w} : pc'[v] = pc[v] /\ op'[v] = op[v] /\ job'[v] = job[v]

\* What holds of the other threads does not change, when rows that they are about to
\* insert are left alone.
LEMMA OthersLemma ==
    ASSUME TypeInv, NEW w \in Worker, Only(w), drawn \subseteq drawn',
           \A v \in Worker \ {w} :
               Inserting(v) => account'[job[v].user] = account[job[v].user]
    PROVE  \A v \in Worker \ {w} : LocalInv(v)'
<1> SUFFICES ASSUME NEW v \in Worker \ {w} PROVE LocalInv(v)'
    OBVIOUS
<1>1. LocalInv(v)
    BY DEF TypeInv
<1>2. pc'[v] = pc[v] /\ op'[v] = op[v] /\ job'[v] = job[v]
    BY DEF Only
<1>3. (Inserting(v)' <=> Inserting(v)) /\ (Changing(v)' <=> Changing(v)) /\ (PointOf(v)' <=> PointOf(v))
    BY <1>2 DEF Inserting, Changing, PointOf
<1> QED
    BY <1>1, <1>2, <1>3 DEF LocalInv

\* Who has a row has drawn it, or found it in the table.
LEMMA UserLemma ==
    ASSUME TypeInv, NEW w \in Worker
    PROVE  job[w].user \in drawn \cup {NoUser}
<1>1. LocalInv(w)
    BY DEF TypeInv
<1>2. op[w] \in Ops \cup {"none", "findAll"}
    BY DEF TypeInv, TypeOK
<1> QED
    BY <1>1, <1>2 DEF LocalInv, PointOf, Inserting, Changing, Ops

\* A row is known to one thread only, when w inserts the one it had, or a new one, and
\* otherwise takes what is in the table.
LEMMA DrawnLemma ==
    ASSUME TypeInv, NEW w \in Worker, Only(w), Live' \subseteq drawn',
           \A u \in User : intent'[u] = NoAccount <=> account'[u] = NoAccount,
           Inserting(w)' => \/ Inserting(w) /\ job'[w].user = job[w].user
                           \/ job'[w].user \notin drawn \cup {NoUser},
           \/ job'[w].user \in {NoUser, job[w].user} \cup Live
           \/ job'[w].user \notin drawn
    PROVE  DrawnInv'
<1>a. SUFFICES \A v, x \in Worker :
                   Inserting(x)' /\ job'[v].user = job'[x].user => v = x
    BY <1>a DEF DrawnInv
<1> SUFFICES ASSUME NEW v \in Worker, NEW x \in Worker, Inserting(x)',
                    job'[v].user = job'[x].user, v # x
             PROVE  FALSE
    OBVIOUS
<1>1. \A y \in Worker \ {w} : Inserting(y)' <=> Inserting(y)
    BY DEF Only, Inserting
<1>2. \A y \in Worker : Inserting(y) => job[y].user \in drawn /\ job[y].user \notin Live
    BY DEF TypeInv, LocalInv, Live
<1>3. \A y \in Worker \ {w} : job'[y].user = job[y].user
    BY DEF Only
<1>4. \A y \in Worker : job[y].user \in drawn \cup {NoUser}
    BY UserLemma
<1>5. NoUser \notin drawn
    BY AccountsAssumption DEF TypeInv, TypeOK
<1>6. \A y, z \in Worker : Inserting(z) /\ job[y].user = job[z].user => y = z
    BY DEF TypeInv, DrawnInv
<1>7. CASE x # w /\ v # w
    BY <1>1, <1>3, <1>6, <1>7
<1>8. CASE x = w
    BY <1>3, <1>4, <1>6, <1>8
<1>9. CASE v = w /\ x # w
    <2>1. Inserting(x) /\ job'[w].user = job[x].user
        BY <1>1, <1>3, <1>9
    <2>2. job[x].user \in drawn /\ job[x].user \notin Live
        BY <1>2, <2>1
    <2> QED
        BY <1>5, <1>6, <1>9, <2>1, <2>2
<1> QED
    BY <1>7, <1>8, <1>9

\* What is written is a row, or none for a deletion.
LEMMA ResultLemma ==
    ASSUME TypeInv, NEW w \in Worker, Changing(w) \/ Inserting(w)
    PROVE  /\ Result(w) \in Row
           /\ Result(w) = NoAccount <=> op[w] = "delete"
<1>1. LocalInv(w)
    BY DEF TypeInv
<1>2. \A row \in Account : row # NoAccount
    BY AccountsAssumption DEF Account, NoAccount
<1>3. CASE op[w] = "update"
    <2>1. /\ job[w].old \in Account
          /\ job[w].new.name \in Username /\ job[w].new.email \in Email \cup {NoName}
        BY <1>1, <1>3 DEF LocalInv, Changing
    <2>2. Result(w) = [name |-> job[w].new.name, role |-> job[w].old.role,
                       email |-> IF job[w].new.email = NoName THEN job[w].old.email
                                                              ELSE job[w].new.email]
        BY <1>3 DEF Result
    <2>3. Result(w) \in Account
        BY <2>1, <2>2 DEF Account
    <2> QED
        BY <1>2, <1>3, <2>3 DEF Row
<1>4. CASE op[w] = "role"
    <2>1. job[w].old \in Account /\ job[w].new.role \in Role
        BY <1>1, <1>4 DEF LocalInv, Changing, TypeInv, TypeOK, Job
    <2>2. Result(w) = [job[w].old EXCEPT !.role = job[w].new.role]
        BY <1>4 DEF Result
    <2>3. Result(w) \in Account
        BY <2>1, <2>2 DEF Account
    <2> QED
        BY <1>2, <1>4, <2>3 DEF Row
<1>5. CASE op[w] = "delete"
    BY <1>5 DEF Result, Row
<1>6. CASE ~ Changing(w) /\ Inserting(w)
    <2>1. job[w].new \in Account
        BY <1>1, <1>6 DEF LocalInv
    <2>2. Result(w) = job[w].new /\ op[w] # "delete"
        BY <1>6 DEF Result, Changing
    <2> QED
        BY <1>2, <2>1, <2>2 DEF Row
<1> QED
    BY <1>3, <1>4, <1>5, <1>6 DEF Changing

\* The types of what a commit changes, and that it changes the row of w alone.
LEMMA WriteLemma ==
    ASSUME TypeInv, NEW w \in Worker, Changing(w) \/ Inserting(w), Write(w)
    PROVE  /\ job[w].user \in User
           /\ account' = [account EXCEPT ![job[w].user] = Result(w)]
           /\ account' \in [User -> Row]
           /\ link' \in [Identity -> User \cup {NoUser}]
           /\ intent' \in [User -> Row]
           /\ \A u \in User : intent'[u] = NoAccount <=> account'[u] = NoAccount
           /\ overlapped' \subseteq User /\ dismissed' \in BOOLEAN
           /\ overtaken' \subseteq Worker
           /\ Live' \subseteq drawn
           /\ \A v \in Worker \ {w} :
                  Inserting(v) => account'[job[v].user] = account[job[v].user]
<1> DEFINE u == job[w].user
           row == Result(w)
<1>1. u \in drawn /\ u \in User
    BY DEF TypeInv, LocalInv, TypeOK
<1>2. row \in Row /\ (row = NoAccount <=> op[w] = "delete")
    BY ResultLemma
<1>3. account' = [account EXCEPT ![u] = row] /\ account \in [User -> Row]
    BY DEF Write, TypeInv, TypeOK
<1>4. account' \in [User -> Row]
    BY <1>1, <1>2, <1>3
<1>5. link' \in [Identity -> User \cup {NoUser}]
    BY DEF Write, LinksAfter, TypeInv, TypeOK
<1>6. intent' \in [User -> Row] /\ (intent'[u] = NoAccount <=> row = NoAccount)
      /\ \A v \in User \ {u} : intent'[v] = intent[v]
    <2>0. intent \in [User -> Row]
        BY DEF TypeInv, TypeOK
    <2>a. \A r \in Account : r # NoAccount
        BY AccountsAssumption DEF Account, NoAccount
    <2>1. intent' = [intent EXCEPT ![u] = Intended(w)]
        BY DEF Write
    <2>2. CASE op[w] = "update" \/ op[w] = "role"
        <3>1. intent[u] \in Account
            BY <1>1, <2>0, <2>2 DEF Write, Live, TypeInv, DrawnInv, Row
        <3>2. Intended(w) \in Account
            <4>1. CASE op[w] = "update"
                <5>1. /\ job[w].new.name \in Username
                      /\ job[w].new.email \in Email \cup {NoName}
                    BY <4>1 DEF TypeInv, LocalInv
                <5> QED
                    BY <3>1, <4>1, <5>1 DEF Intended, Account
            <4>2. CASE op[w] = "role"
                <5>1. job[w].new.role \in Role
                    BY DEF TypeInv, TypeOK, Job
                <5> QED
                    BY <3>1, <4>2, <5>1 DEF Intended, Account
            <4> QED
                BY <2>2, <4>1, <4>2
        <3> QED
            BY <1>1, <1>2, <2>0, <2>1, <2>2, <2>a, <3>2 DEF Row
    <2>3. CASE op[w] # "update" /\ op[w] # "role"
        <3>1. Intended(w) = row
            BY <2>3 DEF Intended
        <3> QED
            BY <1>1, <1>2, <2>0, <2>1, <3>1
    <2> QED
        BY <2>2, <2>3
<1>7. \A v \in User : intent'[v] = NoAccount <=> account'[v] = NoAccount
    BY <1>1, <1>3, <1>6 DEF TypeInv, DrawnInv
<1>8. overlapped' \subseteq User /\ dismissed' \in BOOLEAN
    <2>1. overlapped' \subseteq User
        BY <1>1 DEF Write, TypeInv, TypeOK
    <2>2. dismissed' \in BOOLEAN
        BY DEF Write, TypeInv, TypeOK
    <2> QED
        BY <2>1, <2>2
<1>12. overtaken' \subseteq Worker
    BY DEF Write
<1>9. Live' \subseteq drawn
    BY <1>1, <1>3 DEF Live, TypeInv, DrawnInv
<1>10. ASSUME NEW v \in Worker \ {w}, Inserting(v) PROVE job[v].user # u
    <2>1. CASE Inserting(w)
        BY <1>10, <2>1 DEF TypeInv, DrawnInv
    <2>2. CASE Changing(w)
        <3>1. account[u] # NoAccount
            BY <2>2 DEF Write, Changing, Live
        <3> QED
            BY <1>10, <3>1 DEF TypeInv, LocalInv
    <2> QED
        BY <2>1, <2>2
<1>11. \A v \in Worker \ {w} : Inserting(v) => account'[job[v].user] = account[job[v].user]
    BY <1>3, <1>10
<1> QED
    BY <1>1, <1>3, <1>4, <1>5, <1>6, <1>7, <1>8, <1>9, <1>11, <1>12

-----------------------------------------------------------------------------
(* Steps of a thread.                                                      *)

LEMMA NoJobLemma == NoJob \in Job
BY DEF NoJob, Job, Row, Role, NoAccount

\* A request that ends leaves nothing behind in its thread.
LEMMA FinishLemma ==
    ASSUME TypeOK, NEW w \in Worker, Finish(w)
    PROVE  /\ pc' \in [Worker -> Points]
           /\ op' \in [Worker -> Ops \cup {"none", "findAll"}]
           /\ job' \in [Worker -> Job]
           /\ pc'[w] = "idle" /\ op'[w] = "none" /\ job'[w] = NoJob
           /\ Only(w)
<1>1. pc' = [pc EXCEPT ![w] = "idle"] /\ op' = [op EXCEPT ![w] = "none"] /\ job' = [job EXCEPT ![w] = NoJob]
    BY DEF Finish, Goto
<1> QED
    BY <1>1, NoJobLemma DEF TypeOK, Points, Only

LEMMA BeginLemma ==
    ASSUME TypeOK, NEW w \in Worker, NEW o \in Ops, NEW p \in Points, NEW j \in Job,
           Begin(w, o, p, j)
    PROVE  /\ pc' \in [Worker -> Points]
           /\ op' \in [Worker -> Ops \cup {"none", "findAll"}]
           /\ job' \in [Worker -> Job]
           /\ pc[w] = "idle"
           /\ pc'[w] = p /\ op'[w] = o /\ job'[w] = j
           /\ ops' \in Nat
           /\ Only(w)
<1>1. pc' = [pc EXCEPT ![w] = p] /\ op' = [op EXCEPT ![w] = o] /\ job' = [job EXCEPT ![w] = j]
    BY DEF Begin, Goto
<1>2. pc[w] = "idle" /\ ops' = ops + 1
    BY DEF Begin
<1> QED
    BY <1>1, <1>2 DEF TypeOK, Only

\* A step that writes no row.
LEMMA KeepLemma ==
    ASSUME TypeInv, TypeOK', NEW w \in Worker, Only(w), drawn \subseteq drawn',
           account' = account, intent' = intent, LocalInv(w)',
           Inserting(w)' => \/ Inserting(w) /\ job'[w].user = job[w].user
                           \/ job'[w].user \notin drawn \cup {NoUser},
           \/ job'[w].user \in {NoUser, job[w].user} \cup Live
           \/ job'[w].user \notin drawn
    PROVE  TypeInv'
<1>1. \A v \in Worker \ {w} : LocalInv(v)'
    BY OthersLemma
<1>2. Live' \subseteq drawn' /\ \A u \in User : intent'[u] = NoAccount <=> account'[u] = NoAccount
    BY DEF TypeInv, DrawnInv, Live
<1>3. DrawnInv'
    BY <1>2, DrawnLemma
<1> QED
    BY <1>1, <1>3 DEF TypeInv

\* A request that ends without writing.
LEMMA EndLemma ==
    ASSUME TypeInv, TypeOK', NEW w \in Worker, Finish(w),
           account' = account, drawn' = drawn, intent' = intent
    PROVE  TypeInv'
<1>1. pc'[w] = "idle" /\ op'[w] = "none" /\ job'[w].user = NoUser /\ Only(w)
    BY FinishLemma DEF TypeInv, NoJob
<1>2. LocalInv(w)' /\ ~ Inserting(w)'
    BY <1>1 DEF LocalInv, PointOf, Inserting, Changing
<1> QED
    BY <1>1, <1>2, KeepLemma

\* A request that begins.
LEMMA StartLemma ==
    ASSUME TypeInv, NEW w \in Worker, NEW o \in Ops, NEW p \in Points, NEW j \in Job,
           Begin(w, o, p, j),
           TypeOK', account' = account, drawn \subseteq drawn', intent' = intent,
           LocalInv(w)',
           Inserting(w)' => j.user \notin drawn \cup {NoUser},
           j.user \in {NoUser} \cup Live \/ j.user \notin drawn
    PROVE  TypeInv'
<1>1. job'[w] = j /\ Only(w)
    BY BeginLemma DEF TypeInv
<1> QED
    BY <1>1, KeepLemma

-----------------------------------------------------------------------------
(* Requests that begin.                                                    *)

LEMMA RowTypes ==
    /\ Account \subseteq [name : Username \cup User \cup {NoName}, email : Email \cup {NoName}, role : Role]
    /\ NoAccount \in Row /\ Account \subseteq Row
    /\ NoAccount \notin Account
    /\ [u \in User |-> NoAccount] \in [User -> Row]
BY AccountsAssumption DEF Account, NoAccount, Row, Role

LEMMA LiveLemma ==
    ASSUME TypeInv, NEW u \in Live
    PROVE  u \in User /\ u \in drawn /\ account[u] \in Account
BY RowTypes DEF TypeInv, DrawnInv, TypeOK, Live, Row

LEMMA StartCreateLemma ==
    ASSUME TypeInv, NEW w \in Worker, NEW n \in Username, NEW e \in Email, StartCreate(w, n, e)
    PROVE  TypeInv'
<1> DEFINE new == [name |-> n, email |-> e, role |-> "USER"]
           j == [NoJob EXCEPT !.new = new]
<1>1. new \in Account
    BY DEF Account, Role
<1>2. j \in Job /\ j.user = NoUser /\ j.new = new
    BY <1>1, NoJobLemma, RowTypes DEF NoJob, Job
<1>3. Begin(w, "create", "check", j) /\ "create" \in Ops /\ "check" \in Points
    BY DEF StartCreate, Ops, Points
<1> HIDE DEF j, new
<1>4. pc'[w] = "check" /\ op'[w] = "create" /\ job'[w] = j
    BY <1>2, <1>3, BeginLemma DEF TypeInv
<1>5. TypeOK'
    <2>1. /\ pc' \in [Worker -> Points]
          /\ op' \in [Worker -> Ops \cup {"none", "findAll"}]
          /\ job' \in [Worker -> Job] /\ ops' \in Nat
        BY <1>2, <1>3, BeginLemma DEF TypeInv
    <2> QED
        BY <2>1, RowTypes DEF StartCreate, ClearCache, TypeInv, TypeOK, rows, history, outcome
<1>6. LocalInv(w)' /\ ~ Inserting(w)'
    BY <1>1, <1>2, <1>4 DEF LocalInv, PointOf, Inserting, Changing, new
<1>7. account' = account /\ drawn' = drawn /\ intent' = intent
    BY DEF StartCreate, rows, history, outcome
<1> QED
    BY <1>2, <1>3, <1>5, <1>6, <1>7, StartLemma

LEMMA StartUpdateLemma ==
    ASSUME TypeInv, NEW w \in Worker, NEW u \in User, NEW n \in Username,
           NEW e \in Email \cup {NoName}, StartUpdate(w, u, n, e)
    PROVE  TypeInv'
<1> DEFINE new == [name |-> n, email |-> e, role |-> "USER"]
           j == [NoJob EXCEPT !.user = u, !.old = account[u], !.new = new]
<1>1. u \in Live /\ u \in drawn /\ account[u] \in Account
    BY LiveLemma DEF StartUpdate
<1>2. j \in Job /\ j.user = u /\ j.old = account[u] /\ j.new.name = n /\ j.new.email = e
    BY <1>1, NoJobLemma, RowTypes DEF NoJob, Job, Role
<1>3. Begin(w, "update", "check", j) /\ "update" \in Ops /\ "check" \in Points
    BY DEF StartUpdate, Ops, Points
<1> HIDE DEF j, new
<1>4. pc'[w] = "check" /\ op'[w] = "update" /\ job'[w] = j
    BY <1>2, <1>3, BeginLemma DEF TypeInv
<1>5. TypeOK'
    <2>1. /\ pc' \in [Worker -> Points]
          /\ op' \in [Worker -> Ops \cup {"none", "findAll"}]
          /\ job' \in [Worker -> Job] /\ ops' \in Nat
        BY <1>2, <1>3, BeginLemma DEF TypeInv
    <2> QED
        BY <2>1 DEF StartUpdate, TypeInv, TypeOK, rows, cache, history, outcome
<1>7. account' = account /\ drawn' = drawn /\ intent' = intent
    BY DEF StartUpdate, rows, history, outcome
<1>6. LocalInv(w)' /\ ~ Inserting(w)'
    BY <1>1, <1>2, <1>4, <1>7 DEF LocalInv, PointOf, Inserting, Changing
<1> QED
    BY <1>1, <1>2, <1>3, <1>5, <1>6, <1>7, StartLemma

LEMMA StartDeleteLemma ==
    ASSUME TypeInv, NEW w \in Worker, NEW u \in User, StartDelete(w, u)
    PROVE  TypeInv'
<1> DEFINE j == [NoJob EXCEPT !.user = u, !.old = account[u]]
<1>1. u \in Live /\ u \in drawn /\ account[u] \in Account
    BY LiveLemma DEF StartDelete
<1>2. j \in Job /\ j.user = u /\ j.old = account[u]
    BY <1>1, NoJobLemma, RowTypes DEF NoJob, Job
<1>3. Begin(w, "delete", "check", j) /\ "delete" \in Ops /\ "check" \in Points
    BY DEF StartDelete, Ops, Points
<1> HIDE DEF j
<1>4. pc'[w] = "check" /\ op'[w] = "delete" /\ job'[w] = j
    BY <1>2, <1>3, BeginLemma DEF TypeInv
<1>5. TypeOK'
    <2>1. /\ pc' \in [Worker -> Points]
          /\ op' \in [Worker -> Ops \cup {"none", "findAll"}]
          /\ job' \in [Worker -> Job] /\ ops' \in Nat
        BY <1>2, <1>3, BeginLemma DEF TypeInv
    <2> QED
        BY <2>1 DEF StartDelete, TypeInv, TypeOK, rows, cache, history, outcome
<1>7. account' = account /\ drawn' = drawn /\ intent' = intent
    BY DEF StartDelete, rows, history, outcome
<1>6. LocalInv(w)' /\ ~ Inserting(w)'
    BY <1>1, <1>2, <1>4, <1>7 DEF LocalInv, PointOf, Inserting, Changing
<1> QED
    BY <1>1, <1>2, <1>3, <1>5, <1>6, <1>7, StartLemma

LEMMA StartRoleLemma ==
    ASSUME TypeInv, NEW w \in Worker, NEW u \in User, NEW r \in Role, StartRole(w, u, r)
    PROVE  TypeInv'
<1> DEFINE new == [account[u] EXCEPT !.role = r]
           j == [NoJob EXCEPT !.user = u, !.old = account[u], !.new = new]
<1>1. u \in Live /\ u \in drawn /\ account[u] \in Account
    BY LiveLemma DEF StartRole
<1>2. new \in Account
    BY <1>1 DEF Account
<1>3. j \in Job /\ j.user = u /\ j.old = account[u] /\ j.new = new
    BY <1>1, <1>2, NoJobLemma, RowTypes DEF NoJob, Job
<1>4. Begin(w, "role", "save", j) /\ "role" \in Ops /\ "save" \in Points
    BY DEF StartRole, Ops, Points
<1> HIDE DEF j, new
<1>5. pc'[w] = "save" /\ op'[w] = "role" /\ job'[w] = j
    BY <1>3, <1>4, BeginLemma DEF TypeInv
<1>6. TypeOK'
    <2>1. /\ pc' \in [Worker -> Points]
          /\ op' \in [Worker -> Ops \cup {"none", "findAll"}]
          /\ job' \in [Worker -> Job] /\ ops' \in Nat
        BY <1>3, <1>4, BeginLemma DEF TypeInv
    <2> QED
        BY <2>1 DEF StartRole, TypeInv, TypeOK, rows, cache, history, outcome
<1>7. account' = account /\ drawn' = drawn /\ intent' = intent
    BY DEF StartRole, rows, history, outcome
<1>8. LocalInv(w)' /\ ~ Inserting(w)'
    BY <1>1, <1>3, <1>5, <1>7 DEF LocalInv, PointOf, Inserting, Changing
<1> QED
    BY <1>1, <1>3, <1>4, <1>6, <1>7, <1>8, StartLemma

LEMMA StartSocialLemma ==
    ASSUME TypeInv, NEW w \in Worker, NEW s \in Identity, StartSocial(w, s)
    PROVE  TypeInv'
<1> DEFINE j == [NoJob EXCEPT !.identity = s]
<1>1. j \in Job /\ j.user = NoUser /\ j.identity = s
    BY NoJobLemma DEF NoJob, Job
<1>2. Begin(w, "social", "email", j) /\ "social" \in Ops /\ "email" \in Points
    BY DEF StartSocial, Ops, Points
<1> HIDE DEF j
<1>3. pc'[w] = "email" /\ op'[w] = "social" /\ job'[w] = j
    BY <1>1, <1>2, BeginLemma DEF TypeInv
<1>4. TypeOK'
    <2>1. /\ pc' \in [Worker -> Points]
          /\ op' \in [Worker -> Ops \cup {"none", "findAll"}]
          /\ job' \in [Worker -> Job] /\ ops' \in Nat
        BY <1>1, <1>2, BeginLemma DEF TypeInv
    <2> QED
        BY <2>1 DEF StartSocial, TypeInv, TypeOK, rows, cache, history, outcome
<1>5. account' = account /\ drawn' = drawn /\ intent' = intent
    BY DEF StartSocial, rows, history, outcome
<1>6. LocalInv(w)' /\ ~ Inserting(w)'
    BY <1>1, <1>3 DEF LocalInv, PointOf, Inserting, Changing
<1> QED
    BY <1>1, <1>2, <1>4, <1>5, <1>6, StartLemma

LEMMA StartInstanceLemma ==
    ASSUME TypeInv, NEW w \in Worker, StartInstance(w)
    PROVE  TypeInv'
<1>1. CASE \E u \in Live : account[u].role = "ADMIN"
    <2>1. started' = TRUE /\ UNCHANGED <<threads, drawn, ops>>
        BY <1>1 DEF StartInstance
    <2>2. UNCHANGED <<evictFirst, account, link, cache, shown, mishaps, history>>
        BY DEF StartInstance
    <2>3. TypeOK'
        BY <2>1, <2>2 DEF TypeInv, TypeOK, threads, cache, history, outcome
    <2>4. Only(w) /\ job'[w] = job[w] /\ op'[w] = op[w] /\ pc'[w] = pc[w]
        BY <2>1 DEF Only, threads
    <2>5. account' = account /\ drawn' = drawn /\ intent' = intent
        BY <2>1, <2>2 DEF history, outcome
    <2>6. LocalInv(w)
        BY DEF TypeInv
    <2>7. LocalInv(w)' /\ (Inserting(w)' <=> Inserting(w))
        BY <2>4, <2>5, <2>6 DEF LocalInv, PointOf, Inserting, Changing
    <2> QED
        BY <2>3, <2>4, <2>5, <2>7, KeepLemma
<1>2. CASE ~ \E u \in Live : account[u].role = "ADMIN"
    <2>1. PICK u \in User \ drawn :
              /\ Begin(w, "admin", "save", [NoJob EXCEPT !.user = u, !.new = InitialAdmin])
              /\ drawn' = drawn \cup {u}
        BY <1>2 DEF StartInstance
    <2>2. UNCHANGED <<evictFirst, account, link, cache, shown, mishaps, history, started>>
        BY <1>2 DEF StartInstance
    <2> DEFINE j == [NoJob EXCEPT !.user = u, !.new = InitialAdmin]
    <2>3. InitialAdmin \in Account /\ InitialAdmin.role = "ADMIN"
        BY AccountsAssumption DEF InitialAdmin, Account, Role
    <2>4. j \in Job /\ j.user = u /\ j.new = InitialAdmin
        BY <2>3, NoJobLemma, RowTypes DEF NoJob, Job
    <2>5. Begin(w, "admin", "save", j) /\ "admin" \in Ops /\ "save" \in Points
        BY <2>1 DEF Ops, Points
    <2> HIDE DEF j
    <2>6. pc'[w] = "save" /\ op'[w] = "admin" /\ job'[w] = j
        BY <2>4, <2>5, BeginLemma DEF TypeInv
    <2>7. TypeOK'
        <3>1. /\ pc' \in [Worker -> Points]
              /\ op' \in [Worker -> Ops \cup {"none", "findAll"}]
              /\ job' \in [Worker -> Job] /\ ops' \in Nat
            BY <2>4, <2>5, BeginLemma DEF TypeInv
        <3> QED
            BY <2>1, <2>2, <3>1 DEF TypeInv, TypeOK, cache, history, outcome
    <2>8. account' = account /\ intent' = intent /\ u \notin drawn \cup {NoUser} /\ drawn \subseteq drawn'
        BY <2>1, <2>2, AccountsAssumption DEF history, outcome
    <2>9. account[u] = NoAccount /\ u \in drawn'
        BY <2>1 DEF TypeInv, DrawnInv, Live
    <2>10. LocalInv(w)'
        BY <2>3, <2>4, <2>6, <2>8, <2>9 DEF LocalInv, PointOf, Inserting, Changing
    <2> QED
        BY <2>4, <2>5, <2>7, <2>8, <2>10, StartLemma
<1> QED
    BY <1>1, <1>2

LEMMA MissCacheLemma ==
    ASSUME TypeInv, NEW w \in Worker, MissCache(w)
    PROVE  TypeInv'
<1>1. pc' = [pc EXCEPT ![w] = "read"] /\ op' = [op EXCEPT ![w] = "findAll"] /\ job' = job
    BY DEF MissCache, Goto
<1>2. pc[w] = "idle" /\ UNCHANGED <<evictFirst, rows, cache, shown, ops, mishaps, started, history>>
    BY DEF MissCache
<1>3. TypeOK'
    BY <1>1, <1>2 DEF TypeInv, TypeOK, Points, rows, cache, history, outcome
<1>4. op[w] = "none" /\ job[w].user = NoUser
    <2>1. LocalInv(w) /\ op[w] \in Ops \cup {"none", "findAll"}
        BY DEF TypeInv, TypeOK
    <2> QED
        BY <1>2, <2>1 DEF LocalInv, PointOf, Ops
<1>5. Only(w) /\ pc'[w] = "read" /\ op'[w] = "findAll" /\ job'[w] = job[w]
    BY <1>1 DEF Only, TypeInv, TypeOK
<1>6. LocalInv(w)' /\ ~ Inserting(w)'
    BY <1>4, <1>5 DEF LocalInv, PointOf, Inserting, Changing
<1>7. account' = account /\ drawn' = drawn /\ intent' = intent
    BY <1>2 DEF rows, history, outcome
<1> QED
    BY <1>3, <1>5, <1>6, <1>7, KeepLemma

-----------------------------------------------------------------------------
(* Requests that go on.                                                    *)

\* A step that only moves a thread on within its operation.
LEMMA MoveLemma ==
    ASSUME TypeInv, TypeOK', NEW w \in Worker, NEW p \in Points, pc' = [pc EXCEPT ![w] = p],
           op' = op, job' = job, drawn' = drawn, account' = account, intent' = intent,
           op[w] \in {"create", "update", "delete"},
           pc[w] # "check" \/ op[w] # "create",
           p \in {"tell", "commit"} \/ (p = "evict" /\ op[w] # "create")
    PROVE  TypeInv'
<1>1. LocalInv(w)
    BY DEF TypeInv
<1>2. Only(w) /\ pc'[w] = p /\ op'[w] = op[w] /\ job'[w] = job[w]
    BY DEF Only, TypeInv, TypeOK
<1>3. Inserting(w)' => Inserting(w)
    BY <1>1, <1>2 DEF LocalInv, PointOf, Inserting
<1>4. LocalInv(w)'
    BY <1>1, <1>2, <1>3 DEF LocalInv, PointOf, Inserting, Changing
<1> QED
    BY <1>2, <1>3, <1>4, KeepLemma

LEMMA RejectLemma ==
    ASSUME TypeInv, NEW w \in Worker, Reject(w)
    PROVE  TypeInv'
<1>1. /\ Finish(w) /\ overtaken' = overtaken \ {w}
      /\ UNCHANGED <<evictFirst, rows, cache, shown, ops, mishaps, started, outcome>>
    BY DEF Reject, GiveUp
<1>2. TypeOK'
    BY <1>1, FinishLemma DEF TypeInv, TypeOK, rows, cache, outcome
<1> QED
    BY <1>1, <1>2, EndLemma DEF rows, outcome

LEMMA CreateCheckLemma ==
    ASSUME TypeInv, NEW w \in Worker, CreateCheck(w)
    PROVE  TypeInv'
<1>1. CASE Reject(w)
    BY <1>1, RejectLemma
<1>2. CASE ~ Reject(w)
    <2>1. PICK u \in User : Draw(w, u, job[w].new)
        BY <1>2 DEF CreateCheck
    <2>2. /\ pc[w] = "check" /\ op[w] = "create" /\ pc' = [pc EXCEPT ![w] = "tell"]
          /\ UNCHANGED <<evictFirst, account, link, cache, shown, op, ops, mishaps, started, history>>
        BY <1>2 DEF CreateCheck, Goto
    <2>3. /\ u \notin drawn /\ drawn' = drawn \cup {u}
          /\ job' = [job EXCEPT ![w] = [job[w] EXCEPT !.user = u]]
        BY ZenonT(40), <2>1 DEF Draw, TypeInv, TypeOK, Job
    <2>4. LocalInv(w) /\ job[w] \in Job
        BY DEF TypeInv, TypeOK
    <2>5. /\ job' \in [Worker -> Job] /\ job'[w].user = u /\ job'[w].new = job[w].new
        BY <2>3, <2>4 DEF TypeInv, TypeOK, Job
    <2>6. TypeOK'
        BY <2>2, <2>3, <2>5 DEF TypeInv, TypeOK, Points, cache, history, outcome
    <2>7. Only(w) /\ pc'[w] = "tell" /\ op'[w] = "create"
        BY <2>2, <2>3 DEF Only, TypeInv, TypeOK
    <2>8. account' = account /\ intent' = intent /\ account[u] = NoAccount /\ u \notin drawn \cup {NoUser}
        BY <2>2, <2>3, AccountsAssumption DEF history, outcome, TypeInv, DrawnInv, Live
    <2>9. LocalInv(w)'
        <3>1. job[w].new \in Account /\ job[w].new.role = "USER"
            BY <2>2, <2>4 DEF LocalInv
        <3>2. u \in drawn' /\ account'[u] = NoAccount
            BY <2>3, <2>8
        <3> QED
            BY <2>5, <2>7, <3>1, <3>2 DEF LocalInv, PointOf, Inserting, Changing
    <2> QED
        BY <2>3, <2>5, <2>6, <2>7, <2>8, <2>9, KeepLemma
<1> QED
    BY <1>1, <1>2

LEMMA UpdateCheckLemma ==
    ASSUME TypeInv, NEW w \in Worker, UpdateCheck(w)
    PROVE  TypeInv'
<1>1. CASE Reject(w)
    BY <1>1, RejectLemma
<1>2. CASE ~ Reject(w)
    <2>1. /\ op[w] = "update" /\ pc' = [pc EXCEPT ![w] = "tell"] /\ "tell" \in Points
          /\ UNCHANGED <<evictFirst, rows, cache, shown, op, job, ops, mishaps, started, history>>
        BY <1>2 DEF UpdateCheck, Goto, Points
    <2>2. TypeOK'
        BY <2>1 DEF TypeInv, TypeOK, rows, cache, history, outcome
    <2> QED
        BY <2>1, <2>2, MoveLemma DEF rows, history, outcome
<1> QED
    BY <1>1, <1>2

LEMMA DeleteCheckLemma ==
    ASSUME TypeInv, NEW w \in Worker, DeleteCheck(w)
    PROVE  TypeInv'
<1>1. CASE Reject(w)
    BY <1>1, RejectLemma
<1>2. CASE ~ Reject(w)
    <2>1. /\ op[w] = "delete" /\ pc' = [pc EXCEPT ![w] = "tell"] /\ "tell" \in Points
          /\ UNCHANGED <<evictFirst, rows, cache, shown, op, job, ops, mishaps, started, history>>
        BY <1>2 DEF DeleteCheck, Goto, Points
    <2>2. TypeOK'
        BY <2>1 DEF TypeInv, TypeOK, rows, cache, history, outcome
    <2> QED
        BY <2>1, <2>2, MoveLemma DEF rows, history, outcome
<1> QED
    BY <1>1, <1>2

\* What the operation is of a thread at a point.
LEMMA PointLemma ==
    ASSUME TypeInv, NEW w \in Worker
    PROVE  /\ pc[w] \in {"tell", "commit"} => op[w] \in {"create", "update", "delete"}
           /\ pc[w] = "evict" => op[w] \in {"update", "delete"}
           /\ pc[w] = "save" => op[w] \in {"role", "social", "admin"}
           /\ pc[w] \in {"email", "name", "link"} => op[w] = "social"
           /\ pc[w] \in {"read", "put"} => op[w] = "findAll"
           /\ pc[w] \in {"tell", "commit", "save"} => Changing(w) \/ Inserting(w)
<1>1. PointOf(w) /\ op[w] \in Ops \cup {"none", "findAll"}
    BY DEF TypeInv, TypeOK, LocalInv
<1> QED
    BY <1>1 DEF PointOf, Ops, Changing, Inserting

LEMMA TellLemma ==
    ASSUME TypeInv, NEW w \in Worker, Tell(w)
    PROVE  TypeInv'
<1>1. /\ pc[w] = "tell" /\ pc' = [pc EXCEPT ![w] = AfterTell(w)]
      /\ UNCHANGED <<evictFirst, rows, cache, op, job, ops, started, intent, overlapped,
                     dismissed, overtaken>>
    BY DEF Tell, Goto
<1>2. op[w] \in {"create", "update", "delete"} /\ (Changing(w) \/ Inserting(w))
    BY <1>1, PointLemma
<1>3. Result(w) \in Row
    BY <1>2, ResultLemma
<1>4. AfterTell(w) \in Points /\ (AfterTell(w) = "commit" \/ (AfterTell(w) = "evict" /\ op[w] # "create"))
    BY DEF AfterTell, Points
<1>5. job[w].user \in User
    BY <1>2 DEF TypeInv, LocalInv, TypeOK
<1>6. shown' \in [User -> Row] /\ misled' \subseteq User /\ mishaps' \in Nat
    BY <1>3, <1>5 DEF Tell, TypeInv, TypeOK
<1>7. TypeOK'
    BY <1>1, <1>4, <1>6 DEF TypeInv, TypeOK, rows, cache
<1> QED
    BY <1>1, <1>2, <1>4, <1>7, MoveLemma DEF rows

LEMMA EvictLemma ==
    ASSUME TypeInv, NEW w \in Worker, Evict(w)
    PROVE  TypeInv'
<1>1. /\ pc[w] = "evict" /\ cached' \in BOOLEAN /\ list' \in [User -> Row] /\ unevicted' \in BOOLEAN
      /\ UNCHANGED <<evictFirst, rows, shown, ops, mishaps, started, history>>
    BY RowTypes DEF Evict, ClearCache
<1>2. CASE evictFirst
    <2>1. pc' = [pc EXCEPT ![w] = "commit"] /\ UNCHANGED <<op, job>> /\ "commit" \in Points
        BY <1>2 DEF Evict, Goto, Points
    <2>2. TypeOK'
        BY <1>1, <2>1 DEF TypeInv, TypeOK, rows, history, outcome
    <2>3. op[w] \in {"update", "delete"}
        BY <1>1, PointLemma
    <2> QED
        BY <1>1, <2>1, <2>2, <2>3, MoveLemma DEF rows, history, outcome
<1>3. CASE ~ evictFirst
    <2>1. Finish(w)
        BY <1>3 DEF Evict
    <2>2. TypeOK'
        BY <1>1, <2>1, FinishLemma DEF TypeInv, TypeOK, rows, history, outcome
    <2> QED
        BY <1>1, <2>1, <2>2, EndLemma DEF rows, history, outcome
<1> QED
    BY <1>2, <1>3

LEMMA FindByEmailLemma ==
    ASSUME TypeInv, NEW w \in Worker, FindByEmail(w)
    PROVE  TypeInv'
<1>1. /\ pc[w] = "email" /\ op[w] = "social" /\ LocalInv(w) /\ job[w] \in Job
      /\ UNCHANGED <<evictFirst, rows, cache, shown, op, ops, mishaps, started, history>>
    BY PointLemma DEF FindByEmail, TypeInv, TypeOK
<1>2. CASE \E u \in Live : /\ job' = [job EXCEPT ![w].user = u]
                           /\ Goto(w, "link")
    <2>1. PICK u \in Live : job' = [job EXCEPT ![w].user = u] /\ Goto(w, "link")
        BY <1>2
    <2>2. u \in User /\ u \in drawn
        BY LiveLemma
    <2>3. job' \in [Worker -> Job] /\ job'[w] = [job[w] EXCEPT !.user = u]
        BY <1>1, <2>1, <2>2 DEF TypeInv, TypeOK, Job
    <2>4. Only(w) /\ pc' = [pc EXCEPT ![w] = "link"] /\ pc'[w] = "link" /\ op'[w] = "social"
        BY <1>1, <2>1 DEF Only, Goto, TypeInv, TypeOK
    <2>5. TypeOK'
        BY <1>1, <2>3, <2>4 DEF TypeInv, TypeOK, Points, rows, cache, history, outcome
    <2>6. job'[w].user = u /\ job'[w].identity = job[w].identity
        BY <1>1, <2>3 DEF Job
    <2>7. account' = account /\ drawn' = drawn /\ intent' = intent
        BY <1>1 DEF rows, history, outcome
    <2>8. LocalInv(w)' /\ ~ Inserting(w)'
        BY <1>1, <2>2, <2>4, <2>6, <2>7 DEF LocalInv, PointOf, Inserting, Changing
    <2> QED
        BY <2>4, <2>5, <2>6, <2>7, <2>8, KeepLemma
<1>3. CASE Goto(w, "name") /\ UNCHANGED job
    <2>1. Only(w) /\ pc' = [pc EXCEPT ![w] = "name"] /\ pc'[w] = "name" /\ op'[w] = "social" /\ job' = job
        BY <1>1, <1>3 DEF Only, Goto, TypeInv, TypeOK
    <2>2. TypeOK'
        BY <1>1, <2>1 DEF TypeInv, TypeOK, Points, rows, cache, history, outcome
    <2>3. account' = account /\ drawn' = drawn /\ intent' = intent
        BY <1>1 DEF rows, history, outcome
    <2>4. LocalInv(w)' /\ ~ Inserting(w)'
        BY <1>1, <2>1, <2>3 DEF LocalInv, PointOf, Inserting, Changing
    <2> QED
        BY <2>1, <2>2, <2>3, <2>4, KeepLemma
<1> QED
    BY <1>2, <1>3 DEF FindByEmail

LEMMA ChooseNameLemma ==
    ASSUME TypeInv, NEW w \in Worker, ChooseName(w)
    PROVE  TypeInv'
<1> DEFINE s == job[w].identity
<1>1. /\ pc[w] = "name" /\ op[w] = "social" /\ LocalInv(w) /\ job[w] \in Job
      /\ pc' = [pc EXCEPT ![w] = "save"]
      /\ UNCHANGED <<evictFirst, account, link, cache, shown, op, ops, mishaps, started, history>>
    BY PointLemma DEF ChooseName, TypeInv, TypeOK, Goto
<1>2. PICK u \in User :
          Draw(w, u, [name |-> IF NameTaken(SocialName[s]) THEN u ELSE SocialName[s],
                      email |-> SocialEmail[s], role |-> "USER"])
    BY DEF ChooseName
<1> DEFINE new == [name |-> IF NameTaken(SocialName[s]) THEN u ELSE SocialName[s],
                   email |-> SocialEmail[s], role |-> "USER"]
<1>3. s \in Identity
    BY <1>1 DEF LocalInv
<1>4. new \in Account /\ new.role = "USER"
    BY <1>3, AccountsAssumption DEF Account, Role
<1>5. u \notin drawn /\ drawn' = drawn \cup {u} /\ job' = [job EXCEPT ![w].user = u, ![w].new = new]
    BY <1>2 DEF Draw
<1> HIDE DEF new
<1>6. /\ job' \in [Worker -> Job] /\ job'[w].user = u /\ job'[w].new = new /\ job'[w].identity = s
    <2>1. job'[w] = [job[w] EXCEPT !.user = u, !.new = new] /\ \A v \in Worker \ {w} : job'[v] = job[v]
        BY <1>5 DEF TypeInv, TypeOK
    <2>2. job'[w] \in Job
        BY <1>1, <1>4, <2>1, RowTypes DEF Job
    <2>3. \A v \in Worker : job'[v] \in Job
        BY <2>1, <2>2 DEF TypeInv, TypeOK
    <2> QED
        BY <1>1, <1>5, <2>1, <2>3 DEF TypeInv, TypeOK, Job
<1>7. TypeOK'
    BY <1>1, <1>5, <1>6 DEF TypeInv, TypeOK, Points, cache, history, outcome
<1>8. Only(w) /\ pc'[w] = "save" /\ op'[w] = "social"
    BY <1>1, <1>5 DEF Only, TypeInv, TypeOK
<1>9. account' = account /\ intent' = intent /\ account[u] = NoAccount /\ u \notin drawn \cup {NoUser}
    BY <1>1, <1>5, AccountsAssumption DEF history, outcome, TypeInv, DrawnInv, Live
<1>10. LocalInv(w)'
    <2>1. u \in drawn' /\ account'[u] = NoAccount
        BY <1>5, <1>9
    <2> QED
        BY <1>3, <1>4, <1>6, <1>8, <2>1 DEF LocalInv, PointOf, Inserting, Changing
<1> QED
    BY <1>5, <1>6, <1>7, <1>8, <1>9, <1>10, KeepLemma

LEMMA LinkLemma ==
    ASSUME TypeInv, NEW w \in Worker, Link(w)
    PROVE  TypeInv'
<1>1. /\ Finish(w) /\ pc[w] = "link"
      /\ UNCHANGED <<evictFirst, account, drawn, cache, shown, ops, mishaps, started, history>>
    BY DEF Link
<1>2. link' \in [Identity -> User \cup {NoUser}]
    BY DEF Link, Live, TypeInv, TypeOK
<1>3. TypeOK'
    BY <1>1, <1>2, FinishLemma DEF TypeInv, TypeOK, cache, history, outcome
<1> QED
    BY <1>1, <1>3, EndLemma DEF history, outcome

LEMMA ReadAllLemma ==
    ASSUME TypeInv, NEW w \in Worker, ReadAll(w)
    PROVE  TypeInv'
<1>1. /\ pc[w] = "read" /\ op[w] = "findAll" /\ LocalInv(w) /\ job[w] \in Job
      /\ pc' = [pc EXCEPT ![w] = "put"] /\ job' = [job EXCEPT ![w].read = account]
      /\ UNCHANGED <<evictFirst, rows, cache, shown, op, ops, mishaps, started, history>>
    BY PointLemma DEF ReadAll, TypeInv, TypeOK, Goto
<1>2. job' \in [Worker -> Job] /\ job'[w].user = job[w].user
    BY <1>1 DEF TypeInv, TypeOK, Job
<1>3. TypeOK'
    BY <1>1, <1>2 DEF TypeInv, TypeOK, Points, rows, cache, history, outcome
<1>4. Only(w) /\ pc'[w] = "put" /\ op'[w] = "findAll"
    BY <1>1 DEF Only, TypeInv, TypeOK
<1>5. account' = account /\ drawn' = drawn /\ intent' = intent
    BY <1>1 DEF rows, history, outcome
<1>6. LocalInv(w)' /\ ~ Inserting(w)'
    BY <1>1, <1>2, <1>4, <1>5 DEF LocalInv, PointOf, Inserting, Changing
<1> QED
    BY <1>2, <1>3, <1>4, <1>5, <1>6, KeepLemma

LEMMA PutCacheLemma ==
    ASSUME TypeInv, NEW w \in Worker, PutCache(w)
    PROVE  TypeInv'
<1>1. /\ Finish(w) /\ cached' = TRUE /\ list' = job[w].read /\ unevicted' = (job[w].read # account)
      /\ UNCHANGED <<evictFirst, rows, shown, ops, mishaps, started, history>>
    BY DEF PutCache
<1>2. job[w].read \in [User -> Row]
    BY DEF TypeInv, TypeOK, Job
<1>3. TypeOK'
    BY <1>1, <1>2, FinishLemma DEF TypeInv, TypeOK, rows, history, outcome
<1> QED
    BY <1>1, <1>3, EndLemma DEF rows, history, outcome

LEMMA CrashLemma ==
    ASSUME TypeInv, NEW w \in Worker, Crash(w)
    PROVE  TypeInv'
<1>1. /\ Finish(w) /\ overtaken' = overtaken \ {w} /\ mishaps' = mishaps + 1
      /\ unevicted' = (unevicted \/ (pc[w] = "evict" /\ ~evictFirst))
      /\ UNCHANGED <<evictFirst, rows, cached, list, shown, ops, started, intent, overlapped,
                     dismissed>>
    BY DEF Crash, GiveUp
<1>2. misled' \subseteq User
    <2>1. pc[w] = "commit" \/ pc[w] = "evict" => job[w].user \in User
        BY PointLemma DEF TypeInv, LocalInv, TypeOK, Changing
    <2> QED
        BY <2>1 DEF Crash, TypeInv, TypeOK
<1>3. TypeOK'
    BY <1>1, <1>2, FinishLemma DEF TypeInv, TypeOK, rows
<1> QED
    BY <1>1, <1>3, EndLemma DEF rows

LEMMA ExpireLemma ==
    ASSUME TypeInv, Expire
    PROVE  TypeInv'
<1>1. cached' = FALSE /\ list' = [u \in User |-> NoAccount] /\ unevicted' = FALSE
    BY DEF Expire, ClearCache
<1>2. UNCHANGED <<evictFirst, rows, shown, threads, ops, mishaps, started, history>>
    BY DEF Expire
<1>3. TypeOK'
    BY <1>1, <1>2, RowTypes DEF TypeInv, TypeOK, rows, threads, history, outcome
<1> QED
    BY ZenonT(40), <1>2, <1>3 DEF TypeInv, DrawnInv, Live, LocalInv, PointOf, Inserting, Changing, rows, threads, history, outcome

-----------------------------------------------------------------------------
(* Commits.                                                                *)

LEMMA WrittenLemma ==
    ASSUME TypeInv, TypeOK', NEW w \in Worker, Changing(w) \/ Inserting(w), Write(w), Only(w),
           drawn' = drawn, job'[w].user \in {NoUser, job[w].user},
           LocalInv(w)', ~ Inserting(w)'
    PROVE  TypeInv'
<1>1. /\ \A u \in User : intent'[u] = NoAccount <=> account'[u] = NoAccount
      /\ Live' \subseteq drawn
      /\ \A v \in Worker \ {w} : Inserting(v) => account'[job[v].user] = account[job[v].user]
    BY WriteLemma
<1>2. \A v \in Worker \ {w} : LocalInv(v)'
    BY <1>1, OthersLemma
<1>3. DrawnInv'
    BY <1>1, DrawnLemma
<1> QED
    BY <1>2, <1>3 DEF TypeInv

LEMMA CommitLemma ==
    ASSUME TypeInv, NEW w \in Worker, Commit(w)
    PROVE  TypeInv'
<1>1. /\ pc[w] = "commit" /\ op[w] \in {"create", "update", "delete"} /\ (Changing(w) \/ Inserting(w))
      /\ UNCHANGED <<evictFirst, drawn, cached, list, shown, ops, mishaps, started>>
    BY PointLemma DEF Commit
<1>2. job[w].user \in User
    BY <1>1 DEF TypeInv, LocalInv, TypeOK
<1>3. CASE Write(w) /\ misled' = misled /\ op[w] # "create" /\ ~ evictFirst
                    /\ Goto(w, "evict") /\ UNCHANGED <<op, job, unevicted>>
    <2>1. /\ pc' = [pc EXCEPT ![w] = "evict"] /\ pc'[w] = "evict" /\ op'[w] = op[w] /\ job'[w] = job[w]
          /\ Only(w)
        BY <1>3 DEF Goto, Only, TypeInv, TypeOK
    <2>2. TypeOK'
        BY <1>1, <1>3, <2>1, WriteLemma DEF TypeInv, TypeOK, Points
    <2>3. LocalInv(w)
        BY DEF TypeInv
    <2>4. LocalInv(w)' /\ ~ Inserting(w)'
        BY <1>1, <1>3, <2>1, <2>3 DEF LocalInv, PointOf, Inserting, Changing
    <2> QED
        BY <1>1, <1>3, <2>1, <2>2, <2>4, WrittenLemma
<1>4. CASE Write(w) /\ misled' = misled /\ Finish(w) /\ unevicted' = TRUE
    <2>1. /\ pc' \in [Worker -> Points] /\ op' \in [Worker -> Ops \cup {"none", "findAll"}]
          /\ job' \in [Worker -> Job] /\ pc'[w] = "idle" /\ op'[w] = "none" /\ job'[w].user = NoUser /\ Only(w)
        BY <1>4, FinishLemma DEF TypeInv, NoJob
    <2>2. TypeOK'
        BY <1>1, <1>4, <2>1, WriteLemma DEF TypeInv, TypeOK
    <2>3. LocalInv(w)' /\ ~ Inserting(w)'
        BY <2>1 DEF LocalInv, PointOf, Inserting, Changing
    <2> QED
        BY <1>1, <1>4, <2>1, <2>2, <2>3, WrittenLemma
<1>5. CASE /\ GiveUp(w) /\ misled' = misled \cup {job[w].user}
           /\ UNCHANGED <<account, link, intent, overlapped, dismissed, unevicted>>
    <2>1. TypeOK'
        BY <1>1, <1>2, <1>5, FinishLemma DEF GiveUp, TypeInv, TypeOK
    <2> QED
        BY <1>1, <1>5, <2>1, EndLemma DEF GiveUp
<1> QED
    BY <1>3, <1>4, <1>5 DEF Commit

LEMMA SaveLemma ==
    ASSUME TypeInv, NEW w \in Worker, Save(w)
    PROVE  TypeInv'
<1>1. /\ pc[w] = "save" /\ op[w] \in {"role", "social", "admin"} /\ (Changing(w) \/ Inserting(w))
      /\ UNCHANGED <<evictFirst, drawn, cached, list, shown, ops, mishaps>>
    BY PointLemma DEF Save
<1>2. job[w].user \in User
    BY <1>1 DEF TypeInv, LocalInv, TypeOK
<1> DEFINE Noted == /\ Write(w) /\ misled' = misled \cup {job[w].user} /\ unevicted' = TRUE
                    /\ started' = (started \/ op[w] = "admin")
<1>3. CASE Noted /\ op[w] = "social" /\ Goto(w, "link") /\ UNCHANGED <<op, job>>
    <2>1. /\ pc' = [pc EXCEPT ![w] = "link"] /\ pc'[w] = "link" /\ op'[w] = op[w] /\ job'[w] = job[w]
          /\ Only(w)
        BY <1>3 DEF Goto, Only, TypeInv, TypeOK
    <2>2. TypeOK'
        BY <1>1, <1>2, <1>3, <2>1, WriteLemma DEF TypeInv, TypeOK, Points
    <2>3. LocalInv(w)
        BY DEF TypeInv
    <2>4. LocalInv(w)' /\ ~ Inserting(w)'
        BY <1>1, <1>3, <2>1, <2>3 DEF LocalInv, PointOf, Inserting, Changing
    <2> QED
        BY <1>1, <1>3, <2>1, <2>2, <2>4, WrittenLemma
<1>4. CASE Noted /\ Finish(w)
    <2>1. /\ pc' \in [Worker -> Points] /\ op' \in [Worker -> Ops \cup {"none", "findAll"}]
          /\ job' \in [Worker -> Job] /\ pc'[w] = "idle" /\ op'[w] = "none" /\ job'[w].user = NoUser /\ Only(w)
        BY <1>4, FinishLemma DEF TypeInv, NoJob
    <2>2. TypeOK'
        BY <1>1, <1>2, <1>4, <2>1, WriteLemma DEF TypeInv, TypeOK
    <2>3. LocalInv(w)' /\ ~ Inserting(w)'
        BY <2>1 DEF LocalInv, PointOf, Inserting, Changing
    <2> QED
        BY <1>1, <1>4, <2>1, <2>2, <2>3, WrittenLemma
<1>5. CASE GiveUp(w) /\ UNCHANGED <<account, link, unevicted, started, outcome>>
    <2>1. TypeOK'
        BY <1>1, <1>5, FinishLemma DEF GiveUp, TypeInv, TypeOK, outcome
    <2> QED
        BY <1>1, <1>5, <2>1, EndLemma DEF GiveUp, outcome
<1> QED
    BY <1>3, <1>4, <1>5 DEF Save

-----------------------------------------------------------------------------
(* The types.                                                              *)

LEMMA TypeInit == Init => TypeInv
<1> SUFFICES ASSUME Init PROVE TypeInv
    OBVIOUS
<1>1. TypeOK
    BY NoJobLemma, RowTypes DEF Init, TypeOK, Points
<1>2. \A w \in Worker : op[w] = "none" /\ pc[w] = "idle" /\ job[w].user = NoUser
    BY DEF Init, NoJob
<1>3. \A w \in Worker : LocalInv(w) /\ ~ Inserting(w)
    BY <1>2 DEF LocalInv, PointOf, Inserting, Changing
<1>4. DrawnInv
    BY <1>3 DEF DrawnInv, Init, Live
<1> QED
    BY <1>1, <1>3, <1>4 DEF TypeInv

LEMMA TypeStep == TypeInv /\ [Next]_vars => TypeInv'
<1> SUFFICES ASSUME TypeInv, [Next]_vars PROVE TypeInv'
    OBVIOUS
<1>1. ASSUME NEW w \in Worker, Start(w) PROVE TypeInv'
    BY <1>1, StartCreateLemma, StartUpdateLemma, StartDeleteLemma, StartRoleLemma,
       StartSocialLemma, StartInstanceLemma, MissCacheLemma DEF Start
<1>2. ASSUME NEW w \in Worker, Step(w) PROVE TypeInv'
    BY <1>2, CreateCheckLemma, UpdateCheckLemma, DeleteCheckLemma, TellLemma, EvictLemma,
       CommitLemma, FindByEmailLemma, ChooseNameLemma, SaveLemma, LinkLemma, ReadAllLemma,
       PutCacheLemma DEF Step
<1>3. ASSUME NEW w \in Worker, Crash(w) PROVE TypeInv'
    BY <1>3, CrashLemma
<1>4. CASE Expire
    BY <1>4, ExpireLemma
<1>5. CASE UNCHANGED vars
    BY ZenonT(40), <1>5 DEF TypeInv, TypeOK, DrawnInv, Live, LocalInv, PointOf, Inserting, Changing,
                vars, rows, cache, threads, history, outcome
<1> QED
    BY <1>1, <1>2, <1>3, <1>4, <1>5 DEF Next

\* The types, and what a request has at each point, hold throughout.
THEOREM TypeInvariant == Spec => []TypeInv
<1> QED
    BY TypeInit, TypeStep, PTL DEF Spec

\* Every variable has its type: the rows, threads and caches of any run of the service.
THEOREM TypeCorrect == Spec => []TypeOK
<1>1. TypeInv => TypeOK
    BY DEF TypeInv
<1> QED
    BY <1>1, TypeInvariant, PTL

-----------------------------------------------------------------------------
(* What a step does to the rows.                                           *)

AdminExists == \E a \in Live : account[a].role = "ADMIN"

\* A step of w that writes no row: it loads one, goes on with the one it has, or has none.
Quiet(w) ==
    /\ UNCHANGED <<evictFirst, account, intent, overlapped, dismissed>>
    /\ Only(w) /\ overtaken' \ {w} = overtaken \ {w}
    /\ started' => started \/ AdminExists
    /\ \/ /\ job'[w].user \in Live /\ job'[w].old = account[job'[w].user]
          /\ op'[w] = "role" => AdminExists
       \/ /\ job'[w].old = job[w].old
          /\ Changing(w)' => Changing(w) /\ job'[w].user = job[w].user
          /\ op'[w] = "role" => op[w] = "role"
          /\ pc[w] = "evict" /\ ~ evictFirst => pc'[w] = "evict"
       \/ ~ Changing(w)' /\ job'[w].old = NoAccount

\* A step of w that writes its row.
Written(w) ==
    /\ pc[w] \in {"commit", "save"} /\ (Changing(w) \/ Inserting(w))
    /\ Write(w)
    /\ Only(w)
    /\ evictFirst' = evictFirst
    /\ started' => started \/ op[w] = "admin"
    /\ \/ op'[w] = "none" /\ job'[w] = NoJob
       \/ Changing(w) /\ pc'[w] = "evict" /\ ~ evictFirst /\ op'[w] = op[w] /\ job'[w] = job[w]
       \/ op[w] = "social" /\ op'[w] = op[w] /\ job'[w] = job[w]

NoStep ==
    UNCHANGED <<evictFirst, account, intent, overlapped, dismissed, overtaken, pc, op, job, started>>

\* A request that ends without writing.
LEMMA QuietEnd ==
    ASSUME TypeInv, NEW w \in Worker, Finish(w), started' = started,
           UNCHANGED <<evictFirst, account, intent, overlapped, dismissed>>,
           overtaken' \ {w} = overtaken \ {w}
    PROVE  Quiet(w)
<1>1. op'[w] = "none" /\ job'[w] = NoJob /\ Only(w)
    BY FinishLemma DEF TypeInv
<1> QED
    BY <1>1 DEF Quiet, Changing, NoJob

\* A request that begins with the row as it is, or with none.
LEMMA QuietStart ==
    ASSUME TypeInv, NEW w \in Worker, Start(w)
    PROVE  Quiet(w)
<1>1. ASSUME NEW n \in Username, NEW e \in Email, StartCreate(w, n, e) PROVE Quiet(w)
    BY <1>1 DEF StartCreate, Begin, Goto, Quiet, Only, Changing, NoJob, rows, history, outcome, TypeInv, TypeOK
<1>2. ASSUME NEW u \in User, NEW n \in Username, NEW e \in Email \cup {NoName}, StartUpdate(w, u, n, e)
      PROVE  Quiet(w)
    BY <1>2 DEF StartUpdate, Begin, Goto, Quiet, Only, NoJob, rows, history, outcome, TypeInv, TypeOK
<1>3. ASSUME NEW u \in User, StartDelete(w, u) PROVE Quiet(w)
    BY <1>3 DEF StartDelete, Begin, Goto, Quiet, Only, NoJob, rows, history, outcome, TypeInv, TypeOK
<1>4. ASSUME NEW u \in User, NEW r \in Role, StartRole(w, u, r) PROVE Quiet(w)
    BY <1>4 DEF StartRole, Begin, Goto, Quiet, Only, NoJob, AdminExists, rows, history, outcome, TypeInv, TypeOK
<1>5. ASSUME NEW s \in Identity, StartSocial(w, s) PROVE Quiet(w)
    BY <1>5 DEF StartSocial, Begin, Goto, Quiet, Only, Changing, NoJob, rows, history, outcome, TypeInv, TypeOK
<1>6. ASSUME StartInstance(w) PROVE Quiet(w)
    <2>1. UNCHANGED <<evictFirst, account, history>>
        BY <1>6 DEF StartInstance
    <2>2. CASE AdminExists
        <3>1. UNCHANGED <<pc, op, job>>
            BY <1>6, <2>2 DEF StartInstance, AdminExists, threads
        <3>2. LocalInv(w) /\ op[w] \in Ops \cup {"none", "findAll"}
            BY DEF TypeInv, TypeOK
        <3> QED
            BY <2>1, <2>2, <3>1, <3>2 DEF Quiet, Only, Changing, LocalInv, history, outcome
    <2>3. CASE ~ AdminExists
        <3>1. PICK u \in User \ drawn :
                  Begin(w, "admin", "save", [NoJob EXCEPT !.user = u, !.new = InitialAdmin])
            BY <1>6, <2>3 DEF StartInstance, AdminExists
        <3>2. started' = started
            BY <1>6, <2>3 DEF StartInstance, AdminExists
        <3> QED
            BY <2>1, <3>1, <3>2 DEF Begin, Goto, Quiet, Only, Changing, NoJob, history, outcome, TypeInv, TypeOK
    <2> QED
        BY <2>2, <2>3
<1>7. ASSUME MissCache(w) PROVE Quiet(w)
    BY <1>7 DEF MissCache, Goto, Quiet, Only, Changing, rows, history, outcome, TypeInv, TypeOK
<1> QED
    BY <1>1, <1>2, <1>3, <1>4, <1>5, <1>6, <1>7 DEF Start

\* What a request does after it has begun.
LEMMA StepCases ==
    ASSUME TypeInv, NEW w \in Worker, Step(w)
    PROVE  Quiet(w) \/ Written(w)
<1> DEFINE Same ==
        /\ UNCHANGED <<evictFirst, account, intent, overlapped, dismissed, started>>
        /\ overtaken' \ {w} = overtaken \ {w}
<1>1. ASSUME Same, Finish(w) PROVE Quiet(w)
    BY <1>1, QuietEnd
<1>2. ASSUME NEW p, Same, Goto(w, p), UNCHANGED <<op, job>>, pc[w] # "evict" \/ evictFirst
      PROVE  Quiet(w)
    BY <1>2 DEF Quiet, Only, Goto, Changing, TypeInv, TypeOK
<1>3. ASSUME CreateCheck(w) PROVE Quiet(w)
    <2>1. CASE Reject(w)
        BY <1>1, <2>1 DEF Reject, GiveUp, rows, outcome
    <2>2. CASE ~ Reject(w)
        <3>1. op[w] = "create" /\ pc[w] = "check" /\ Same /\ op' = op /\ Goto(w, "tell")
            BY <1>3, <2>2 DEF CreateCheck, history, outcome
        <3>2. PICK u, new : job' = [job EXCEPT ![w].user = u, ![w].new = new]
            BY <1>3, <2>2 DEF CreateCheck, Draw
        <3>3. job'[w].old = job[w].old /\ \A v \in Worker \ {w} : job'[v] = job[v]
            BY <3>2 DEF TypeInv, TypeOK, Job
        <3> QED
            BY <3>1, <3>3 DEF Quiet, Only, Goto, Changing, TypeInv, TypeOK
    <2> QED
        BY <2>1, <2>2
<1>4. ASSUME UpdateCheck(w) \/ DeleteCheck(w) PROVE Quiet(w)
    <2>1. CASE Reject(w)
        BY <1>1, <2>1 DEF Reject, GiveUp, rows, outcome
    <2>2. CASE ~ Reject(w)
        <3>1. pc[w] = "check" /\ Goto(w, "tell") /\ UNCHANGED <<op, job>> /\ Same
            BY <1>4, <2>2 DEF UpdateCheck, DeleteCheck, rows, history, outcome
        <3> QED
            BY <1>2, <3>1
    <2> QED
        BY <2>1, <2>2
<1>5. ASSUME Tell(w) PROVE Quiet(w)
    <2>1. pc[w] = "tell" /\ Goto(w, AfterTell(w)) /\ UNCHANGED <<op, job>> /\ Same
        BY <1>5 DEF Tell, rows
    <2> QED
        BY <1>2, <2>1
<1>6. ASSUME Evict(w) PROVE Quiet(w)
    <2>1. Same
        BY <1>6 DEF Evict, rows, history, outcome
    <2>2. CASE evictFirst
        BY <1>2, <1>6, <2>1, <2>2 DEF Evict
    <2>3. CASE ~ evictFirst
        BY <1>1, <1>6, <2>1, <2>3 DEF Evict
    <2> QED
        BY <2>2, <2>3
<1>7. ASSUME Commit(w) PROVE Quiet(w) \/ Written(w)
    <2>1. pc[w] = "commit" /\ (Changing(w) \/ Inserting(w)) /\ evictFirst' = evictFirst /\ started' = started
        BY <1>7, PointLemma DEF Commit
    <2>2. CASE Write(w) /\ Finish(w)
        BY <2>1, <2>2, FinishLemma DEF Written, TypeInv
    <2>3. CASE /\ Write(w) /\ op[w] # "create" /\ ~ evictFirst
               /\ Goto(w, "evict") /\ UNCHANGED <<op, job>>
        <3>1. Changing(w)
            BY <1>7, <2>3, PointLemma DEF Commit, Changing
        <3> QED
            BY <2>1, <2>3, <3>1 DEF Written, Only, Goto, TypeInv, TypeOK
    <2>4. CASE GiveUp(w) /\ UNCHANGED <<account, intent, overlapped, dismissed>>
        BY <1>1, <2>1, <2>4 DEF GiveUp
    <2> QED
        BY <1>7, <2>2, <2>3, <2>4 DEF Commit
<1>8. ASSUME Save(w) PROVE Quiet(w) \/ Written(w)
    <2>1. pc[w] = "save" /\ (Changing(w) \/ Inserting(w)) /\ evictFirst' = evictFirst
        BY <1>8, PointLemma DEF Save
    <2>2. CASE Write(w) /\ started' = (started \/ op[w] = "admin") /\ Finish(w)
        BY <2>1, <2>2, FinishLemma DEF Written, TypeInv
    <2>3. CASE /\ Write(w) /\ started' = (started \/ op[w] = "admin")
               /\ op[w] = "social" /\ Goto(w, "link") /\ UNCHANGED <<op, job>>
        BY <2>1, <2>3 DEF Written, Only, Goto, TypeInv, TypeOK
    <2>4. CASE GiveUp(w) /\ UNCHANGED <<account, started, outcome>>
        BY <1>1, <2>1, <2>4 DEF GiveUp, outcome
    <2> QED
        BY <1>8, <2>2, <2>3, <2>4 DEF Save
<1>9. ASSUME FindByEmail(w) PROVE Quiet(w)
    <2>1. op[w] = "social" /\ pc[w] = "email" /\ Same /\ op' = op
        BY <1>9, PointLemma DEF FindByEmail, rows, history, outcome
    <2>2. CASE Goto(w, "name") /\ UNCHANGED job
        BY <1>2, <2>1, <2>2
    <2>3. ASSUME NEW u \in Live, job' = [job EXCEPT ![w].user = u], Goto(w, "link")
          PROVE  Quiet(w)
        BY <2>1, <2>3 DEF Quiet, Only, Goto, Changing, TypeInv, TypeOK, Job
    <2> QED
        BY <1>9, <2>2, <2>3 DEF FindByEmail
<1>10. ASSUME ChooseName(w) PROVE Quiet(w)
    <2>1. op[w] = "social" /\ pc[w] = "name" /\ Same /\ op' = op /\ Goto(w, "save")
        BY <1>10, PointLemma DEF ChooseName, history, outcome
    <2>2. PICK u, new : job' = [job EXCEPT ![w].user = u, ![w].new = new]
        BY <1>10 DEF ChooseName, Draw
    <2>3. job'[w].old = job[w].old /\ \A v \in Worker \ {w} : job'[v] = job[v]
        BY <2>2 DEF TypeInv, TypeOK, Job
    <2> QED
        BY <2>1, <2>3 DEF Quiet, Only, Goto, Changing, TypeInv, TypeOK
<1>11. ASSUME Link(w) PROVE Quiet(w)
    BY <1>1, <1>11 DEF Link, history, outcome
<1>12. ASSUME ReadAll(w) PROVE Quiet(w)
    <2>1. op[w] = "findAll" /\ pc[w] = "read" /\ Same /\ op' = op /\ Goto(w, "put")
        BY <1>12, PointLemma DEF ReadAll, rows, history, outcome
    <2>2. job' = [job EXCEPT ![w].read = account]
        BY <1>12 DEF ReadAll
    <2> QED
        BY <2>1, <2>2 DEF Quiet, Only, Goto, Changing, TypeInv, TypeOK, Job
<1>13. ASSUME PutCache(w) PROVE Quiet(w)
    BY <1>1, <1>13 DEF PutCache, rows, history, outcome
<1> QED
    BY <1>3, <1>4, <1>5, <1>6, <1>7, <1>8, <1>9, <1>10, <1>11, <1>12, <1>13 DEF Step

LEMMA NextCases ==
    ASSUME TypeInv, [Next]_vars
    PROVE  NoStep \/ \E w \in Worker : Quiet(w) \/ Written(w)
<1>1. ASSUME NEW w \in Worker, Crash(w) PROVE Quiet(w)
    BY <1>1, QuietEnd DEF Crash, GiveUp, rows
<1>2. CASE Expire \/ UNCHANGED vars
    BY <1>2 DEF Expire, NoStep, vars, rows, threads, history, outcome
<1> QED
    BY <1>1, <1>2, QuietStart, StepCases DEF Next

\* What a write does to the table.
LEMMA RowWritten ==
    ASSUME TypeInv, NEW w \in Worker, Written(w)
    PROVE  /\ job[w].user \in User
           /\ account' = [account EXCEPT ![job[w].user] = Result(w)]
           /\ Result(w) \in Row
           /\ Result(w) = NoAccount <=> op[w] = "delete"
           /\ account[job[w].user] = NoAccount <=> Inserting(w)
           /\ Result(w) # NoAccount => Fits(job[w].user, Result(w))
<1>1. Changing(w) \/ Inserting(w)
    BY DEF Written
<1>2. account[job[w].user] = NoAccount <=> Inserting(w)
    BY <1>1 DEF Written, Write, Changing, Live, TypeInv, LocalInv
<1> QED
    BY <1>1, <1>2, WriteLemma, ResultLemma DEF Written, Write

-----------------------------------------------------------------------------
(* Rows.                                                                   *)

\* The constraints of the table.
UniqueInv ==
    \A u, v \in Live :
        u # v => account[u].name # account[v].name /\ account[u].email # account[v].email

LEMMA UniqueStep ==
    ASSUME TypeInv, UniqueInv, [Next]_vars
    PROVE  UniqueInv'
<1>1. ASSUME account' = account PROVE UniqueInv'
    BY <1>1 DEF UniqueInv, Live
<1>2. ASSUME NEW w \in Worker, Written(w) PROVE UniqueInv'
    <2> DEFINE u == job[w].user
               row == Result(w)
    <2>1. u \in User /\ account' = [account EXCEPT ![u] = row] /\ (row # NoAccount => Fits(u, row))
        BY <1>2, RowWritten
    <2> HIDE DEF row
    <2>2. SUFFICES ASSUME NEW a \in Live', NEW b \in Live', a # b
                   PROVE  account'[a].name # account'[b].name /\ account'[a].email # account'[b].email
        BY DEF UniqueInv
    <2>3. a \in User /\ b \in User /\ (a # u => a \in Live) /\ (b # u => b \in Live)
        BY <2>1 DEF Live, TypeInv, TypeOK
    <2>4. CASE a # u /\ b # u
        BY <2>1, <2>2, <2>3, <2>4 DEF UniqueInv, TypeInv, TypeOK
    <2>5. CASE a = u \/ b = u
        <3>1. row # NoAccount /\ account'[u] = row
            BY <2>1, <2>2, <2>5 DEF Live, TypeInv, TypeOK
        <3>2. \A v \in Live \ {u} : account[v].name # row.name /\ account[v].email # row.email
            BY <2>1, <3>1 DEF Fits
        <3>3. \A v \in User \ {u} : account'[v] = account[v]
            BY <2>1 DEF TypeInv, TypeOK
        <3> QED
            BY <2>2, <2>3, <2>5, <3>1, <3>2, <3>3
    <2> QED
        BY <2>4, <2>5
<1> QED
    BY <1>1, <1>2, NextCases DEF NoStep, Quiet

-----------------------------------------------------------------------------
(* Requests that are refused.                                              *)

\* A name that was made unique for a user is only ever that user's.
Named(w) ==
    /\ op[w] = "create" => job[w].new.name \in Username
    /\ Changing(w) => job[w].old.name \in Username \cup {job[w].user}
    /\ Inserting(w) => job[w].new.name \in Username \cup {job[w].user}

NamedInv ==
    /\ \A v \in Live : account[v].name \in Username \cup {v}
    /\ \A w \in Worker : Named(w)

\* w has not written its row yet, ...
Unwritten(w) == pc[w] = "evict" => evictFirst

\* ... and has looked for its name and e-mail.
Checked(w) ==
    \/ op[w] = "create" /\ pc[w] \in {"tell", "commit"}
    \/ op[w] = "update" /\ pc[w] \in {"tell", "evict", "commit"} /\ Unwritten(w)
    \/ op[w] = "social" /\ pc[w] = "save"

\* What w goes by is still so: the row that it has loaded, and that nobody else has the
\* name and the e-mail that it looked for.
Sure(w) ==
    /\ Changing(w) /\ Unwritten(w) => account[job[w].user] = job[w].old
    /\ Checked(w) => Fits(job[w].user, job[w].new)
    /\ op[w] = "social" /\ pc[w] = "name" => ~ EmailTaken(SocialEmail[job[w].identity])

\* It is, as long as no other request has come in the way.
SureInv == UniqueInv /\ NamedInv /\ \A w \in Worker \ overtaken : Sure(w)

Sound(w) == Named(w) /\ (w \in overtaken \/ Sure(w))

\* The row that is written has a name that may be its.
LEMMA NamedResult ==
    ASSUME TypeInv, NamedInv, NEW w \in Worker, Changing(w) \/ Inserting(w), op[w] # "delete"
    PROVE  Result(w).name \in Username \cup {job[w].user}
<1>1. Named(w) /\ LocalInv(w)
    BY DEF NamedInv, TypeInv
<1>2. CASE op[w] = "update"
    BY <1>1, <1>2 DEF Result, LocalInv
<1>3. CASE op[w] = "role"
    <2>1. Result(w) = [job[w].old EXCEPT !.role = job[w].new.role] /\ job[w].old \in Account
        BY <1>1, <1>3 DEF Result, LocalInv, Changing
    <2>2. Result(w).name = job[w].old.name
        BY <2>1 DEF Account
    <2> QED
        BY <1>1, <1>3, <2>2 DEF Named, Changing
<1>4. CASE op[w] \notin {"update", "role"}
    <2>1. Result(w) = job[w].new /\ Inserting(w)
        BY <1>4 DEF Result, Changing
    <2> QED
        BY <1>1, <2>1 DEF Named
<1> QED
    BY <1>2, <1>3, <1>4

\* What w goes by is still so when another thread writes row for u, which is not in the way.
LEMMA SureLemma ==
    ASSUME TypeInv, NEW w \in Worker, Sure(w), NEW u \in User, NEW row \in Row,
           pc'[w] = pc[w], op'[w] = op[w], job'[w] = job[w], evictFirst' = evictFirst,
           account' = [account EXCEPT ![u] = row],
           Pending(w) => ~ InTheWay(w, u, row)
    PROVE  Sure(w)'
<1>1. /\ Changing(w)' <=> Changing(w)
      /\ Unwritten(w)' <=> Unwritten(w)
      /\ Checked(w)' <=> Checked(w)
    BY DEF Changing, Unwritten, Checked
<1>2. /\ Changing(w) /\ Unwritten(w) => Pending(w)
      /\ Checked(w) => Pending(w)
      /\ op[w] = "social" /\ pc[w] = "name" => Pending(w)
    BY DEF Changing, Unwritten, Checked, Pending
<1>3. CASE ~ Pending(w)
    BY <1>1, <1>2, <1>3 DEF Sure
<1>4. CASE Pending(w)
    <2>1. /\ job[w].user # u
          /\ row # NoAccount => /\ row.name # Result(w).name /\ row.email # Result(w).email
                                /\ op[w] = "social" => row.email # SocialEmail[job[w].identity]
        BY <1>4 DEF InTheWay
    <2>2. Live' \subseteq Live \cup {u} /\ (u \in Live' => account'[u] = row /\ row # NoAccount)
        BY DEF Live, TypeInv, TypeOK
    <2>3. \A v \in User \ {u} : account'[v] = account[v]
        BY DEF TypeInv, TypeOK
    <2>4. Changing(w) => job[w].user \in User
        BY DEF TypeInv, TypeOK, LocalInv
    <2>5. ASSUME Checked(w), row # NoAccount
          PROVE  row.name # job[w].new.name /\ row.email # job[w].new.email
        <3>1. CASE op[w] = "update"
            <4>1. row.email # NoName
                BY <2>5, AccountsAssumption DEF Row, Account
            <4>2. Result(w).name = job[w].new.name
                BY <3>1 DEF Result
            <4>3. job[w].new.email # NoName => Result(w).email = job[w].new.email
                BY <3>1 DEF Result
            <4> QED
                BY <2>1, <2>5, <4>1, <4>2, <4>3
        <3>2. CASE op[w] \in {"create", "social"}
            <4>1. Result(w) = job[w].new
                BY <3>2 DEF Result
            <4> QED
                BY <2>1, <2>5, <4>1
        <3> QED
            BY <2>5, <3>1, <3>2 DEF Checked
    <2>6. Checked(w) /\ Fits(job[w].user, job[w].new) => Fits(job[w].user, job[w].new)'
        <3> SUFFICES ASSUME Checked(w), Fits(job[w].user, job[w].new),
                            NEW v \in Live' \ {job[w].user}
                     PROVE  account'[v].name # job[w].new.name /\ account'[v].email # job[w].new.email
            BY DEF Fits
        <3>1. CASE v = u
            BY <2>2, <2>5, <3>1
        <3>2. CASE v # u
            BY <2>2, <2>3, <3>2 DEF Fits, Live
        <3> QED
            BY <3>1, <3>2
    <2>7. op[w] = "social" /\ ~ EmailTaken(SocialEmail[job[w].identity]) =>
              ~ EmailTaken(SocialEmail[job[w].identity])'
        BY <2>1, <2>2, <2>3 DEF EmailTaken, Live
    <2>8. Changing(w) => account'[job[w].user] = account[job[w].user]
        BY <2>1, <2>3, <2>4
    <2> QED
        BY <1>1, <2>6, <2>7, <2>8 DEF Sure
<1> QED
    BY <1>3, <1>4

\* What w goes by, when neither it nor the table changes.
LEMMA SureKept ==
    ASSUME NEW w \in Worker, UNCHANGED <<evictFirst, account>>,
           pc'[w] = pc[w], op'[w] = op[w], job'[w] = job[w]
    PROVE  (Sure(w)' <=> Sure(w)) /\ (Named(w)' <=> Named(w))
BY ZenonT(40) DEF Sure, Named, Changing, Inserting, Unwritten, Checked, Fits, EmailTaken, Live

\* A thread that serves no writing request goes by nothing.
LEMMA SureIdle ==
    ASSUME NEW w \in Worker, op'[w] \in {"none", "findAll"}
    PROVE  Sound(w)'
BY DEF Sound, Sure, Named, Changing, Inserting, Checked

\* A request that begins goes by the row as it is.
LEMMA SureLoaded ==
    ASSUME TypeInv, SureInv, NEW w \in Worker, account' = account,
           (op'[w] = "update" /\ pc'[w] = "check") \/ op'[w] \in {"delete", "role"},
           job'[w].user \in Live, job'[w].old = account[job'[w].user]
    PROVE  Sound(w)'
<1>1. Changing(w)' /\ ~ Checked(w)' /\ ~ Inserting(w)' /\ op'[w] \notin {"create", "social"}
    BY DEF Changing, Checked, Inserting
<1>2. job'[w].old.name \in Username \cup {job'[w].user}
    BY DEF SureInv, NamedInv
<1> QED
    BY <1>1, <1>2 DEF Sound, Sure, Named

LEMMA SureStart ==
    ASSUME TypeInv, SureInv, NEW w \in Worker, Start(w)
    PROVE  Sound(w)'
<1>0. account' = account /\ Only(w)
    BY QuietStart DEF Quiet
<1>1. ASSUME NEW n \in Username, NEW e \in Email, StartCreate(w, n, e) PROVE Sound(w)'
    <2>1. /\ op'[w] = "create" /\ pc'[w] = "check"
          /\ job'[w].new = [name |-> n, email |-> e, role |-> "USER"]
        BY <1>1 DEF StartCreate, Begin, Goto, NoJob, TypeInv, TypeOK
    <2> QED
        BY <2>1 DEF Sound, Sure, Named, Changing, Inserting, Checked
<1>2. ASSUME NEW u \in User, NEW n \in Username, NEW e \in Email \cup {NoName}, StartUpdate(w, u, n, e)
      PROVE  Sound(w)'
    <2>1. /\ op'[w] = "update" /\ pc'[w] = "check" /\ u \in Live
          /\ job'[w].user = u /\ job'[w].old = account[u]
        BY <1>2 DEF StartUpdate, Begin, Goto, NoJob, TypeInv, TypeOK
    <2> QED
        BY <1>0, <2>1, SureLoaded
<1>3. ASSUME NEW u \in User, StartDelete(w, u) PROVE Sound(w)'
    <2>1. op'[w] = "delete" /\ u \in Live /\ job'[w].user = u /\ job'[w].old = account[u]
        BY <1>3 DEF StartDelete, Begin, Goto, NoJob, TypeInv, TypeOK
    <2> QED
        BY <1>0, <2>1, SureLoaded
<1>4. ASSUME NEW u \in User, NEW r \in Role, StartRole(w, u, r) PROVE Sound(w)'
    <2>1. op'[w] = "role" /\ u \in Live /\ job'[w].user = u /\ job'[w].old = account[u]
        BY <1>4 DEF StartRole, Begin, Goto, NoJob, TypeInv, TypeOK
    <2> QED
        BY <1>0, <2>1, SureLoaded
<1>5. ASSUME NEW s \in Identity, StartSocial(w, s) PROVE Sound(w)'
    <2>1. op'[w] = "social" /\ pc'[w] = "email"
        BY <1>5 DEF StartSocial, Begin, Goto, TypeInv, TypeOK
    <2> QED
        BY <2>1 DEF Sound, Sure, Named, Changing, Inserting, Checked
<1>6. ASSUME StartInstance(w) PROVE Sound(w)'
    <2>1. CASE AdminExists
        <3>1. UNCHANGED <<evictFirst, account, pc, op, job, overtaken>>
            BY <1>6, <2>1 DEF StartInstance, AdminExists, threads, history
        <3> QED
            BY <3>1, SureKept DEF SureInv, NamedInv, Sound
    <2>2. CASE ~ AdminExists
        <3>1. PICK u \in User \ drawn :
                  Begin(w, "admin", "save", [NoJob EXCEPT !.user = u, !.new = InitialAdmin])
            BY <1>6, <2>2 DEF StartInstance, AdminExists
        <3>2. op'[w] = "admin" /\ job'[w].new = InitialAdmin
            BY <3>1 DEF Begin, NoJob, TypeInv, TypeOK
        <3>3. InitialAdmin.name \in Username
            BY AccountsAssumption DEF InitialAdmin
        <3> QED
            BY <3>2, <3>3 DEF Sound, Sure, Named, Changing, Checked
    <2> QED
        BY <2>1, <2>2
<1>7. ASSUME MissCache(w) PROVE Sound(w)'
    <2>1. op'[w] = "findAll"
        BY <1>7 DEF MissCache, TypeInv, TypeOK
    <2> QED
        BY <2>1, SureIdle
<1> QED
    BY <1>1, <1>2, <1>3, <1>4, <1>5, <1>6, <1>7 DEF Start

\* A request that goes on with what it has, and has not just looked for it.
LEMMA SureMoved ==
    ASSUME TypeInv, SureInv, NEW w \in Worker, UNCHANGED <<evictFirst, account, overtaken>>,
           op'[w] = op[w], job'[w] = job[w], pc'[w] # "name",
           Checked(w)' => Checked(w), Unwritten(w)' => Unwritten(w), Inserting(w)' => Inserting(w)
    PROVE  Sound(w)'
<1>1. Sound(w)
    BY DEF SureInv, NamedInv, Sound
<1>2. (Changing(w)' <=> Changing(w)) /\ Live' = Live
    BY DEF Changing, Live
<1>3. Fits(job[w].user, job[w].new)' <=> Fits(job[w].user, job[w].new)
    BY <1>2 DEF Fits
<1> QED
    BY <1>1, <1>2, <1>3 DEF Sound, Sure, Named

\* One that has found its name and its e-mail free.
LEMMA SureFree ==
    ASSUME TypeInv, SureInv, NEW w \in Worker, UNCHANGED <<evictFirst, account, overtaken>>,
           Free(w), op'[w] = op[w], pc[w] = "check", pc'[w] = "tell",
           job'[w].new = job[w].new, job'[w].old = job[w].old,
           op[w] = "create" \/ (op[w] = "update" /\ job'[w].user = job[w].user)
    PROVE  Sound(w)'
<1>1. Sound(w) /\ Unwritten(w)
    BY DEF SureInv, NamedInv, Sound, Unwritten
<1>2. (Changing(w)' <=> Changing(w)) /\ (op[w] = "create" => ~ Changing(w)')
    BY DEF Changing
<1>3. Fits(job[w].user, job[w].new)'
    BY DEF Free, NameTaken, EmailTaken, Fits, Live
<1>4. w \in overtaken' \/ Sure(w)'
    BY <1>1, <1>2, <1>3 DEF Sound, Sure
<1>5. Named(w)'
    BY <1>1, <1>2 DEF Sound, Named, Inserting, Changing
<1> QED
    BY <1>4, <1>5 DEF Sound

\* A social login that has found the e-mail free, and then chosen its name.
LEMMA SureSocial ==
    ASSUME TypeInv, SureInv, NEW w \in Worker, FindByEmail(w) \/ ChooseName(w)
    PROVE  Sound(w)'
<1>1. UNCHANGED <<account, overtaken>> /\ op'[w] = "social" /\ op[w] = "social"
    BY PointLemma DEF FindByEmail, ChooseName, rows, history
<1>2. LocalInv(w) /\ Sound(w) /\ Live' = Live
    BY <1>1 DEF TypeInv, SureInv, NamedInv, Sound, Live
<1>3. CASE FindByEmail(w)
    <2>1. \/ Goto(w, "link")
          \/ Goto(w, "name") /\ UNCHANGED job /\ ~ EmailTaken(SocialEmail[job[w].identity])
        BY <1>3 DEF FindByEmail
    <2>2. \/ pc'[w] = "link"
          \/ pc'[w] = "name" /\ job' = job /\ ~ EmailTaken(SocialEmail[job[w].identity])
        BY <2>1 DEF Goto, TypeInv, TypeOK
    <2>3. pc'[w] = "name" => ~ EmailTaken(SocialEmail[job[w].identity])'
        BY <1>1, <1>2, <2>2 DEF EmailTaken
    <2> QED
        BY <1>1, <2>2, <2>3 DEF Sound, Sure, Named, Changing, Inserting, Checked
<1>4. CASE ChooseName(w)
    <2> DEFINE n == SocialName[job[w].identity]
               e == SocialEmail[job[w].identity]
    <2>1. pc[w] = "name" /\ pc'[w] = "save" /\ job[w].identity \in Identity
        BY <1>1, <1>2, <1>4 DEF ChooseName, Goto, LocalInv, TypeInv, TypeOK
    <2>2. PICK u \in User \ drawn :
              job' = [job EXCEPT ![w].user = u,
                                 ![w].new = [name |-> IF NameTaken(n) THEN u ELSE n,
                                             email |-> e, role |-> "USER"]]
        BY <1>4 DEF ChooseName, Draw
    <2>3. /\ job'[w].user = u
          /\ job'[w].new.name = (IF NameTaken(n) THEN u ELSE n) /\ job'[w].new.email = e
        BY <2>2 DEF TypeInv, TypeOK, Job
    <2>4. \A v \in Live \ {u} : account[v].name # job'[w].new.name
        <3>1. CASE NameTaken(n)
            BY <2>3, <3>1, AccountsAssumption DEF SureInv, NamedInv
        <3>2. CASE ~ NameTaken(n)
            BY <2>3, <3>2 DEF NameTaken
        <3> QED
            BY <3>1, <3>2
    <2>5. w \in overtaken \/ ~ EmailTaken(e)
        BY <1>1, <1>2, <2>1 DEF Sound, Sure
    <2>6. w \in overtaken' \/ Fits(job[w].user, job[w].new)'
        BY <1>1, <1>2, <2>3, <2>4, <2>5 DEF Fits, EmailTaken
    <2>7. job'[w].new.name \in Username \cup {job'[w].user}
        BY <2>1, <2>3, AccountsAssumption
    <2> QED
        BY <1>1, <2>1, <2>6, <2>7 DEF Sound, Sure, Named, Changing, Inserting, Checked
<1> QED
    BY <1>3, <1>4

\* What a request goes by when it has gone on.
LEMMA SureStep ==
    ASSUME TypeInv, SureInv, NEW w \in Worker, Step(w)
    PROVE  Sound(w)'
<1>1. ASSUME Finish(w) PROVE Sound(w)'
    <2>1. op'[w] = "none"
        BY <1>1, FinishLemma DEF TypeInv
    <2> QED
        BY <2>1, SureIdle
<1>2. ASSUME CreateCheck(w) PROVE Sound(w)'
    <2>1. CASE Reject(w)
        BY <1>1, <2>1 DEF Reject, GiveUp
    <2>2. CASE ~ Reject(w)
        <3>1. /\ op[w] = "create" /\ pc[w] = "check" /\ Free(w) /\ op' = op /\ Goto(w, "tell")
              /\ UNCHANGED <<evictFirst, account, overtaken>>
            BY <1>2, <2>2 DEF CreateCheck, history
        <3>2. PICK u : job' = [job EXCEPT ![w].user = u, ![w].new = job[w].new]
            BY <1>2, <2>2 DEF CreateCheck, Draw
        <3>3. job'[w].new = job[w].new /\ job'[w].old = job[w].old
            BY <3>2 DEF TypeInv, TypeOK, Job
        <3>4. pc'[w] = "tell"
            BY <3>1 DEF Goto, TypeInv, TypeOK
        <3> QED
            BY <3>1, <3>3, <3>4, SureFree
    <2> QED
        BY <2>1, <2>2
<1>3. ASSUME UpdateCheck(w) PROVE Sound(w)'
    <2>1. CASE Reject(w)
        BY <1>1, <2>1 DEF Reject, GiveUp
    <2>2. CASE ~ Reject(w)
        <3>1. /\ op[w] = "update" /\ pc[w] = "check" /\ Free(w) /\ UNCHANGED <<op, job>>
              /\ Goto(w, "tell") /\ UNCHANGED <<evictFirst, account, overtaken>>
            BY <1>3, <2>2 DEF UpdateCheck, rows, history
        <3>2. pc'[w] = "tell"
            BY <3>1 DEF Goto, TypeInv, TypeOK
        <3> QED
            BY <3>1, <3>2, SureFree
    <2> QED
        BY <2>1, <2>2
<1>4. ASSUME DeleteCheck(w) PROVE Sound(w)'
    <2>1. CASE Reject(w)
        BY <1>1, <2>1 DEF Reject, GiveUp
    <2>2. CASE ~ Reject(w)
        <3>1. /\ op[w] = "delete" /\ pc[w] = "check" /\ UNCHANGED <<op, job>>
              /\ Goto(w, "tell") /\ UNCHANGED <<evictFirst, account, overtaken>>
            BY <1>4, <2>2 DEF DeleteCheck, rows, history
        <3>2. pc'[w] = "tell"
            BY <3>1 DEF Goto, TypeInv, TypeOK
        <3> QED
            BY <3>1, <3>2, SureMoved DEF Checked, Unwritten, Inserting
    <2> QED
        BY <2>1, <2>2
<1>5. ASSUME Tell(w) PROVE Sound(w)'
    <2>1. /\ pc[w] = "tell" /\ UNCHANGED <<op, job, evictFirst, account, overtaken>>
          /\ Goto(w, AfterTell(w))
        BY <1>5 DEF Tell, rows
    <2>2. pc'[w] = AfterTell(w)
        BY <2>1 DEF Goto, TypeInv, TypeOK
    <2>3. op[w] \in {"create", "update", "delete"}
        BY <2>1, PointLemma
    <2> QED
        BY <2>1, <2>2, <2>3, SureMoved DEF AfterTell, Checked, Unwritten, Inserting
<1>6. ASSUME Evict(w) PROVE Sound(w)'
    <2>1. CASE evictFirst
        <3>1. /\ pc[w] = "evict" /\ UNCHANGED <<op, job, evictFirst, account, overtaken>>
              /\ Goto(w, "commit")
            BY <1>6, <2>1 DEF Evict, rows, history
        <3>2. pc'[w] = "commit" /\ op[w] \in {"update", "delete"}
            BY <3>1, PointLemma DEF Goto, TypeInv, TypeOK
        <3> QED
            BY <2>1, <3>1, <3>2, SureMoved DEF Checked, Unwritten, Inserting
    <2>2. CASE ~ evictFirst
        BY <1>1, <1>6, <2>2 DEF Evict
    <2> QED
        BY <2>1, <2>2
<1>7. ASSUME Commit(w), ~ Finish(w) PROVE Sound(w)'
    <2>1. /\ op[w] # "create" /\ ~ evictFirst /\ evictFirst' = evictFirst
          /\ Goto(w, "evict") /\ UNCHANGED <<op, job>> /\ pc[w] = "commit"
        BY <1>7 DEF Commit, GiveUp
    <2>2. pc'[w] = "evict" /\ op'[w] = op[w] /\ job'[w] = job[w] /\ op[w] \in {"update", "delete"}
        BY <2>1, PointLemma DEF Goto, TypeInv, TypeOK
    <2>3. Named(w)
        BY DEF SureInv, NamedInv
    <2> QED
        BY <2>1, <2>2, <2>3 DEF Sound, Sure, Named, Changing, Inserting, Unwritten, Checked
<1>8. ASSUME Save(w), ~ Finish(w) PROVE Sound(w)'
    <2>1. op[w] = "social" /\ Goto(w, "link") /\ UNCHANGED <<op, job>>
        BY <1>8 DEF Save, GiveUp
    <2>2. pc'[w] = "link" /\ op'[w] = "social"
        BY <2>1 DEF Goto, TypeInv, TypeOK
    <2> QED
        BY <2>2 DEF Sound, Sure, Named, Changing, Inserting, Checked
<1>9. ASSUME ReadAll(w) PROVE Sound(w)'
    <2>1. op'[w] = "findAll"
        BY <1>9, PointLemma DEF ReadAll
    <2> QED
        BY <2>1, SureIdle
<1>10. ASSUME Link(w) \/ PutCache(w) PROVE Sound(w)'
    BY <1>1, <1>10 DEF Link, PutCache
<1> QED
    BY <1>1, <1>2, <1>3, <1>4, <1>5, <1>6, <1>7, <1>8, <1>9, <1>10, SureSocial DEF Step

LEMMA SureNext ==
    ASSUME TypeInv, SureInv, [Next]_vars
    PROVE  SureInv'
<1>0. UniqueInv'
    BY UniqueStep DEF SureInv
<1>1. CASE NoStep
    <2>1. Live' = Live
        BY <1>1 DEF NoStep, Live
    <2>2. \A w \in Worker : (Sure(w)' <=> Sure(w)) /\ (Named(w)' <=> Named(w))
        BY <1>1, SureKept DEF NoStep
    <2> QED
        BY <1>0, <1>1, <2>1, <2>2 DEF NoStep, SureInv, NamedInv
<1>2. ASSUME NEW w \in Worker, Quiet(w) \/ Written(w), Sound(w)' PROVE SureInv'
    <2>1. Only(w) /\ evictFirst' = evictFirst
        BY <1>2 DEF Quiet, Written
    <2>2. ASSUME NEW v \in Worker \ {w} PROVE Named(v)'
        <3>1. Named(v) /\ pc'[v] = pc[v] /\ op'[v] = op[v] /\ job'[v] = job[v]
            BY <2>1 DEF SureInv, NamedInv, Only
        <3> QED
            BY <3>1 DEF Named, Changing, Inserting
    <2>3. ASSUME NEW v \in Worker \ {w}, v \notin overtaken' PROVE Sure(v)'
        <3>1. pc'[v] = pc[v] /\ op'[v] = op[v] /\ job'[v] = job[v]
            BY <2>1 DEF Only
        <3>2. CASE Quiet(w)
            <4>1. v \notin overtaken /\ account' = account
                BY <2>3, <3>2 DEF Quiet
            <4> QED
                BY <2>1, <3>1, <4>1, SureKept DEF SureInv
        <3>3. CASE Written(w)
            <4>1. /\ job[w].user \in User /\ Result(w) \in Row
                  /\ account' = [account EXCEPT ![job[w].user] = Result(w)]
                BY <3>3, RowWritten
            <4>2. Pending(v) => v \notin overtaken /\ ~ InTheWay(v, job[w].user, Result(w))
                BY <2>3, <3>3 DEF Written, Write
            <4>3. CASE Pending(v)
                <5>1. Sure(v)
                    BY <4>2, <4>3 DEF SureInv
                <5>2. ~ InTheWay(v, job[w].user, Result(w))
                    BY <4>2, <4>3
                <5> QED
                    BY <2>1, <3>1, <4>1, <5>1, <5>2, SureLemma
            <4>4. CASE ~ Pending(v)
                BY <2>1, <3>1, <4>4 DEF Sure, Pending, Changing, Unwritten, Checked
            <4> QED
                BY <4>3, <4>4
        <3> QED
            BY <1>2, <3>2, <3>3
    <2>4. \A v \in Live' : account'[v].name \in Username \cup {v}
        <3>1. CASE Quiet(w)
            BY <3>1 DEF Quiet, Live, SureInv, NamedInv
        <3>2. CASE Written(w)
            <4>1. /\ account' = [account EXCEPT ![job[w].user] = Result(w)]
                  /\ Result(w) # NoAccount => op[w] # "delete"
                BY <3>2, RowWritten
            <4>2. op[w] # "delete" => Result(w).name \in Username \cup {job[w].user}
                BY <3>2, NamedResult DEF Written, SureInv
            <4> QED
                BY <4>1, <4>2 DEF Live, SureInv, NamedInv, TypeInv, TypeOK
        <3> QED
            BY <1>2, <3>1, <3>2
    <2> QED
        BY <1>0, <1>2, <2>2, <2>3, <2>4 DEF SureInv, NamedInv, Sound
<1>3. ASSUME NEW w \in Worker, Start(w) PROVE SureInv'
    BY <1>2, <1>3, QuietStart, SureStart
<1>4. ASSUME NEW w \in Worker, Step(w) PROVE SureInv'
    BY <1>2, <1>4, StepCases, SureStep
<1>5. ASSUME NEW w \in Worker, Crash(w) PROVE SureInv'
    <2>1. Quiet(w)
        BY <1>5, QuietEnd DEF Crash, GiveUp, rows
    <2>2. op'[w] = "none"
        BY <1>5, FinishLemma DEF Crash, GiveUp, TypeInv
    <2> QED
        BY <1>2, <2>1, <2>2, SureIdle
<1>6. CASE Expire \/ UNCHANGED vars
    BY <1>1, <1>6 DEF Expire, NoStep, vars, rows, threads, history, outcome
<1> QED
    BY <1>3, <1>4, <1>5, <1>6 DEF Next

\* The row of w can be written.
LEMMA SureResult ==
    ASSUME TypeInv, SureInv, NEW w \in Worker \ overtaken, pc[w] \in {"commit", "save"},
           op[w] \notin {"admin", "delete"}
    PROVE  Fits(job[w].user, Result(w))
<1>1. /\ Sure(w) /\ LocalInv(w) /\ Unwritten(w)
      /\ op[w] \in {"create", "update", "role", "social"}
    BY PointLemma DEF SureInv, TypeInv, Unwritten
<1>2. CASE op[w] \in {"create", "social"}
    <2>1. Result(w) = job[w].new
        BY <1>2 DEF Result
    <2>2. Checked(w)
        BY <1>1, <1>2 DEF Checked, LocalInv, PointOf
    <2> QED
        BY <1>1, <2>1, <2>2 DEF Sure
<1>3. ASSUME Changing(w) PROVE Fits(job[w].user, job[w].old)
    <2>1. job[w].old = account[job[w].user] /\ job[w].old \in Account /\ job[w].user \in User
        BY <1>1, <1>3 DEF Sure, LocalInv, TypeInv, TypeOK
    <2>2. job[w].user \in Live
        BY <2>1, RowTypes DEF Live
    <2> QED
        BY <2>1, <2>2 DEF SureInv, UniqueInv, Fits
<1>4. CASE op[w] = "update"
    <2>1. Checked(w) /\ Changing(w)
        BY <1>1, <1>4 DEF Checked, Changing, LocalInv, PointOf
    <2>2. Fits(job[w].user, job[w].old) /\ Fits(job[w].user, job[w].new)
        BY <1>1, <1>3, <2>1 DEF Sure
    <2>3. /\ Result(w).name = job[w].new.name
          /\ Result(w).email \in {job[w].old.email, job[w].new.email}
        BY <1>4 DEF Result
    <2> QED
        BY <2>2, <2>3 DEF Fits
<1>5. CASE op[w] = "role"
    <2>1. Fits(job[w].user, job[w].old) /\ job[w].old \in Account
        BY <1>1, <1>3, <1>5 DEF Changing, LocalInv
    <2>2. Result(w) = [job[w].old EXCEPT !.role = job[w].new.role]
        BY <1>5 DEF Result
    <2>3. Result(w).name = job[w].old.name /\ Result(w).email = job[w].old.email
        BY <2>1, <2>2 DEF Account
    <2> QED
        BY <2>1, <2>3 DEF Fits
<1> QED
    BY <1>1, <1>2, <1>4, <1>5

\* A request that was found allowed, and that clients were told of, is refused by the
\* table only because another one has come first since it looked: it has written the row,
\* or given the username or the e-mail to another user.
THEOREM RefusedAreOvertaken == Spec => []RefusedIsOvertaken
<1>1. Init => SureInv
    <2> SUFFICES ASSUME Init PROVE SureInv
        OBVIOUS
    <2>1. Live = {} /\ \A w \in Worker : op[w] = "none"
        BY DEF Init, Live
    <2> QED
        BY <2>1 DEF SureInv, UniqueInv, NamedInv, Named, Sure, Changing, Inserting, Checked
<1>2. TypeInv /\ SureInv /\ [Next]_vars => SureInv'
    BY SureNext
<1>3. TypeInv /\ SureInv => RefusedIsOvertaken
    <2> SUFFICES ASSUME TypeInv, SureInv, NEW w \in Worker \ overtaken,
                        pc[w] \in {"commit", "save"}, op[w] # "admin", Refused(w)
                 PROVE  FALSE
        BY DEF RefusedIsOvertaken
    <2>1. CASE Changing(w) /\ job[w].user \notin Live
        <3>1. account[job[w].user] = job[w].old
            BY <2>1 DEF SureInv, Sure, Unwritten
        <3>2. job[w].old \in Account /\ job[w].user \in User
            BY <2>1 DEF TypeInv, TypeOK, LocalInv
        <3> QED
            BY <2>1, <3>1, <3>2, RowTypes DEF Live
    <2>2. CASE Result(w) # NoAccount /\ ~ Fits(job[w].user, Result(w))
        <3>1. op[w] # "delete"
            BY <2>2 DEF Result
        <3> QED
            BY <2>2, <3>1, SureResult
    <2> QED
        BY <2>1, <2>2 DEF Refused, Changing
<1> QED
    BY <1>1, <1>2, <1>3, TypeInvariant, PTL DEF Spec

-----------------------------------------------------------------------------
(* What is stored.                                                         *)

LEMMA LoadedStep ==
    ASSUME TypeInv, LoadedInv, [Next]_vars
    PROVE  LoadedInv'
<1>1. CASE NoStep
    BY <1>1 DEF NoStep, LoadedInv, Changing
<1>2. ASSUME NEW w \in Worker, Quiet(w) PROVE LoadedInv'
    <2>1. SUFFICES ASSUME NEW v \in Worker, Changing(v)', job'[v].user \notin overlapped,
                          pc'[v] = "evict" => evictFirst
                   PROVE  job'[v].old = account[job'[v].user]
        BY <1>2 DEF LoadedInv, Quiet
    <2>2. CASE v # w
        BY <1>2, <2>1, <2>2 DEF Quiet, Only, LoadedInv, Changing
    <2>3. CASE v = w
        BY <1>2, <2>1, <2>3 DEF Quiet, LoadedInv
    <2> QED
        BY <2>2, <2>3
<1>3. ASSUME NEW w \in Worker, Written(w) PROVE LoadedInv'
    <2>1. SUFFICES ASSUME NEW v \in Worker, Changing(v)', job'[v].user \notin overlapped',
                          pc'[v] = "evict" => evictFirst
                   PROVE  job'[v].old = account'[job'[v].user]
        BY <1>3 DEF LoadedInv, Written
    <2>2. v # w
        BY <1>3, <2>1 DEF Written, Changing
    <2>3. Changing(v) /\ job'[v] = job[v] /\ pc'[v] = pc[v]
        BY <1>3, <2>1, <2>2 DEF Written, Only, Changing
    <2>4. job[v].user \notin overlapped /\ job[v].user # job[w].user
        BY <1>3, <2>1, <2>2, <2>3 DEF Written, Write, Writers, Changing
    <2>5. job[v].user \in User
        BY <2>3 DEF TypeInv, LocalInv, TypeOK
    <2>6. account'[job[v].user] = account[job[v].user]
        BY <1>3, <2>4, <2>5, RowWritten DEF TypeInv, TypeOK
    <2> QED
        BY <2>1, <2>3, <2>4, <2>6 DEF LoadedInv
<1> QED
    BY <1>1, <1>2, <1>3, NextCases

LEMMA StoredStep ==
    ASSUME TypeInv, LoadedInv, AcknowledgedIsStored, [Next]_vars
    PROVE  AcknowledgedIsStored'
<1>1. ASSUME UNCHANGED <<account, intent, overlapped>> PROVE AcknowledgedIsStored'
    BY <1>1 DEF AcknowledgedIsStored
<1>2. ASSUME NEW w \in Worker, Written(w) PROVE AcknowledgedIsStored'
    <2> DEFINE u == job[w].user
    <2>1. /\ account' = [account EXCEPT ![u] = Result(w)] /\ intent' = [intent EXCEPT ![u] = Intended(w)]
          /\ overlapped \subseteq overlapped' /\ u \in User
        BY <1>2, RowWritten DEF Written, Write
    <2>2. ASSUME u \notin overlapped PROVE Result(w) = Intended(w)
        <3>1. account[u] = intent[u]
            BY <2>1, <2>2 DEF AcknowledgedIsStored
        <3>2. Changing(w) => job[w].old = account[u]
            BY <1>2, <2>2 DEF LoadedInv, Written
        <3> QED
            BY <3>1, <3>2 DEF Result, Intended, Changing
    <2>3. SUFFICES ASSUME NEW a \in User, a \notin overlapped' PROVE account'[a] = intent'[a]
        BY DEF AcknowledgedIsStored
    <2>4. CASE a = u
        BY <2>1, <2>2, <2>3, <2>4 DEF TypeInv, TypeOK
    <2>5. CASE a # u
        BY <2>1, <2>3, <2>5 DEF AcknowledgedIsStored, TypeInv, TypeOK
    <2> QED
        BY <2>4, <2>5
<1> QED
    BY <1>1, <1>2, NextCases DEF NoStep, Quiet

\* What a request that succeeded has asked for is stored, unless two requests changed
\* the user at the same time: the one way to lose a change is a row that is written back
\* as it was loaded.
THEOREM ChangesAreStored == Spec => []AcknowledgedIsStored
<1>1. Init => LoadedInv /\ AcknowledgedIsStored
    BY DEF Init, LoadedInv, AcknowledgedIsStored, Changing
<1>2. TypeInv /\ LoadedInv /\ AcknowledgedIsStored /\ [Next]_vars
          => LoadedInv' /\ AcknowledgedIsStored'
    BY LoadedStep, StoredStep
<1> QED
    BY <1>1, <1>2, TypeInvariant, PTL DEF Spec

-----------------------------------------------------------------------------
(* Identities.                                                             *)

LEMMA LinkCases ==
    ASSUME TypeInv, [Next]_vars
    PROVE  \/ UNCHANGED <<account, link>>
           \/ \E w \in Worker : Link(w)
           \/ \E w \in Worker : (Changing(w) \/ Inserting(w)) /\ Write(w)
<1> DEFINE Same == UNCHANGED <<account, link>>
           Writes(w) == (Changing(w) \/ Inserting(w)) /\ Write(w)
<1>1. ASSUME NEW w \in Worker, Start(w) PROVE Same
    BY <1>1 DEF Start, StartCreate, StartUpdate, StartDelete, StartRole, StartSocial,
                StartInstance, MissCache, rows
<1>2. ASSUME NEW w \in Worker, Step(w) PROVE Same \/ Link(w) \/ Writes(w)
    <2>1. CASE Commit(w) \/ Save(w)
        <3>1. pc[w] \in {"commit", "save"}
            BY <2>1 DEF Commit, Save
        <3>2. Changing(w) \/ Inserting(w)
            BY <3>1, PointLemma
        <3>3. Write(w) \/ Same
            BY <2>1 DEF Commit, Save
        <3> QED
            BY <3>2, <3>3
    <2>2. CASE CreateCheck(w) \/ UpdateCheck(w) \/ DeleteCheck(w)
        BY <2>2 DEF CreateCheck, UpdateCheck, DeleteCheck, Reject, rows
    <2>3. CASE Tell(w) \/ Evict(w) \/ FindByEmail(w) \/ ChooseName(w) \/ ReadAll(w) \/ PutCache(w)
        BY <2>3 DEF Tell, Evict, FindByEmail, ChooseName, ReadAll, PutCache, rows
    <2> QED
        BY <1>2, <2>1, <2>2, <2>3 DEF Step
<1>3. ASSUME NEW w \in Worker, Crash(w) PROVE Same
    BY <1>3 DEF Crash, rows
<1>4. CASE Expire \/ UNCHANGED vars
    BY <1>4 DEF Expire, vars, rows
<1> QED
    BY <1>1, <1>2, <1>3, <1>4 DEF Next

LEMMA LinkedStep ==
    ASSUME TypeInv, LinkedIsLive, [Next]_vars
    PROVE  LinkedIsLive'
<1>1. CASE UNCHANGED <<account, link>>
    BY <1>1 DEF LinkedIsLive, Live
<1>2. ASSUME NEW w \in Worker, Link(w) PROVE LinkedIsLive'
    <2>1. account' = account /\ (link' = link \/ (job[w].user \in Live /\ link' = [link EXCEPT ![job[w].identity] = job[w].user]))
        BY <1>2 DEF Link
    <2> QED
        BY <2>1 DEF LinkedIsLive, Live, TypeInv, TypeOK
<1>3. ASSUME NEW w \in Worker, Changing(w) \/ Inserting(w), Write(w) PROVE LinkedIsLive'
    <2> DEFINE u == job[w].user
               row == Result(w)
    <2>1. u \in User /\ account' = [account EXCEPT ![u] = row]
        BY <1>3, WriteLemma
    <2>2. link' = [s \in Identity |-> IF link[s] = u /\ row = NoAccount THEN NoUser ELSE link[s]]
        BY <1>3 DEF Write, LinksAfter
    <2> HIDE DEF row
    <2>3. SUFFICES ASSUME NEW s \in Identity, link'[s] # NoUser PROVE link'[s] \in Live'
        BY DEF LinkedIsLive
    <2>4. link'[s] = link[s] /\ link[s] \in Live /\ ~ (link[s] = u /\ row = NoAccount)
        BY <2>2, <2>3 DEF LinkedIsLive
    <2> QED
        BY <2>1, <2>4 DEF Live, TypeInv, TypeOK
<1> QED
    BY <1>1, <1>2, <1>3, LinkCases

\* No identity is linked to an account that has been deleted, even when the deletion
\* falls between a login's two transactions.
THEOREM LinksAreLive == Spec => []LinkedIsLive
<1>1. Init => LinkedIsLive
    BY DEF Init, LinkedIsLive
<1>2. TypeInv /\ LinkedIsLive /\ [Next]_vars => LinkedIsLive'
    BY LinkedStep
<1> QED
    BY <1>1, <1>2, TypeInvariant, PTL DEF Spec

LEMMA LastsStep ==
    ASSUME TypeInv, [Next]_vars, NEW s \in Identity, link[s] # NoUser, link'[s] # link[s]
    PROVE  link'[s] = NoUser /\ account'[link[s]] = NoAccount
<1>1. ASSUME NEW w \in Worker, Link(w) PROVE FALSE
    BY <1>1 DEF Link, TypeInv, TypeOK
<1>2. ASSUME NEW w \in Worker, Changing(w) \/ Inserting(w), Write(w)
      PROVE  link'[s] = NoUser /\ account'[link[s]] = NoAccount
    <2>1. job[w].user \in User /\ account' = [account EXCEPT ![job[w].user] = Result(w)]
        BY <1>2, WriteLemma
    <2>2. link'[s] = IF link[s] = job[w].user /\ Result(w) = NoAccount THEN NoUser ELSE link[s]
        BY <1>2 DEF Write, LinksAfter
    <2>3. link[s] = job[w].user /\ Result(w) = NoAccount /\ link'[s] = NoUser
        BY <2>2
    <2> QED
        BY <2>1, <2>3 DEF TypeInv, TypeOK
<1> QED
    BY <1>1, <1>2, LinkCases

\* An identity stays with its account until the account is deleted: a second login of
\* the identity under way does not take it.
THEOREM IdentitiesStay == Spec => LinkLasts
<1>1. TypeInv /\ [Next]_vars =>
          [\A s \in Identity :
               link[s] # NoUser /\ link'[s] # link[s] =>
                   link'[s] = NoUser /\ account'[link[s]] = NoAccount]_vars
    BY LastsStep
<1> QED
    BY <1>1, TypeInvariant, PTL DEF Spec, LinkLasts

-----------------------------------------------------------------------------
(* The cached list.                                                        *)

EvictionDue(w) == pc[w] = "evict" /\ ~ evictFirst

\* The list and the table stay as they are, and so does what excuses a difference.
SameList ==
    /\ UNCHANGED <<evictFirst, account, cached, list>>
    /\ unevicted => unevicted'
    /\ \A w \in Worker : EvictionDue(w) => EvictionDue(w)' \/ unevicted'

LEMMA ListCases ==
    ASSUME TypeInv, [Next]_vars
    PROVE  \/ SameList
           \/ ~ cached'
           \/ unevicted' = (list' # account')
           \/ unevicted' \/ \E w \in Worker : EvictionDue(w)'
<1>1. ASSUME NEW w \in Worker, Start(w) PROVE SameList \/ ~ cached'
    <2>1. CASE \E n \in Username, e \in Email : StartCreate(w, n, e)
        BY <2>1 DEF StartCreate, ClearCache
    <2>2. CASE /\ UNCHANGED <<evictFirst, rows, cache>> /\ pc[w] = "idle"
               /\ \E p : pc' = [pc EXCEPT ![w] = p]
        BY <2>2 DEF SameList, EvictionDue, rows, cache, TypeInv, TypeOK
    <2>3. CASE StartInstance(w)
        <3>1. UNCHANGED <<evictFirst, account, cache>>
            BY <2>3 DEF StartInstance
        <3>2. pc' = pc \/ (pc[w] = "idle" /\ pc' = [pc EXCEPT ![w] = "save"])
            BY <2>3 DEF StartInstance, Begin, Goto, threads
        <3> QED
            BY <3>1, <3>2 DEF SameList, EvictionDue, cache, TypeInv, TypeOK
    <2> QED
        BY <1>1, <2>1, <2>2, <2>3 DEF Start, StartUpdate, StartDelete, StartRole, StartSocial,
                                     MissCache, Begin, Goto
<1>2. ASSUME NEW w \in Worker, NEW p, pc[w] # "evict", Goto(w, p), UNCHANGED <<evictFirst, account, cache>>
      PROVE  SameList
    BY <1>2 DEF SameList, EvictionDue, Goto, cache, TypeInv, TypeOK
<1>3. ASSUME NEW w \in Worker, CreateCheck(w) \/ UpdateCheck(w) \/ DeleteCheck(w)
      PROVE  SameList
    <2>1. pc[w] = "check" /\ UNCHANGED <<evictFirst, account, cache>> /\ (Goto(w, "tell") \/ Goto(w, "idle"))
        BY <1>3 DEF CreateCheck, UpdateCheck, DeleteCheck, Reject, GiveUp, Finish, rows
    <2> QED
        BY <1>2, <2>1
<1>4. ASSUME NEW w \in Worker, Tell(w) \/ FindByEmail(w) \/ ChooseName(w) \/ Link(w) \/ ReadAll(w)
      PROVE  SameList
    <2>1. pc[w] # "evict" /\ UNCHANGED <<evictFirst, account, cache>>
        BY <1>4 DEF Tell, FindByEmail, ChooseName, Link, ReadAll, rows
    <2>2. \E p : Goto(w, p)
        BY <1>4 DEF Tell, FindByEmail, ChooseName, Link, ReadAll, Finish
    <2> QED
        BY <1>2, <2>1, <2>2
<1>5. ASSUME NEW w \in Worker, Evict(w) PROVE ~ cached'
    BY <1>5 DEF Evict, ClearCache
<1>6. ASSUME NEW w \in Worker, Commit(w) PROVE SameList \/ unevicted' \/ EvictionDue(w)'
    <2>1. CASE Finish(w) /\ UNCHANGED <<account, unevicted>>
        BY <1>2, <1>6, <2>1 DEF Commit, Finish, cache
    <2>2. CASE ~ evictFirst /\ Goto(w, "evict")
        BY <1>6, <2>2 DEF Commit, EvictionDue, Goto, TypeInv, TypeOK
    <2> QED
        BY <1>6, <2>1, <2>2 DEF Commit, GiveUp
<1>7. ASSUME NEW w \in Worker, Save(w) PROVE SameList \/ unevicted'
    <2>1. CASE Finish(w) /\ UNCHANGED <<account, unevicted>>
        BY <1>2, <1>7, <2>1 DEF Save, Finish, cache
    <2> QED
        BY <1>7, <2>1 DEF Save, GiveUp
<1>8. ASSUME NEW w \in Worker, PutCache(w) PROVE unevicted' = (list' # account')
    BY <1>8 DEF PutCache, rows
<1>9. ASSUME NEW w \in Worker, Crash(w) PROVE SameList
    BY <1>9 DEF Crash, GiveUp, Finish, Goto, SameList, EvictionDue, rows, TypeInv, TypeOK
<1>10. CASE Expire
    BY <1>10 DEF Expire, ClearCache
<1>11. CASE UNCHANGED vars
    BY <1>11 DEF vars, rows, cache, threads, SameList, EvictionDue
<1> QED
    BY <1>1, <1>3, <1>4, <1>5, <1>6, <1>7, <1>8, <1>9, <1>10, <1>11 DEF Next, Step

\* Whenever the cached list differs from the table, a change has left it behind that
\* clears the cache too early or not at all, or a reader has put back an old list.
THEOREM StaleListsAreExplained == Spec => []StaleIsExplained
<1>1. Init => StaleIsExplained
    BY DEF Init, StaleIsExplained
<1>2. TypeInv /\ StaleIsExplained /\ [Next]_vars => StaleIsExplained'
    <2> SUFFICES ASSUME TypeInv, StaleIsExplained, [Next]_vars PROVE StaleIsExplained'
        OBVIOUS
    <2>1. CASE SameList
        BY <2>1 DEF SameList, EvictionDue, StaleIsExplained
    <2>2. CASE ~ cached'
        BY <2>2 DEF StaleIsExplained
    <2>3. CASE unevicted' = (list' # account')
        BY <2>3 DEF StaleIsExplained
    <2>4. CASE unevicted' \/ \E w \in Worker : EvictionDue(w)'
        BY <2>4 DEF EvictionDue, StaleIsExplained
    <2> QED
        BY <2>1, <2>2, <2>3, <2>4, ListCases
<1> QED
    BY <1>1, <1>2, TypeInvariant, PTL DEF Spec

-----------------------------------------------------------------------------
(* Administrators.                                                         *)

LEMMA AdminStep ==
    ASSUME TypeInv, AdminInv, [Next]_vars
    PROVE  AdminInv'
<1>1. CASE NoStep
    BY <1>1 DEF NoStep, AdminInv, Founder, NoAdminYet, Writers
<1>2. CASE dismissed
    <2>1. dismissed'
        BY <1>2, NextCases DEF NoStep, Quiet, Written, Write
    <2> QED
        BY <2>1 DEF AdminInv
<1>3. ASSUME NEW w \in Worker, Quiet(w), NEW a \in User, Founder(a) PROVE AdminInv'
    <2>1. account' = account
        BY <1>3 DEF Quiet
    <2>2. ASSUME NEW v \in Worker, v \in Writers(a)' PROVE job'[v].old.role = "ADMIN"
        <3>1. CASE v # w
            BY <1>3, <2>2, <3>1 DEF Founder, Quiet, Only, Writers
        <3>2. CASE v = w
            BY <1>3, <2>2, <3>2 DEF Founder, Quiet, Writers, Changing
        <3> QED
            BY <3>1, <3>2
    <2>3. \A v \in Writers(a)' : job'[v].old.role = "ADMIN"
        BY <2>2 DEF Writers
    <2> QED
        BY <1>3, <2>1, <2>3 DEF Founder, AdminInv
<1>4. ASSUME NEW w \in Worker, Quiet(w), NoAdminYet PROVE AdminInv'
    <2>1. account' = account /\ ~ AdminExists
        BY <1>4 DEF Quiet, NoAdminYet, AdminExists, Live
    <2>2. ~ started' /\ op'[w] # "role"
        BY <1>4, <2>1 DEF Quiet, NoAdminYet, Changing
    <2>3. job'[w].old.role = "USER"
        BY <1>4, <2>1 DEF Quiet, NoAdminYet, NoAccount, Live
    <2>4. \A v \in Worker : op'[v] # "role" /\ job'[v].old.role = "USER"
        BY <1>4, <2>2, <2>3 DEF Quiet, Only, NoAdminYet
    <2> QED
        BY <1>4, <2>1, <2>2, <2>4 DEF NoAdminYet, AdminInv
<1>5. ASSUME NEW w \in Worker, Written(w), NEW a \in User, Founder(a) PROVE AdminInv'
    <2> DEFINE u == job[w].user
    <2>1. /\ u \in User /\ account' = [account EXCEPT ![u] = Result(w)]
          /\ (account[u] = NoAccount <=> Inserting(w)) /\ (Changing(w) \/ Inserting(w))
        BY <1>5, RowWritten DEF Written
    <2>2. account[a] # NoAccount
        BY <1>5 DEF Founder, NoAccount
    <2>3. ASSUME NEW v \in Worker, v \in Writers(a)' PROVE job'[v].old.role = "ADMIN"
        <3>1. CASE v # w
            BY <1>5, <2>3, <3>1 DEF Founder, Written, Only, Writers
        <3>2. CASE v = w
            BY <1>5, <2>3, <3>2 DEF Founder, Written, Writers, Changing
        <3> QED
            BY <3>1, <3>2
    <2>4. (\A v \in Writers(a)' : job'[v].old.role = "ADMIN")
        BY <2>3 DEF Writers
    <2>5. CASE a # u
        BY <1>5, <2>1, <2>4, <2>5 DEF Founder, AdminInv, TypeInv, TypeOK
    <2>6. CASE a = u
        <3>1. Changing(w) /\ job[w].old.role = "ADMIN" /\ account[u].role = "ADMIN"
            BY <1>5, <2>1, <2>2, <2>6 DEF Founder, Writers, Changing
        <3>2. CASE op[w] = "update"
            <4>1. Result(w).role = "ADMIN"
                BY <3>1, <3>2 DEF Result
            <4> QED
                BY <2>1, <2>4, <2>6, <4>1 DEF Founder, AdminInv, TypeInv, TypeOK
        <3>3. CASE op[w] \in {"role", "delete"}
            <4>1. CASE Result(w).role = "ADMIN"
                BY <2>1, <2>4, <2>6, <4>1 DEF Founder, AdminInv, TypeInv, TypeOK
            <4>2. CASE Result(w).role # "ADMIN"
                BY <1>5, <3>1, <3>3, <4>2 DEF Written, Write, AdminInv
            <4> QED
                BY <4>1, <4>2
        <3> QED
            BY <3>1, <3>2, <3>3 DEF Changing
    <2> QED
        BY <2>5, <2>6
<1>6. ASSUME NEW w \in Worker, Written(w), NoAdminYet PROVE AdminInv'
    <2>1. PICK u \in User : u = job[w].user
        BY <1>6, RowWritten
    <2>a. /\ account' = [account EXCEPT ![u] = Result(w)]
          /\ (Changing(w) \/ Inserting(w)) /\ LocalInv(w)
        BY <1>6, <2>1, RowWritten DEF Written, TypeInv
    <2>2. CASE op[w] = "admin"
        <3>1. Inserting(w) /\ op'[w] = "none" /\ job'[w] = NoJob
            BY <1>6, <2>1, <2>a, <2>2 DEF Written, Changing, LocalInv, PointOf
        <3>2. Writers(u)' = {}
            <4>1. ASSUME NEW v \in Worker, v \in Writers(u)' PROVE FALSE
                <5>1. v # w
                    BY <3>1, <4>1 DEF Writers
                <5>2. job[v].user = u
                    BY <1>6, <4>1, <5>1 DEF Written, Only, Writers
                <5> QED
                    BY <2>1, <3>1, <5>1, <5>2 DEF TypeInv, DrawnInv
            <4> QED
                BY <4>1 DEF Writers
        <3>3. Result(w).role = "ADMIN"
            BY <2>1, <2>a, <2>2 DEF Result, LocalInv, Inserting
        <3> QED
            BY <2>1, <2>a, <3>2, <3>3 DEF Founder, AdminInv, TypeInv, TypeOK
    <2>3. CASE op[w] # "admin"
        <3>1. op[w] # "role" /\ job[w].old.role = "USER"
            BY <1>6 DEF NoAdminYet
        <3>2. Result(w).role = "USER"
            BY <2>1, <2>a, <2>3, <3>1 DEF Result, LocalInv, Inserting, Changing, NoAccount
        <3>3. \A v \in User : account'[v].role = "USER"
            BY <1>6, <2>1, <2>a, <3>2 DEF NoAdminYet, TypeInv, TypeOK
        <3>4. op'[w] # "role" /\ job'[w].old.role = "USER"
            BY <1>6, <3>1 DEF Written, NoJob, NoAccount
        <3>5. \A v \in Worker : op'[v] # "role" /\ job'[v].old.role = "USER"
            BY <1>6, <3>4 DEF Written, Only, NoAdminYet
        <3>6. ~ started'
            BY <1>6, <2>3 DEF Written, NoAdminYet
        <3> QED
            BY <3>3, <3>5, <3>6 DEF NoAdminYet, AdminInv
    <2> QED
        BY <2>2, <2>3
<1> QED
    BY <1>1, <1>2, <1>3, <1>4, <1>5, <1>6, NextCases DEF AdminInv

\* An instance that has come up has an administrator, however many came up at once,
\* until one is dismissed or deleted: neither a profile update that writes the role
\* back as it was loaded nor a deletion by another request undoes that unseen.
THEOREM InstancesHaveAdmin == Spec => []StartedHasAdmin
<1>1. Init => AdminInv
    BY DEF Init, AdminInv, NoAdminYet, NoJob, NoAccount
<1>2. TypeInv /\ AdminInv /\ [Next]_vars => AdminInv'
    BY AdminStep
<1>3. TypeInv /\ AdminInv => StartedHasAdmin
    BY DEF AdminInv, NoAdminYet, Founder, StartedHasAdmin, Live, NoAccount
<1> QED
    BY <1>1, <1>2, <1>3, TypeInvariant, PTL DEF Spec

-----------------------------------------------------------------------------
(* The clients.                                                            *)

\* A thread that has told the clients of a row it is to write.
Told(w) == pc[w] = "commit" \/ (pc[w] = "evict" /\ evictFirst)

\* Who has told what of a user, the table and the clients' view stay as they are; the
\* excuses only grow.
SameView ==
    /\ UNCHANGED <<account, shown>>
    /\ overlapped \subseteq overlapped' /\ misled \subseteq misled'
    /\ \A v \in Worker : /\ Told(v)' <=> Told(v)
                         /\ Told(v) => job'[v].user = job[v].user /\ Result(v)' = Result(v)

\* A thread tells the clients, or fails to.
TellStep(w) ==
    /\ pc[w] = "tell" /\ UNCHANGED <<account, evictFirst, op, job, overlapped>>
    /\ Only(w) /\ Told(w)'
    /\ \/ shown' = [shown EXCEPT ![job[w].user] = Result(w)] /\ misled' = misled
       \/ shown' = shown /\ misled' = misled \cup {job[w].user}

\* One that has told them writes its row, or does not.
EndStep(w) ==
    /\ Told(w) /\ Only(w) /\ ~ Told(w)' /\ UNCHANGED <<evictFirst, shown>>
    /\ overlapped \subseteq overlapped' /\ misled \subseteq misled'
    /\ \/ Write(w)
       \/ account' = account /\ job[w].user \in misled'

\* One writes that has told nobody.
UntoldStep(w) ==
    /\ ~ Told(w) /\ Only(w) /\ ~ Told(w)' /\ UNCHANGED <<evictFirst, shown>>
    /\ overlapped \subseteq overlapped' /\ misled \subseteq misled'
    /\ job[w].user \in misled'
    /\ \/ Write(w) /\ (Changing(w) \/ Inserting(w))
       \/ account' = account

LEMMA SameViewLemma ==
    ASSUME TypeInv, NEW w \in Worker, Only(w), UNCHANGED <<evictFirst, account, shown>>,
           overlapped \subseteq overlapped', misled \subseteq misled', ~ Told(w), ~ Told(w)'
    PROVE  SameView
<1>1. SUFFICES ASSUME NEW v \in Worker
               PROVE  /\ Told(v)' <=> Told(v)
                      /\ Told(v) => job'[v].user = job[v].user /\ Result(v)' = Result(v)
    BY DEF SameView
<1>2. CASE v = w
    BY <1>2
<1>3. CASE v # w
    BY <1>3 DEF Only, Told, Result
<1> QED
    BY <1>2, <1>3

LEMMA ViewCases ==
    ASSUME TypeInv, [Next]_vars
    PROVE  SameView \/ \E w \in Worker : TellStep(w) \/ EndStep(w) \/ UntoldStep(w)
<1>1. ASSUME NEW w \in Worker, Start(w) PROVE SameView
    <2>1. UNCHANGED <<evictFirst, account, shown, overlapped, misled>>
        BY <1>1 DEF Start, StartCreate, StartUpdate, StartDelete, StartRole, StartSocial,
                    StartInstance, MissCache, rows, history, outcome
    <2>2. Only(w)
        BY <1>1, QuietStart DEF Quiet
    <2>3. UNCHANGED <<pc, op, job>> \/ (pc[w] = "idle" /\ \E p \in {"check", "save", "email", "read"} : pc' = [pc EXCEPT ![w] = p])
        BY <1>1 DEF Start, StartCreate, StartUpdate, StartDelete, StartRole, StartSocial,
                    StartInstance, MissCache, Begin, Goto, threads
    <2>4. CASE UNCHANGED <<pc, op, job>>
        BY <2>1, <2>4 DEF SameView, Told, Result
    <2>5. CASE pc[w] = "idle" /\ \E p \in {"check", "save", "email", "read"} : pc' = [pc EXCEPT ![w] = p]
        <3>1. ~ Told(w) /\ ~ Told(w)'
            BY <2>5 DEF Told, TypeInv, TypeOK
        <3> QED
            BY <2>1, <2>2, <3>1, SameViewLemma
    <2> QED
        BY <2>3, <2>4, <2>5
<1>2. ASSUME NEW w \in Worker,
             CreateCheck(w) \/ UpdateCheck(w) \/ DeleteCheck(w) \/ FindByEmail(w) \/ ChooseName(w)
                 \/ Link(w) \/ ReadAll(w) \/ PutCache(w)
      PROVE  SameView
    <2>1. UNCHANGED <<evictFirst, account, shown, overlapped, misled>>
        BY <1>2 DEF CreateCheck, UpdateCheck, DeleteCheck, Reject, FindByEmail, ChooseName, Link,
                    ReadAll, PutCache, rows, history, outcome
    <2>2. pc[w] \in {"check", "email", "name", "link", "read", "put"}
        BY <1>2 DEF CreateCheck, UpdateCheck, DeleteCheck, FindByEmail, ChooseName, Link, ReadAll, PutCache
    <2>3. \E p \in {"tell", "idle", "link", "name", "save", "put"} : pc' = [pc EXCEPT ![w] = p]
        BY <1>2 DEF CreateCheck, UpdateCheck, DeleteCheck, Reject, FindByEmail, ChooseName, Link,
                    ReadAll, PutCache, GiveUp, Finish, Goto
    <2>4. Only(w)
        <3>1. Quiet(w) \/ Written(w)
            BY <1>2, StepCases DEF Step
        <3> QED
            BY <3>1 DEF Quiet, Written
    <2>5. ~ Told(w) /\ ~ Told(w)'
        BY <2>2, <2>3 DEF Told, TypeInv, TypeOK
    <2> QED
        BY <2>1, <2>4, <2>5, SameViewLemma
<1>3. ASSUME NEW w \in Worker, Tell(w) PROVE TellStep(w)
    <2>1. Told(w)' /\ Only(w)
        BY <1>3 DEF Tell, Goto, AfterTell, Told, Only, TypeInv, TypeOK
    <2> QED
        BY <1>3, <2>1 DEF Tell, TellStep, rows
<1>4. ASSUME NEW w \in Worker, Evict(w) PROVE SameView
    <2>1. UNCHANGED <<evictFirst, account, shown, overlapped, misled>> /\ pc[w] = "evict"
        BY <1>4 DEF Evict, rows, history, outcome
    <2>2. CASE evictFirst
        BY <1>4, <2>1, <2>2 DEF Evict, Goto, SameView, Told, Result, TypeInv, TypeOK
    <2>3. CASE ~ evictFirst
        <3>1. Finish(w)
            BY <1>4, <2>3 DEF Evict
        <3>2. Only(w) /\ pc'[w] = "idle"
            BY <3>1, FinishLemma DEF TypeInv
        <3>3. ~ Told(w) /\ ~ Told(w)'
            BY <2>1, <2>3, <3>2 DEF Told
        <3> QED
            BY <2>1, <3>2, <3>3, SameViewLemma
    <2> QED
        BY <2>2, <2>3
<1>5. ASSUME NEW w \in Worker, Commit(w) PROVE EndStep(w)
    <2>1. pc[w] = "commit" /\ UNCHANGED <<evictFirst, shown>>
        BY <1>5 DEF Commit
    <2>2. Told(w) /\ Only(w) /\ ~ Told(w)'
        <3>1. CASE Finish(w)
            BY <2>1, <3>1, FinishLemma DEF Told, TypeInv
        <3>2. CASE ~ evictFirst /\ Goto(w, "evict") /\ UNCHANGED <<op, job>>
            BY <2>1, <3>2 DEF Told, Goto, Only, TypeInv, TypeOK
        <3> QED
            BY <1>5, <3>1, <3>2 DEF Commit, GiveUp
    <2> QED
        BY <1>5, <2>1, <2>2 DEF Commit, Write, EndStep
<1>6. ASSUME NEW w \in Worker, Save(w) PROVE SameView \/ UntoldStep(w)
    <2>1. pc[w] = "save" /\ UNCHANGED <<evictFirst, shown>> /\ (Changing(w) \/ Inserting(w))
        BY <1>6, PointLemma DEF Save
    <2>2. Only(w) /\ ~ Told(w) /\ ~ Told(w)'
        <3>1. CASE Finish(w)
            BY <2>1, <3>1, FinishLemma DEF Told, TypeInv
        <3>2. CASE Goto(w, "link") /\ UNCHANGED <<op, job>>
            BY <2>1, <3>2 DEF Told, Goto, Only, TypeInv, TypeOK
        <3> QED
            BY <1>6, <3>1, <3>2 DEF Save, GiveUp
    <2>3. CASE Write(w) /\ misled' = misled \cup {job[w].user}
        BY <2>1, <2>2, <2>3 DEF UntoldStep, Write
    <2>4. CASE UNCHANGED <<account, outcome>>
        BY <2>1, <2>2, <2>4, SameViewLemma DEF outcome
    <2> QED
        BY <1>6, <2>3, <2>4 DEF Save
<1>7. ASSUME NEW w \in Worker, Crash(w) PROVE SameView \/ EndStep(w)
    <2>1. /\ UNCHANGED <<evictFirst, account, shown, overlapped>> /\ misled \subseteq misled'
          /\ Told(w) => job[w].user \in misled'
        BY <1>7 DEF Crash, Told, rows
    <2>2. Only(w) /\ ~ Told(w)'
        BY <1>7, FinishLemma DEF Crash, GiveUp, Told, TypeInv
    <2>3. CASE Told(w)
        BY <2>1, <2>2, <2>3 DEF EndStep
    <2>4. CASE ~ Told(w)
        BY <2>1, <2>2, <2>4, SameViewLemma
    <2> QED
        BY <2>3, <2>4
<1>8. CASE Expire \/ UNCHANGED vars
    BY <1>8 DEF Expire, vars, rows, threads, history, outcome, SameView, Told, Result
<1> QED
    BY <1>1, <1>2, <1>3, <1>4, <1>5, <1>6, <1>7, <1>8 DEF Next, Step

\* Two threads that have told of one user both change it.
LEMMA TellersLemma ==
    ASSUME TypeInv, NEW v \in Worker, NEW w \in Worker, Told(v), Told(w), v # w,
           job[v].user = job[w].user
    PROVE  v \in Writers(job[w].user)
<1>1. Changing(v) \/ Inserting(v)
    BY PointLemma DEF Told, Changing
<1>2. ~ Inserting(v)
    BY DEF TypeInv, DrawnInv
<1> QED
    BY <1>1, <1>2 DEF Writers, Changing

LEMMA ViewStep ==
    ASSUME TypeInv, ToldInv, ViewIsTrue, [Next]_vars
    PROVE  ToldInv' /\ ViewIsTrue'
<1>1. \A u : Telling(u) = {v \in Worker : job[v].user = u /\ Told(v)}
    BY DEF Telling, Told
<1>2. \A u : Telling(u)' = {v \in Worker : job'[v].user = u /\ Told(v)'}
    BY DEF Telling, Told
<1> DEFINE Good(u) == /\ \A v \in Worker : Telling(u)' = {v} => shown'[u] = Result(v)'
                      /\ Telling(u)' = {} => shown'[u] = account'[u]
           Excused == overlapped \cup misled
<1>3. SUFFICES ASSUME NEW u \in User, u \notin Excused' PROVE Good(u)
    BY DEF ToldInv, ViewIsTrue
\* A user whom the step is not about.
<1>4. ASSUME u \notin Excused, account'[u] = account[u], shown'[u] = shown[u], Telling(u)' = Telling(u),
             \A v \in Telling(u) : Result(v)' = Result(v)
      PROVE  Good(u)
    BY <1>4 DEF ToldInv, ViewIsTrue
<1>5. ASSUME NEW w \in Worker, Only(w) PROVE \A v \in Worker \ {w} : Result(v)' = Result(v)
    BY <1>5 DEF Only, Result
<1>6. ASSUME NEW w \in Worker, Only(w), evictFirst' = evictFirst, ~ Told(w) \/ job[w].user # u,
             ~ Told(w)' \/ job'[w].user # u
      PROVE  Telling(u)' = Telling(u) /\ \A v \in Telling(u) : Result(v)' = Result(v)
    <2>1. w \notin Telling(u) /\ w \notin Telling(u)'
        BY <1>1, <1>2, <1>6
    <2>2. \A v \in Worker \ {w} : (Told(v)' <=> Told(v)) /\ job'[v] = job[v]
        BY <1>6 DEF Only, Told
    <2>3. \A v \in Worker \ {w} : v \in Telling(u)' <=> v \in Telling(u)
        BY <1>1, <1>2, <2>2
    <2>4. Telling(u)' = Telling(u)
        BY <1>1, <1>2, <2>1, <2>3
    <2>5. \A v \in Telling(u) : v \in Worker \ {w}
        BY <1>1, <2>1
    <2> QED
        BY <1>5, <1>6, <2>4, <2>5
<1>7. CASE SameView
    <2>1. Telling(u)' = Telling(u) /\ \A v \in Telling(u) : Result(v)' = Result(v)
        <3>1. \A v \in Worker : v \in Telling(u) => v \in Telling(u)'
            BY <1>1, <1>2, <1>7 DEF SameView
        <3>2. ASSUME NEW v \in Worker, v \in Telling(u)' PROVE v \in Telling(u)
            BY <1>1, <1>2, <1>7, <3>2 DEF SameView
        <3> QED
            BY <1>1, <1>2, <1>7, <3>1, <3>2 DEF SameView
    <2> QED
        BY <1>3, <1>4, <1>7, <2>1 DEF SameView
<1>8. ASSUME NEW w \in Worker, TellStep(w) PROVE Good(u)
    <2>1. /\ Only(w) /\ Told(w)' /\ ~ Told(w) /\ UNCHANGED <<account, evictFirst, op, job>>
          /\ u \notin Excused /\ shown \in [User -> Row]
        BY <1>3, <1>8 DEF TellStep, Told, TypeInv, TypeOK
    <2>2. CASE u = job[w].user
        <3>1. shown'[u] = Result(w)
            BY <1>3, <1>8, <2>1, <2>2 DEF TellStep
        <3>2. w \in Telling(u)' /\ Result(w)' = Result(w)
            BY <1>2, <2>1, <2>2 DEF Result
        <3> QED
            BY <3>1, <3>2
    <2>3. CASE u # job[w].user
        <3>1. shown'[u] = shown[u]
            BY <1>8, <2>1, <2>3 DEF TellStep
        <3> QED
            BY <1>4, <1>6, <2>1, <2>3, <3>1
    <2> QED
        BY <2>2, <2>3
<1>9. ASSUME NEW w \in Worker, EndStep(w) \/ UntoldStep(w), u # job[w].user PROVE Good(u)
    <2>1. Only(w) /\ ~ Told(w)' /\ UNCHANGED <<evictFirst, shown>> /\ u \notin Excused
        BY <1>3, <1>9 DEF EndStep, UntoldStep
    <2>2. account'[u] = account[u]
        BY <1>9 DEF EndStep, UntoldStep, Write, TypeInv, TypeOK
    <2> QED
        BY <1>4, <1>6, <1>9, <2>1, <2>2
<1>10. ASSUME NEW w \in Worker, UntoldStep(w), u = job[w].user PROVE FALSE
    BY <1>3, <1>10 DEF UntoldStep
<1>11. ASSUME NEW w \in Worker, EndStep(w), u = job[w].user PROVE Good(u)
    <2>1. /\ Told(w) /\ Only(w) /\ ~ Told(w)' /\ UNCHANGED <<evictFirst, shown>> /\ Write(w)
          /\ u \notin Excused
        BY <1>3, <1>11 DEF EndStep
    <2>2. Writers(u) \ {w} = {}
        BY <1>3, <1>11, <2>1 DEF Write
    <2>3. \A v \in Worker : v # w => ~ (Told(v) /\ job[v].user = u)
        BY <1>11, <2>1, <2>2, TellersLemma
    <2>4. Telling(u) = {w}
        BY <1>1, <1>11, <2>1, <2>3
    <2>5. shown'[u] = account'[u]
        BY <1>11, <2>1, <2>4 DEF ToldInv, Write, TypeInv, TypeOK
    <2>6. Telling(u)' = {}
        <3>1. \A v \in Worker \ {w} : (Told(v)' <=> Told(v)) /\ job'[v] = job[v]
            BY <2>1 DEF Only, Told
        <3> QED
            BY <1>2, <2>1, <2>3, <3>1
    <2> QED
        BY <2>5, <2>6
<1> QED
    BY <1>7, <1>8, <1>9, <1>10, <1>11, ViewCases

\* The clients know each user as stored, although they are told before the commit,
\* unless two requests changed the user at the same time, or one failed or told nobody.
THEOREM ClientsSeeTheTable == Spec => []ViewIsTrue
<1>1. Init => ToldInv /\ ViewIsTrue
    BY DEF Init, ToldInv, ViewIsTrue, Telling
<1>2. TypeInv /\ ToldInv /\ ViewIsTrue /\ [Next]_vars => ToldInv' /\ ViewIsTrue'
    BY ViewStep
<1> QED
    BY <1>1, <1>2, TypeInvariant, PTL DEF Spec
=============================================================================
