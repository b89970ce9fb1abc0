----------------------- MODULE BinaryContentUploadProofs -----------------------
(* Theorems of BinaryContentUpload.                                            *)
EXTENDS BinaryContentUpload, TLAPS

At(t, places) == pc[t] \in places
Working(t) == ~ At(t, {"none", "idle"})

(***************************************************************************)
(* Types.                                                                  *)
(***************************************************************************)

Places == {"none", "idle", "put", "recover", "find", "broadcast", "commit", "publish"}

\* The types of what the threads have, ...
LocalTypes ==
    /\ pc \in [Thread -> Places]
    /\ file \in [Thread -> File \cup {NoFile}]
    /\ target \in [Thread -> {"SUCCESS", "FAIL"}]
    /\ tries \in [Thread -> 0 .. MaxAttempts]

\* ... and of the rest.
DataTypes ==
    /\ backend \in {"s3", "local"}
    /\ row \in [File -> Status \cup {"none", "deleted"}]
    /\ stored \subseteq File /\ published \subseteq File
    /\ queue \in Seq(File) /\ Len(queue) <= QueueCapacity
    /\ heard \in [File -> Status \cup {"none"}]
    /\ told \in [File -> Nat]
    /\ alarms \subseteq File
    /\ mishaps \in Nat
    /\ lost \subseteq File /\ troubled \subseteq File

\* What a thread without a task has in its variables, and that put has an attempt left.
LocalInv(t) ==
    /\ Working(t) <=> file[t] # NoFile
    /\ ~ Working(t) => target[t] = "SUCCESS" /\ tries[t] = 0
    /\ At(t, {"put"}) => tries[t] < MaxAttempts
    /\ At(t, {"put", "recover"}) => target[t] = "SUCCESS"
    /\ At(t, {"recover"}) => backend = "s3"
    /\ At(t, {"publish"}) => target[t] = "FAIL"

TypeInv == LocalTypes /\ DataTypes /\ \A t \in Thread : LocalInv(t)

\* The other threads stay where they are.
OnlyMoves(t) ==
    \A u \in Thread \ {t} :
        pc'[u] = pc[u] /\ file'[u] = file[u] /\ target'[u] = target[u] /\ tries'[u] = tries[u]

(***************************************************************************)
(* A file is in one place at most.                                         *)
(***************************************************************************)

PlaceInv ==
    /\ \A t, u \in Thread : Working(t) /\ file[t] = file[u] => t = u
    /\ \A t \in Thread : file[t] \notin published
    /\ \A i \in 1 .. Len(queue) :
          /\ queue[i] \notin published
          /\ \A t \in Thread : file[t] # queue[i]
          /\ \A j \in 1 .. Len(queue) : queue[i] = queue[j] => i = j

\* The place is one of a file that exists or has existed.
Started(f) == row[f] # "none"
StartedInv ==
    /\ \A f \in published : Started(f)
    /\ \A i \in 1 .. Len(queue) : Started(queue[i])
    /\ \A t \in Thread : Working(t) => Started(file[t])

(***************************************************************************)
(* What is known of a file.                                                *)
(***************************************************************************)

Open(f) == row[f] \in {"PROCESSING", "deleted"}

\* Nothing has been decided about f.
Fresh(f) ==
    /\ row[f] \in {"none", "PROCESSING", "deleted"}
    /\ told[f] = 0 /\ f \notin alarms

\* Of a file that no thread works on yet.
WaitingInv ==
    /\ \A f \in File : ~ Started(f) => Fresh(f)
    /\ \A f \in published : Fresh(f)
    /\ \A i \in 1 .. Len(queue) : Fresh(queue[i])

\* Of the file f of thread t.
TaskOf(t, f) ==
    /\ f \notin alarms
    /\ At(t, {"put", "recover"}) => Fresh(f)
    /\ At(t, {"find", "broadcast", "commit"}) =>
          IF target[t] = "SUCCESS"
          THEN f \in stored /\ Fresh(f)
          ELSE /\ Open(f) \/ (row[f] = "SUCCESS" /\ f \in troubled)
               /\ backend = "s3" /\ f \notin troubled => told[f] = 1 \/ row[f] = "deleted"
    /\ At(t, {"commit"}) => heard[f] = target[t] \/ f \in troubled
    /\ At(t, {"publish"}) => row[f] \in {"FAIL", "deleted"}
TaskInv == \A t \in Thread : Working(t) => TaskOf(t, file[t])

\* SuccessIsStored, HeardIsStatus, AdminIsTold and AlarmIsRecorded, of one file.
OutcomeOf(f) ==
    /\ row[f] = "SUCCESS" => f \in stored
    /\ f \notin troubled /\ row[f] \in {"SUCCESS", "FAIL"} => heard[f] = row[f]
    /\ told[f] <= 1
    /\ told[f] = 1 => row[f] # "SUCCESS"
    /\ f \notin troubled /\ backend = "s3" /\ row[f] = "FAIL" => told[f] = 1
    /\ f \in alarms => row[f] \in {"FAIL", "deleted"}
OutcomeInv == \A f \in File : OutcomeOf(f)

IInv == TypeInv /\ PlaceInv /\ StartedInv /\ WaitingInv /\ TaskInv /\ OutcomeInv

LEMMA TypesLemma == TypeOK <=> LocalTypes /\ DataTypes
    BY DEF TypeOK, LocalTypes, DataTypes, Places

LEMMA RunLemma ==
    ASSUME LocalTypes, NEW t \in Thread, NEW f \in File, Run(t, f), UNCHANGED <<target, tries>>
    PROVE  /\ LocalTypes' /\ OnlyMoves(t)
           /\ pc'[t] = "put" /\ file'[t] = f
           /\ target'[t] = target[t] /\ tries'[t] = tries[t]
    BY DEF Run, LocalTypes, OnlyMoves, Places

LEMMA GotoLemma ==
    ASSUME LocalTypes, NEW t \in Thread, NEW p \in Places, Goto(t, p)
    PROVE  /\ LocalTypes' /\ OnlyMoves(t)
           /\ pc'[t] = p /\ file'[t] = file[t]
           /\ target'[t] = target[t] /\ tries'[t] = tries[t]
    BY DEF Goto, LocalTypes, OnlyMoves, Places

LEMMA FinishLemma ==
    ASSUME LocalTypes, NEW t \in Thread, Finish(t)
    PROVE  /\ LocalTypes' /\ OnlyMoves(t)
           /\ pc'[t] = "idle" /\ file'[t] = NoFile
           /\ target'[t] = "SUCCESS" /\ tries'[t] = 0
<1> USE UploadAssumption
<1> QED
    BY DEF Finish, LocalTypes, OnlyMoves, Places

LEMMA RaiseLemma ==
    ASSUME LocalTypes, NEW t \in Thread, Raise(t)
    PROVE  /\ LocalTypes' /\ OnlyMoves(t)
           /\ target[t] = "SUCCESS" =>
                 /\ pc'[t] = "find" /\ file'[t] = file[t]
                 /\ target'[t] = "FAIL" /\ tries'[t] = tries[t]
           /\ target[t] # "SUCCESS" =>
                 /\ pc'[t] = "idle" /\ file'[t] = NoFile
                 /\ target'[t] = "SUCCESS" /\ tries'[t] = 0
<1>1. CASE target[t] = "SUCCESS"
    BY <1>1 DEF Raise, LocalTypes, OnlyMoves, Places
<1>2. CASE target[t] # "SUCCESS"
    BY <1>2, FinishLemma DEF Raise
<1> QED
    BY <1>1, <1>2

\* A failing attempt of put.
LEMMA RetryLemma ==
    ASSUME LocalTypes, NEW t \in Thread, tries[t] < MaxAttempts,
           tries' = [tries EXCEPT ![t] = @ + 1],
           pc' = [pc EXCEPT ![t] = IF tries[t] + 1 < MaxAttempts THEN "put" ELSE "recover"],
           UNCHANGED <<file, target>>
    PROVE  /\ LocalTypes' /\ OnlyMoves(t)
           /\ pc'[t] \in {"put", "recover"} /\ file'[t] = file[t]
           /\ target'[t] = target[t]
           /\ pc'[t] = "put" => tries'[t] < MaxAttempts
<1> USE UploadAssumption
<1>1. tries[t] + 1 \in 0 .. MaxAttempts /\ tries'[t] = tries[t] + 1
    BY DEF LocalTypes
<1>2. tries' \in [Thread -> 0 .. MaxAttempts] /\ pc' \in [Thread -> Places]
    BY <1>1 DEF LocalTypes, Places
<1>3. pc'[t] = IF tries[t] + 1 < MaxAttempts THEN "put" ELSE "recover"
    BY DEF LocalTypes
<1> QED
    BY <1>1, <1>2, <1>3 DEF LocalTypes, OnlyMoves

\* What every step of a thread with a task has in common.
LEMMA MoveLemma ==
    ASSUME TypeInv, NEW t \in Thread, Work(t), ~ Take(t)
    PROVE  /\ Working(t) /\ file[t] \in File
           /\ UNCHANGED <<backend, published, queue, lost>>
           /\ LocalTypes' /\ OnlyMoves(t)
           /\ file'[t] \in {file[t], NoFile} /\ (Working(t)' => file'[t] = file[t])
           /\ LocalInv(t)'
<1> USE UploadAssumption DEF TypeInv, LocalInv, At, Working
<1>1. /\ Working(t) /\ file[t] \in File
      /\ UNCHANGED <<backend, published, queue, lost>>
    BY DEF LocalTypes, Work, Put, Recover, Find, Broadcast, Commit, Publish, pool, tells
<1>2. file[t] # NoFile
    BY <1>1
<1> DEFINE Result == /\ LocalTypes' /\ OnlyMoves(t)
                     /\ file'[t] \in {file[t], NoFile} /\ (Working(t)' => file'[t] = file[t])
                     /\ LocalInv(t)'
<1>3. ASSUME NEW p \in {"find", "broadcast", "commit"}, Goto(t, p)
      PROVE  Result
    BY <1>1, <1>2, <1>3, GotoLemma DEF Places
<1>4. ASSUME Goto(t, "publish"), target[t] = "FAIL"
      PROVE  Result
    BY <1>1, <1>2, <1>4, GotoLemma DEF Places
<1>5. ASSUME Finish(t)
      PROVE  Result
    BY <1>1, <1>5, FinishLemma
<1>6. ASSUME Raise(t)
      PROVE  Result
    <2>1. CASE target[t] = "SUCCESS"
        BY <1>1, <1>2, <1>6, <2>1, RaiseLemma
    <2>2. CASE target[t] # "SUCCESS"
        BY <1>1, <1>6, <2>2, RaiseLemma
    <2> QED
        BY <2>1, <2>2
<1>7. CASE Put(t)
    <2>1. CASE /\ tries' = [tries EXCEPT ![t] = @ + 1]
               /\ pc' = [pc EXCEPT ![t] = IF tries[t] + 1 < MaxAttempts THEN "put" ELSE "recover"]
               /\ UNCHANGED <<file, target>>
               /\ backend = "s3"
        <3>1. /\ LocalTypes' /\ OnlyMoves(t)
              /\ pc'[t] \in {"put", "recover"} /\ file'[t] = file[t]
              /\ target'[t] = target[t]
              /\ pc'[t] = "put" => tries'[t] < MaxAttempts
            BY <1>7, <2>1, RetryLemma DEF Put
        <3> QED
            BY <1>1, <1>2, <1>7, <2>1, <3>1 DEF Put
    <2> QED
        BY <1>1, <1>3, <1>6, <1>7, <2>1 DEF Put
<1>8. CASE Recover(t)
    BY <1>1, <1>6, <1>8 DEF Recover
<1>9. CASE Find(t)
    BY <1>1, <1>3, <1>6, <1>9 DEF Find
<1>10. CASE Broadcast(t)
    BY <1>1, <1>3, <1>10 DEF Broadcast
<1>11. CASE Commit(t)
    <2>1. target[t] \in {"SUCCESS", "FAIL"}
        BY DEF LocalTypes
    <2> QED
        BY <1>1, <1>4, <1>5, <1>6, <1>11, <2>1 DEF Commit
<1>12. CASE Publish(t)
    BY <1>1, <1>5, <1>12 DEF Publish
<1> QED
    BY <1>1, <1>7, <1>8, <1>9, <1>10, <1>11, <1>12 DEF Work

LEMMA TypeStep ==
    ASSUME TypeInv, [Next]_vars
    PROVE  TypeInv'
<1> USE UploadAssumption
<1>1. ASSUME NEW t \in Thread, LocalTypes', OnlyMoves(t), LocalInv(t)', DataTypes',
             UNCHANGED backend
      PROVE  TypeInv'
    BY <1>1 DEF TypeInv, OnlyMoves, LocalInv, At, Working
<1>2. ASSUME UNCHANGED <<backend, pc, file, target, tries>>, DataTypes'
      PROVE  TypeInv'
    BY <1>2 DEF TypeInv, LocalTypes, LocalInv, At, Working
<1>3. ASSUME NEW f \in File, Create(f) \/ Delete(f) PROVE TypeInv'
    BY <1>2, <1>3 DEF Create, Delete, TypeInv, DataTypes, Status, pool, tells
<1>4. ASSUME NEW f \in File, Submit(f) PROVE TypeInv'
    <2>1. /\ UNCHANGED <<backend, row, stored, target, tries, tells, mishaps, troubled>>
          /\ published' = published \ {f}
          /\ lost' \in {lost, lost \cup {f}}
          /\ \/ queue' = Append(queue, f) /\ Len(queue) < QueueCapacity
             \/ queue' = queue
        BY <1>4 DEF Submit
    <2>2. DataTypes'
        <3>1. queue' \in Seq(File) /\ Len(queue') <= QueueCapacity
            <4>1. queue \in Seq(File) /\ Len(queue) \in Nat /\ Len(queue) <= QueueCapacity
                BY DEF TypeInv, DataTypes
            <4>2. CASE queue' = Append(queue, f) /\ Len(queue) < QueueCapacity
                BY <4>1, <4>2
            <4> QED
                BY <2>1, <4>1, <4>2
        <3> QED
            BY <2>1, <3>1 DEF TypeInv, DataTypes, tells
    <2>3. CASE UNCHANGED <<pc, file>>
        BY <1>2, <2>1, <2>2, <2>3
    <2>4. ASSUME NEW t \in Thread \ Pool, Run(t, f)
          PROVE  TypeInv'
        BY <1>1, <2>1, <2>2, <2>4, RunLemma DEF TypeInv, LocalInv, At, Working, Pool
    <2> QED
        BY <1>4, <2>3, <2>4 DEF Submit
<1>5. ASSUME NEW t \in Thread, Take(t) PROVE TypeInv'
    <2>1. Head(queue) \in File /\ queue' \in Seq(File) /\ Len(queue') <= QueueCapacity
        BY <1>5 DEF Take, TypeInv, DataTypes
    <2>2. DataTypes'
        BY <1>5, <2>1 DEF Take, TypeInv, DataTypes, tells
    <2> QED
        BY <1>1, <1>5, <2>1, <2>2, RunLemma DEF Take, TypeInv, LocalInv, At, Working
<1>6. ASSUME NEW t \in Thread, Retire(t) PROVE TypeInv'
    <2>1. DataTypes'
        BY <1>6 DEF Retire, TypeInv, DataTypes, tells
    <2>2. LocalTypes' /\ OnlyMoves(t) /\ LocalInv(t)'
        BY <1>6 DEF Retire, TypeInv, LocalTypes, LocalInv, OnlyMoves, At, Working, Places
    <2> QED
        BY <1>1, <1>6, <2>1, <2>2 DEF Retire
<1>7. ASSUME NEW t \in Thread, Work(t), ~ Take(t) PROVE TypeInv'
    <2>1. /\ UNCHANGED <<backend, published, queue, lost>> /\ file[t] \in File
          /\ LocalTypes' /\ OnlyMoves(t) /\ LocalInv(t)'
        BY <1>7, MoveLemma
    <2>2. DataTypes'
        <3>1. CASE Put(t)
            BY <2>1, <3>1 DEF Put, tells, TypeInv, DataTypes
        <3>2. CASE Recover(t)
            <4>1. told' \in [File -> Nat]
                BY <2>1, <3>2 DEF Recover, TypeInv, DataTypes
            <4> QED
                BY <2>1, <3>2, <4>1 DEF Recover, Trouble, TypeInv, DataTypes
        <3>3. CASE Find(t)
            BY <2>1, <3>3 DEF Find, Trouble, tells, TypeInv, DataTypes
        <3>4. CASE Broadcast(t)
            <4>1. heard' \in [File -> Status \cup {"none"}]
                BY <2>1, <3>4 DEF Broadcast, TypeInv, DataTypes, LocalTypes, Status
            <4> QED
                BY <2>1, <3>4, <4>1 DEF Broadcast, Trouble, TypeInv, DataTypes
        <3>5. CASE Commit(t)
            <4>1. row' \in [File -> Status \cup {"none", "deleted"}]
                BY <2>1, <3>5 DEF Commit, TypeInv, DataTypes, LocalTypes, Status
            <4> QED
                BY <2>1, <3>5, <4>1 DEF Commit, Trouble, tells, TypeInv, DataTypes
        <3>6. CASE Publish(t)
            BY <2>1, <3>6 DEF Publish, TypeInv, DataTypes
        <3> QED
            BY <1>7, <3>1, <3>2, <3>3, <3>4, <3>5, <3>6 DEF Work
    <2> QED
        BY <1>1, <2>1, <2>2
<1>8. CASE Crash
    <2>1. \A t \in Thread : file[t] # NoFile => file[t] \in File
        BY DEF TypeInv, LocalTypes
    <2>2. DataTypes'
        BY <1>8, <2>1 DEF Crash, TypeInv, DataTypes, tells
    <2> QED
        BY <1>8, <2>2 DEF Crash, TypeInv, LocalTypes, LocalInv, At, Working, Places
<1>9. CASE UNCHANGED vars
    BY <1>9 DEF vars, pool, tells, TypeInv, LocalTypes, DataTypes, LocalInv, At, Working
<1> QED
    BY <1>3, <1>4, <1>5, <1>6, <1>7, <1>8, <1>9 DEF Next

LEMMA PlaceStep ==
    ASSUME TypeInv, PlaceInv, StartedInv, [Next]_vars
    PROVE  PlaceInv' /\ StartedInv'
<1>1. ASSUME NEW f \in File, Create(f) PROVE PlaceInv' /\ StartedInv'
    <2>1. \A g \in File : Started(g) => Started(g)' /\ g # f
        BY <1>1 DEF Create, Started, TypeInv, DataTypes
    <2>2. Started(f)'
        BY <1>1 DEF Create, Started, TypeInv, DataTypes
    <2>3. \A i \in 1 .. Len(queue) : queue[i] \in File
        BY DEF TypeInv, DataTypes
    <2>4. \A t \in Thread : file[t] \in File \cup {NoFile} /\ (Working(t) <=> file[t] # NoFile)
        BY DEF TypeInv, LocalTypes, LocalInv
    <2>5. published \subseteq File /\ f # NoFile
        BY UploadAssumption DEF TypeInv, DataTypes
    <2> QED
        BY <1>1, <2>1, <2>2, <2>3, <2>4, <2>5
        DEF Create, pool, PlaceInv, StartedInv, At, Working
<1>2. ASSUME NEW f \in File, Submit(f) PROVE PlaceInv' /\ StartedInv'
    <2> DEFINE Same == UNCHANGED row /\ published' = published \ {f} /\ f \in published
    <2>1. Same
        BY <1>2 DEF Submit
    <2>2. CASE UNCHANGED <<queue, pc, file>>
        BY <2>1, <2>2 DEF PlaceInv, StartedInv, Started, At, Working
    <2>3. CASE queue' = Append(queue, f) /\ UNCHANGED <<pc, file>>
        <3>1. /\ Len(queue) \in Nat /\ Len(queue') = Len(queue) + 1
              /\ \A i \in 1 .. Len(queue') :
                    queue'[i] = IF i = Len(queue) + 1 THEN f ELSE queue[i]
              /\ \A i \in 1 .. Len(queue') : i # Len(queue) + 1 => i \in 1 .. Len(queue)
            BY <2>3 DEF TypeInv, DataTypes
        <3>2. PlaceInv'
            BY <2>1, <2>3, <3>1 DEF PlaceInv, At, Working
        <3> QED
            BY <2>1, <2>3, <3>1, <3>2 DEF StartedInv, Started, At, Working
    <2>4. ASSUME NEW t \in Thread \ Pool, Run(t, f), UNCHANGED <<queue, target, tries>>
          PROVE  PlaceInv' /\ StartedInv'
        <3>1. OnlyMoves(t) /\ file'[t] = f /\ f # NoFile
            BY <2>4, RunLemma, UploadAssumption DEF TypeInv
        <3> QED
            BY <2>1, <2>4, <3>1 DEF OnlyMoves, PlaceInv, StartedInv, Started, At, Working
    <2> QED
        BY <1>2, <2>2, <2>3, <2>4 DEF Submit
<1>3. ASSUME NEW f \in File, Delete(f) PROVE PlaceInv' /\ StartedInv'
    <2>1. \A g : row'[g] # row[g] => row'[g] = "deleted"
        BY <1>3 DEF Delete, TypeInv, DataTypes
    <2> QED
        BY <1>3, <2>1 DEF Delete, pool, PlaceInv, StartedInv, Started, At, Working
<1>4. ASSUME NEW t \in Thread, Take(t) PROVE PlaceInv' /\ StartedInv'
    <2> DEFINE f == queue[1]
    <2>1. /\ Len(queue) \in Nat /\ 1 \in 1 .. Len(queue) /\ Head(queue) = f /\ f \in File
          /\ \A i \in 1 .. Len(queue') :
                /\ i + 1 \in 1 .. Len(queue) /\ i + 1 # 1 /\ queue'[i] = queue[i + 1]
          /\ \A i, j \in 1 .. Len(queue') : i + 1 = j + 1 => i = j
        BY <1>4 DEF Take, TypeInv, DataTypes
    <2>2. OnlyMoves(t) /\ file'[t] = f /\ ~ Working(t)
        BY <1>4, <2>1, RunLemma DEF Take, TypeInv, At, Working
    <2>3. UNCHANGED <<row, published>>
        BY <1>4 DEF Take
    <2>4. f \notin published /\ (\A u \in Thread : file[u] # f)
          /\ (\A i \in 1 .. Len(queue') : queue'[i] # f)
        BY <2>1 DEF PlaceInv
    <2>5. PlaceInv'
        BY <2>1, <2>2, <2>3, <2>4 DEF PlaceInv, OnlyMoves, At, Working
    <2> QED
        BY <2>1, <2>2, <2>3, <2>5 DEF StartedInv, Started, OnlyMoves, At, Working
<1>5. ASSUME NEW t \in Thread, Work(t), ~ Take(t) PROVE PlaceInv' /\ StartedInv'
    <2>1. /\ Working(t) /\ UNCHANGED <<published, queue>> /\ OnlyMoves(t)
          /\ file'[t] \in {file[t], NoFile} /\ (Working(t)' => file'[t] = file[t])
        BY <1>5, MoveLemma
    <2>2. \A g \in File : Started(g) => Started(g)'
        BY <1>5 DEF Work, Put, Recover, Find, Broadcast, Commit, Publish, Started,
                    TypeInv, DataTypes, LocalTypes
    <2>3. /\ \A i \in 1 .. Len(queue) : queue[i] \in File /\ queue[i] # NoFile
          /\ published \subseteq File /\ NoFile \notin published
          /\ \A u \in Thread : file[u] \in File \cup {NoFile} /\ (Working(u) <=> file[u] # NoFile)
        BY UploadAssumption DEF TypeInv, DataTypes, LocalTypes, LocalInv
    <2>4. PlaceInv'
        BY <2>1, <2>3 DEF PlaceInv, OnlyMoves, At, Working
    <2> QED
        BY <2>1, <2>2, <2>3, <2>4 DEF StartedInv, OnlyMoves, At, Working
<1>6. ASSUME NEW t \in Thread, Retire(t) PROVE PlaceInv' /\ StartedInv'
    <2>1. \A u \in Thread : Working(u)' => Working(u)
        BY <1>6 DEF Retire, At, Working, TypeInv, LocalTypes
    <2> QED
        BY <1>6, <2>1 DEF Retire, PlaceInv, StartedInv, Started
<1>7. CASE Crash
    BY <1>7 DEF Crash, PlaceInv, StartedInv, At, Working
<1>8. CASE UNCHANGED vars
    BY <1>8 DEF vars, pool, PlaceInv, StartedInv, Started, At, Working
<1> QED
    BY <1>1, <1>2, <1>3, <1>4, <1>5, <1>6, <1>7, <1>8 DEF Next

\* What a step of a thread does to other files, and what that leaves to prove.
LEMMA OneFile ==
    ASSUME TypeInv, PlaceInv, WaitingInv, TaskInv, OutcomeInv,
           NEW t \in Thread, Working(t), NEW f \in File, f = file[t], OnlyMoves(t),
           UNCHANGED <<backend, published, queue>>,
           \A g \in File \ {f} :
               /\ row'[g] = row[g] /\ heard'[g] = heard[g] /\ told'[g] = told[g]
               /\ g \in stored' <=> g \in stored
               /\ g \in alarms' <=> g \in alarms
               /\ g \in troubled' <=> g \in troubled,
           Started(f)',
           Working(t)' => file'[t] = f /\ TaskOf(t, f)',
           OutcomeOf(f)'
    PROVE  WaitingInv' /\ TaskInv' /\ OutcomeInv'
<1>1. \A g \in File \ {f} : (Fresh(g) <=> Fresh(g)') /\ (Started(g) <=> Started(g)')
    BY DEF Fresh, Started
<1>2. WaitingInv'
    <2>1. /\ f \notin published /\ published \subseteq File
          /\ \A i \in 1 .. Len(queue) : queue[i] # f /\ queue[i] \in File
        BY DEF PlaceInv, TypeInv, DataTypes
    <2> QED
        BY <1>1, <2>1 DEF WaitingInv, Started
<1>3. ASSUME NEW u \in Thread, Working(u)'
      PROVE  TaskOf(u, file[u])'
    <2>1. CASE u = t
        BY <1>3, <2>1
    <2>2. CASE u # t
        <3> PICK g : g = file[u]
            OBVIOUS
        <3>1. Working(u) /\ g \in File \ {f} /\ file'[u] = g
            BY <1>3, <2>2 DEF PlaceInv, OnlyMoves, TypeInv, LocalTypes, LocalInv, At, Working
        <3>2. TaskOf(u, g)
            BY <3>1 DEF TaskInv
        <3>3. pc'[u] = pc[u] /\ target'[u] = target[u] /\ (Fresh(g) <=> Fresh(g)')
            BY <1>1, <2>2, <3>1 DEF OnlyMoves
        <3>4. TaskOf(u, g)'
            BY <3>1, <3>2, <3>3 DEF TaskOf, Open, At
        <3> QED
            BY <3>1, <3>4
    <2> QED
        BY <2>1, <2>2
<1>4. ASSUME NEW g \in File, g # f
      PROVE  OutcomeOf(g)'
    <2>1. OutcomeOf(g)
        BY DEF OutcomeInv
    <2> QED
        BY <1>4, <2>1 DEF OutcomeOf
<1> QED
    BY <1>2, <1>3, <1>4 DEF TaskInv, OutcomeInv

LEMMA WorkStep ==
    ASSUME TypeInv, PlaceInv, StartedInv, WaitingInv, TaskInv, OutcomeInv,
           NEW t \in Thread, Work(t), ~ Take(t)
    PROVE  WaitingInv' /\ TaskInv' /\ OutcomeInv'
<1> PICK f : f = file[t]
    OBVIOUS
<1>1. /\ Working(t) /\ f \in File
      /\ UNCHANGED <<backend, published, queue>>
      /\ LocalTypes' /\ OnlyMoves(t)
      /\ (Working(t)' => file'[t] = f)
    BY MoveLemma
<1>2. Started(f) /\ TaskOf(t, f) /\ OutcomeOf(f)
    BY <1>1 DEF StartedInv, TaskInv, OutcomeInv
<1>3. LocalInv(t) /\ target[t] \in {"SUCCESS", "FAIL"} /\ LocalTypes
    BY DEF TypeInv, LocalTypes
<1>4. /\ f \in DOMAIN row /\ f \in DOMAIN heard /\ f \in DOMAIN told
      /\ row[f] \in Status \cup {"deleted"} /\ told[f] \in Nat
    BY <1>1, <1>2 DEF TypeInv, DataTypes, Started, Status
<1> DEFINE Others == \A g \in File \ {f} :
                        /\ row'[g] = row[g] /\ heard'[g] = heard[g] /\ told'[g] = told[g]
                        /\ g \in stored' <=> g \in stored
                        /\ g \in alarms' <=> g \in alarms
                        /\ g \in troubled' <=> g \in troubled
<1> DEFINE Mine == /\ Started(f)'
                   /\ Working(t)' => TaskOf(t, f)'
                   /\ OutcomeOf(f)'
<1>5. CASE Put(t)
    <2>1. Others
        BY <1>1, <1>5 DEF Put, tells, TypeInv, DataTypes
    <2>2. Mine
        <3>1. Fresh(f) /\ target[t] = "SUCCESS" /\ UNCHANGED <<row, told, heard, alarms, troubled>>
            BY <1>2, <1>3, <1>5 DEF Put, TaskOf, LocalInv, At, tells
        <3>2. Fresh(f)' /\ Started(f)' /\ Open(f)' /\ OutcomeOf(f)' /\ (f \notin alarms)'
            BY <1>2, <1>4, <3>1 DEF Fresh, Started, Open, OutcomeOf, Status
        <3>3. CASE stored' = stored \cup {f} /\ Goto(t, "find")
            <4>1. pc'[t] = "find" /\ target'[t] = "SUCCESS" /\ f \in stored'
                BY <1>3, <3>1, <3>3, GotoLemma DEF Places
            <4> QED
                BY <3>2, <4>1 DEF TaskOf, At
        <3>4. CASE /\ tries' = [tries EXCEPT ![t] = @ + 1]
                   /\ pc' = [pc EXCEPT ![t] = IF tries[t] + 1 < MaxAttempts THEN "put" ELSE "recover"]
            <4>1. pc'[t] \in {"put", "recover"}
                BY <1>3, <3>4 DEF LocalTypes
            <4> QED
                BY <3>2, <4>1 DEF TaskOf, At
        <3>5. CASE backend = "local" /\ Raise(t)
            <4>1. pc'[t] = "find" /\ target'[t] = "FAIL" /\ backend' # "s3"
                BY <1>1, <1>3, <3>1, <3>5, RaiseLemma
            <4> QED
                BY <3>2, <4>1 DEF TaskOf, At
        <3> QED
            BY <1>5, <3>3, <3>4, <3>5 DEF Put
    <2> QED
        BY <1>1, <2>1, <2>2, OneFile
<1>6. CASE Recover(t)
    <2>1. Others
        BY <1>1, <1>6 DEF Recover, Trouble, TypeInv, DataTypes
    <2>2. Mine
        <3>1. Fresh(f) /\ target[t] = "SUCCESS" /\ UNCHANGED <<row, heard, alarms, stored>>
            BY <1>2, <1>3, <1>6 DEF Recover, TaskOf, LocalInv, At
        <3>2. pc'[t] = "find" /\ target'[t] = "FAIL"
            BY <1>3, <1>6, <3>1, RaiseLemma DEF Recover
        <3>3. \/ told'[f] = 1 /\ troubled' = troubled
              \/ told'[f] = 0 /\ f \in troubled'
            BY <1>4, <1>6, <3>1 DEF Recover, Trouble, Fresh
        <3>4. row[f] \in {"PROCESSING", "deleted"}
            BY <1>4, <3>1 DEF Fresh, Status
        <3> QED
            BY <1>1, <1>2, <3>1, <3>2, <3>3, <3>4 DEF TaskOf, OutcomeOf, Open, At, Started, Fresh
    <2> QED
        BY <1>1, <2>1, <2>2, OneFile
<1>7. CASE Find(t)
    <2>1. Others
        BY <1>1, <1>7 DEF Find, Trouble, tells, TypeInv, DataTypes
    <2>2. Mine
        <3>1. /\ UNCHANGED <<row, heard, told, alarms, stored>>
              /\ troubled' \in {troubled, troubled \cup {f}}
            BY <1>7 DEF Find, Trouble, tells
        <3>2. Started(f)' /\ OutcomeOf(f)'
            BY <1>1, <1>2, <3>1 DEF Started, OutcomeOf
        <3>3. CASE Goto(t, "broadcast")
            <4>1. pc'[t] = "broadcast" /\ target'[t] = target[t]
                BY <1>3, <3>3, GotoLemma DEF Places
            <4>2. At(t, {"find", "broadcast", "commit"}) /\ pc[t] = "find"
                BY <1>7 DEF Find, At
            <4> QED
                BY <1>1, <1>2, <3>1, <3>2, <4>1, <4>2 DEF TaskOf, Fresh, Open, At
        <3>4. CASE Raise(t) /\ (row[f] = "deleted" \/ f \in troubled')
            <4>1. CASE target[t] = "SUCCESS"
                <5>1. pc'[t] = "find" /\ target'[t] = "FAIL"
                    BY <1>3, <3>4, <4>1, RaiseLemma
                <5>2. row[f] \in {"PROCESSING", "deleted"} /\ f \notin alarms
                    BY <1>2, <1>4, <1>7, <4>1 DEF Find, TaskOf, Fresh, At, Status
                <5> QED
                    BY <1>1, <3>1, <3>2, <3>4, <5>1, <5>2 DEF TaskOf, Open, At
            <4>2. CASE target[t] # "SUCCESS"
                BY <1>3, <3>2, <3>4, <4>2, RaiseLemma DEF At, Working
            <4> QED
                BY <4>1, <4>2
        <3> QED
            BY <1>7, <3>3, <3>4 DEF Find, Trouble
    <2> QED
        BY <1>1, <2>1, <2>2, OneFile
<1>8. CASE Broadcast(t)
    <2>1. Others
        BY <1>1, <1>8 DEF Broadcast, Trouble, TypeInv, DataTypes
    <2>2. Mine
        <3>1. /\ UNCHANGED <<row, told, alarms, stored>>
              /\ \/ heard'[f] = target[t] /\ troubled' = troubled
                 \/ f \in troubled'
            BY <1>4, <1>8 DEF Broadcast, Trouble
        <3>2. pc'[t] = "commit" /\ target'[t] = target[t]
            BY <1>3, <1>8, GotoLemma DEF Broadcast, Places
        <3>3. At(t, {"find", "broadcast", "commit"}) /\ pc[t] = "broadcast"
            BY <1>8 DEF Broadcast, At
        <3>4. TaskOf(t, f)'
            BY <1>1, <1>2, <3>1, <3>2, <3>3 DEF TaskOf, Fresh, Open, At
        <3>5. row[f] \in {"SUCCESS", "FAIL"} => f \in troubled
            BY <1>2, <3>3 DEF TaskOf, Fresh, Open
        <3>6. OutcomeOf(f)'
            BY <1>1, <1>2, <3>1, <3>5 DEF OutcomeOf
        <3> QED
            BY <1>2, <3>1, <3>4, <3>6 DEF Started
    <2> QED
        BY <1>1, <2>1, <2>2, OneFile
<1>9. CASE Commit(t)
    <2>1. Others
        BY <1>1, <1>9 DEF Commit, Trouble, tells, TypeInv, DataTypes
    <2>2. Mine
        <3>1. UNCHANGED <<heard, told, alarms, stored>> /\ At(t, {"find", "broadcast", "commit"})
            BY <1>9 DEF Commit, tells, At
        <3>2. /\ f \notin alarms /\ (heard[f] = target[t] \/ f \in troubled)
              /\ target[t] = "SUCCESS" => f \in stored /\ Fresh(f)
              /\ target[t] # "SUCCESS" =>
                    /\ Open(f) \/ (row[f] = "SUCCESS" /\ f \in troubled)
                    /\ backend = "s3" /\ f \notin troubled => told[f] = 1 \/ row[f] = "deleted"
            BY <1>2, <1>9, <3>1 DEF Commit, TaskOf, At
        <3>3. CASE /\ row[f] \in Status /\ row'[f] = target[t] /\ troubled' = troubled
                   /\ IF target[t] = "SUCCESS" THEN Finish(t) ELSE Goto(t, "publish")
            <4>1. Started(f)' /\ OutcomeOf(f)'
                BY <1>1, <1>2, <1>3, <3>1, <3>2, <3>3 DEF OutcomeOf, Started, Fresh, Status
            <4>2. CASE target[t] = "SUCCESS"
                BY <1>3, <3>3, <4>1, <4>2, FinishLemma DEF At, Working
            <4>3. CASE target[t] = "FAIL"
                <5>1. pc'[t] = "publish"
                    BY <1>3, <3>3, <4>3, GotoLemma DEF Places
                <5> QED
                    BY <3>1, <3>2, <3>3, <4>1, <4>3, <5>1 DEF TaskOf, At
            <4> QED
                BY <1>3, <4>2, <4>3
        <3>4. CASE row[f] = "deleted" /\ UNCHANGED <<row, troubled>> /\ Raise(t)
            <4>1. Started(f)' /\ OutcomeOf(f)'
                BY <1>1, <1>2, <3>1, <3>4 DEF OutcomeOf, Started
            <4>2. CASE target[t] = "SUCCESS"
                <5>1. pc'[t] = "find" /\ target'[t] = "FAIL"
                    BY <1>3, <3>4, <4>2, RaiseLemma
                <5> QED
                    BY <3>1, <3>2, <3>4, <4>1, <5>1 DEF TaskOf, Open, At
            <4>3. CASE target[t] # "SUCCESS"
                BY <1>3, <3>4, <4>1, <4>3, RaiseLemma DEF At, Working
            <4> QED
                BY <4>2, <4>3
        <3>5. CASE /\ f \in troubled' /\ row'[f] \in {row[f], IF row[f] \in Status THEN target[t] ELSE row[f]}
                   /\ Raise(t)
            <4>1. Started(f)' /\ OutcomeOf(f)'
                BY <1>1, <1>2, <1>3, <3>1, <3>2, <3>5 DEF OutcomeOf, Started, Fresh
            <4>2. CASE target[t] = "SUCCESS"
                <5>1. pc'[t] = "find" /\ target'[t] = "FAIL"
                    BY <1>3, <3>5, <4>2, RaiseLemma
                <5>2. row'[f] \in {"PROCESSING", "deleted", "SUCCESS"}
                    BY <1>4, <3>2, <3>5, <4>2 DEF Fresh, Status
                <5> QED
                    BY <3>1, <3>2, <3>5, <4>1, <5>1, <5>2 DEF TaskOf, Open, At
            <4>3. CASE target[t] # "SUCCESS"
                BY <1>3, <3>5, <4>1, <4>3, RaiseLemma DEF At, Working
            <4> QED
                BY <4>2, <4>3
        <3> QED
            BY <1>1, <1>4, <1>9, <3>3, <3>4, <3>5 DEF Commit, Trouble, TypeInv, DataTypes
    <2> QED
        BY <1>1, <2>1, <2>2, OneFile
<1>10. CASE Publish(t)
    <2>1. Others
        BY <1>1, <1>10 DEF Publish, TypeInv, DataTypes
    <2>2. Mine
        <3>1. /\ UNCHANGED <<row, heard, told, stored, troubled>>
              /\ alarms' \subseteq alarms \cup {f} /\ row[f] \in {"FAIL", "deleted"}
            BY <1>2, <1>10 DEF Publish, TaskOf, At
        <3>2. ~ Working(t)'
            BY <1>3, <1>10, FinishLemma DEF Publish, At, Working
        <3> QED
            BY <1>1, <1>2, <3>1, <3>2 DEF OutcomeOf, Started
    <2> QED
        BY <1>1, <2>1, <2>2, OneFile
<1> QED
    BY <1>5, <1>6, <1>7, <1>8, <1>9, <1>10 DEF Work

LEMMA OtherStep ==
    ASSUME TypeInv, PlaceInv, StartedInv, WaitingInv, TaskInv, OutcomeInv, [Next]_vars,
           \A t \in Thread : ~ Work(t) \/ Take(t)
    PROVE  WaitingInv' /\ TaskInv' /\ OutcomeInv'
<1> DEFINE Result == WaitingInv' /\ TaskInv' /\ OutcomeInv'
<1>1. /\ \A t \in Thread : Working(t) => file[t] \in File
      /\ published \subseteq File
      /\ \A i \in 1 .. Len(queue) : queue[i] \in File
    BY DEF TypeInv, LocalTypes, DataTypes, LocalInv
<1>2. ASSUME NEW f \in File,
             \/ row[f] = "none" /\ row' = [row EXCEPT ![f] = "PROCESSING"] /\ published' = published \cup {f}
             \/ row[f] # "none" /\ row' = [row EXCEPT ![f] = "deleted"] /\ published' = published,
             UNCHANGED <<backend, stored, pool, tells, troubled>>
      PROVE  Result
    <2>1. /\ \A g \in File \ {f} : row'[g] = row[g]
          /\ row'[f] = IF row[f] = "none" THEN "PROCESSING" ELSE "deleted"
        BY <1>2 DEF TypeInv, DataTypes
    <2>2. ASSUME NEW g \in File
          PROVE  /\ Fresh(g) => Fresh(g)'
                 /\ Open(g) => Open(g)'
                 /\ g # f => row'[g] = row[g]
                 /\ Started(g) => Started(g)' /\ (g = f => row'[g] = "deleted")
                 /\ Started(g)' => Started(g) \/ g = f
        BY <1>2, <2>1 DEF Fresh, Open, Started, tells
    <2>3. Fresh(f)' \/ Started(f)
        BY <1>2, <2>1 DEF WaitingInv, Started, Fresh, tells
    <2>4. WaitingInv'
        BY <1>1, <1>2, <2>2, <2>3 DEF WaitingInv, Started, pool
    <2>5. ASSUME NEW t \in Thread, NEW g \in File, g = file[t], Working(t)
          PROVE  TaskOf(t, g)'
        <3>1. TaskOf(t, g) /\ Started(g)
            BY <2>5 DEF TaskInv, StartedInv
        <3> QED
            BY <1>2, <2>2, <3>1 DEF TaskOf, At, Open, pool, tells
    <2>6. TaskInv'
        BY <1>1, <1>2, <2>5 DEF TaskInv, At, Working, pool
    <2>7. ASSUME NEW g \in File
          PROVE  OutcomeOf(g)'
        <3>1. OutcomeOf(g)
            BY DEF OutcomeInv
        <3>2. CASE g = f
            BY <1>2, <2>1, <2>3, <3>1, <3>2 DEF OutcomeOf, Fresh, Started, WaitingInv, tells
        <3>3. CASE g # f
            BY <1>2, <2>1, <3>1, <3>3 DEF OutcomeOf, tells
        <3> QED
            BY <3>2, <3>3
    <2> QED
        BY <2>4, <2>6, <2>7 DEF OutcomeInv
<1>3. ASSUME UNCHANGED <<backend, row, stored, tells, troubled>>,
             published' \subseteq published,
             \A i \in 1 .. Len(queue') : queue'[i] \in published \/ \E j \in 1 .. Len(queue) : queue'[i] = queue[j],
             \A t \in Thread : Working(t)' =>
                 \/ Working(t) /\ pc'[t] = pc[t] /\ file'[t] = file[t] /\ target'[t] = target[t]
                 \/ pc'[t] = "put" /\ Fresh(file'[t])
      PROVE  Result
    <2>1. \A g : (Fresh(g) <=> Fresh(g)') /\ (Started(g) <=> Started(g)')
        BY <1>3 DEF Fresh, Started, tells
    <2>2. WaitingInv'
        BY <1>3, <2>1 DEF WaitingInv
    <2>3. ASSUME NEW t \in Thread, NEW g, g = file'[t], Working(t)'
          PROVE  TaskOf(t, g)'
        <3>1. CASE pc'[t] = "put" /\ Fresh(g)
            BY <1>3, <2>1, <3>1 DEF TaskOf, At, Fresh, tells
        <3>2. CASE Working(t) /\ pc'[t] = pc[t] /\ g = file[t] /\ target'[t] = target[t]
            <4>1. TaskOf(t, g)
                BY <3>2 DEF TaskInv
            <4> QED
                BY <1>3, <2>1, <3>2, <4>1 DEF TaskOf, At, Open, tells
        <3> QED
            BY <1>3, <2>3, <3>1, <3>2
    <2>4. TaskInv'
        BY <2>3 DEF TaskInv
    <2> QED
        BY <1>3, <2>2, <2>4 DEF OutcomeInv, OutcomeOf, tells
<1>4. ASSUME NEW f \in File, Create(f) PROVE Result
    BY <1>2, <1>4 DEF Create
<1>5. ASSUME NEW f \in File, Delete(f) PROVE Result
    BY <1>2, <1>5 DEF Delete, Status
<1>6. ASSUME NEW f \in File, Submit(f) PROVE Result
    <2>1. Fresh(f) /\ f \in published /\ published' \subseteq published
          /\ UNCHANGED <<backend, row, stored, target, tries, tells, troubled>>
        BY <1>6 DEF Submit, WaitingInv
    <2>2. \A i \in 1 .. Len(queue') : queue'[i] \in published \/ \E j \in 1 .. Len(queue) : queue'[i] = queue[j]
        <3>1. CASE queue' = Append(queue, f)
            BY <2>1, <3>1 DEF TypeInv, DataTypes
        <3>2. CASE queue' = queue
            BY <3>2
        <3> QED
            BY <1>6, <3>1, <3>2 DEF Submit
    <2>3. CASE UNCHANGED <<pc, file>>
        BY <1>3, <2>1, <2>2, <2>3 DEF At, Working
    <2>4. ASSUME NEW t \in Thread, Run(t, f)
          PROVE  Result
        BY <1>3, <2>1, <2>2, <2>4, RunLemma DEF OnlyMoves, TypeInv, At, Working
    <2> QED
        BY <1>6, <2>3, <2>4 DEF Submit
<1>7. ASSUME NEW t \in Thread, Take(t) PROVE Result
    <2>1. /\ 1 \in 1 .. Len(queue) /\ Head(queue) = queue[1]
          /\ \A i \in 1 .. Len(queue') : i + 1 \in 1 .. Len(queue) /\ queue'[i] = queue[i + 1]
        BY <1>7 DEF Take, TypeInv, DataTypes
    <2>2. Fresh(queue[1])
        BY <2>1 DEF WaitingInv
    <2>3. OnlyMoves(t) /\ pc'[t] = "put" /\ file'[t] = queue[1]
        BY <1>1, <1>7, <2>1, RunLemma DEF Take, TypeInv
    <2> QED
        BY <1>3, <1>7, <2>1, <2>2, <2>3 DEF Take, OnlyMoves, At, Working
<1>8. ASSUME NEW t \in Thread, Retire(t) PROVE Result
    <2>1. \A u \in Thread : Working(u)' => Working(u) /\ pc'[u] = pc[u]
        BY <1>8 DEF Retire, At, Working, TypeInv, LocalTypes
    <2> QED
        BY <1>3, <1>8, <2>1 DEF Retire
<1>9. CASE Crash
    BY <1>3, <1>9 DEF Crash, At, Working
<1>10. CASE UNCHANGED vars
    BY <1>3, <1>10 DEF vars, pool, At, Working
<1> QED
    BY <1>4, <1>5, <1>6, <1>7, <1>8, <1>9, <1>10 DEF Next

(***************************************************************************)
(* The theorems.                                                           *)
(***************************************************************************)

\* The inductive invariant from which all else follows.
THEOREM Invariance == Spec => []IInv
<1>1. Init => IInv
    BY UploadAssumption
    DEF Init, IInv, TypeInv, LocalTypes, DataTypes, LocalInv, At, Working, Places, Status,
        PlaceInv, StartedInv, Started, WaitingInv, Fresh, TaskInv, OutcomeInv, OutcomeOf
<1>2. IInv /\ [Next]_vars => IInv'
    <2> SUFFICES ASSUME IInv, [Next]_vars
                 PROVE  IInv'
        OBVIOUS
    <2>1. TypeInv' /\ PlaceInv' /\ StartedInv'
        BY TypeStep, PlaceStep DEF IInv
    <2>2. WaitingInv' /\ TaskInv' /\ OutcomeInv'
        BY WorkStep, OtherStep DEF IInv
    <2> QED
        BY <2>1, <2>2 DEF IInv
<1> QED
    BY <1>1, <1>2, PTL DEF Spec

\* The variables hold what their declarations say, in every state of every instance.
THEOREM TypeCorrect == Spec => []TypeOK
<1>1. IInv => TypeOK
    BY TypesLemma DEF IInv, TypeInv
<1> QED
    BY <1>1, Invariance, PTL

\* A file whose status is SUCCESS is in the storage, whatever failed, was retried or
\* was deleted meanwhile.
THEOREM SuccessStored == Spec => []SuccessIsStored
<1>1. IInv => SuccessIsStored
    BY DEF IInv, OutcomeInv, OutcomeOf, SuccessIsStored
<1> QED
    BY <1>1, Invariance, PTL

\* What clients hear of a file before the commit is what it becomes, if no call fails.
THEOREM HeardTrue == Spec => []HeardIsStatus
<1>1. IInv => HeardIsStatus
    BY DEF IInv, OutcomeInv, OutcomeOf, HeardIsStatus
<1> QED
    BY <1>1, Invariance, PTL

\* The administrator hears once of an upload that was given up, and of nothing else.
THEOREM AdminTold == Spec => []AdminIsTold
<1>1. IInv => AdminIsTold
    BY DEF IInv, OutcomeInv, OutcomeOf, AdminIsTold
<1> QED
    BY <1>1, Invariance, PTL

\* S3UploadFailedEvent is published after the failure has been committed.
THEOREM AlarmRecorded == Spec => []AlarmIsRecorded
<1>1. IInv => AlarmIsRecorded
    BY DEF IInv, TypeInv, DataTypes, OutcomeInv, OutcomeOf, AlarmIsRecorded
<1> QED
    BY <1>1, Invariance, PTL

\* A status that was reached stays, with the exception StatusIsFinal names.
THEOREM StatusFinal == Spec => StatusIsFinal
<1>1. IInv /\ [Next]_vars => [Final]_vars
    <2> SUFFICES ASSUME IInv, [Next]_vars, NEW f \in File
                 PROVE  /\ row[f] = "SUCCESS" => row'[f] \in {"SUCCESS", "deleted"}
                                                    \/ (row'[f] = "FAIL" /\ f \in troubled)
                        /\ row[f] = "FAIL" => row'[f] \in {"FAIL", "deleted"}
                        /\ row[f] = "deleted" => row'[f] = "deleted"
        BY DEF Final
    <2>1. CASE row' = row
        BY <2>1
    <2>2. ASSUME NEW g \in File, Create(g) \/ Delete(g)
          PROVE  row'[f] = row[f] \/ row[f] = "none" \/ row'[f] = "deleted"
        BY <2>2 DEF Create, Delete, IInv, TypeInv, DataTypes
    <2>3. ASSUME NEW t \in Thread, Commit(t), row' # row
          PROVE  \/ row'[f] = row[f] \/ row[f] = "PROCESSING"
                 \/ row[f] = "SUCCESS" /\ row'[f] \in {"SUCCESS", "FAIL"} /\ f \in troubled
        <3>1. f # file[t] \/ row[f] = "deleted" => row'[f] = row[f]
            BY <2>3 DEF Commit, Status, IInv, TypeInv, DataTypes
        <3>2. CASE f = file[t] /\ row[f] # "deleted"
            <4>1. Working(t) /\ TaskOf(t, f) /\ Started(f) /\ pc[t] = "commit"
                BY <2>3, <3>2 DEF Commit, IInv, TaskInv, StartedInv, At, Working
            <4>2. \/ row[f] = "PROCESSING"
                  \/ row[f] = "SUCCESS" /\ f \in troubled /\ target[t] = "FAIL"
                BY <3>2, <4>1 DEF TaskOf, At, Fresh, Open, Started, IInv, TypeInv, LocalTypes
            <4>3. row'[f] \in {row[f], target[t]}
                BY <2>3, <3>2 DEF Commit, IInv, TypeInv, DataTypes
            <4> QED
                BY <4>2, <4>3
        <3> QED
            BY <3>1, <3>2
    <2>4. \/ row' = row
          \/ \E g \in File : Create(g) \/ Delete(g)
          \/ \E t \in Thread : Commit(t) /\ row' # row
        BY DEF Next, vars, Submit, Work, Take, Put, Recover, Find, Broadcast, Publish, Retire, Crash
    <2> QED
        BY <2>1, <2>2, <2>3, <2>4
<1> QED
    BY <1>1, Invariance, PTL DEF Spec, StatusIsFinal
=============================================================================
