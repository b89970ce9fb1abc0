-------------------------- MODULE BinaryContentUpload --------------------------
(***************************************************************************)
(* A file on its way into the storage.  The request that creates it (as a  *)
(* profile, an attachment or on its own) only commits its metadata, with   *)
(* status PROCESSING, and publishes BinaryContentCreatedEvent; a thread of *)
(* taskExecutor uploads it after the commit and updates the status, in a   *)
(* transaction of its own that tells all clients before it commits.  The   *)
(* executor is bounded, the upload fails and is retried, the file may be   *)
(* deleted meanwhile (its user or message is, or the profile is replaced), *)
(* the instance may die.                                                   *)
(***************************************************************************)
EXTENDS Naturals, Sequences, FiniteSets

CONSTANTS
    File,
    Thread,          \* maxPoolSize threads of taskExecutor
    CorePoolSize,
    QueueCapacity,
    MaxAttempts,     \* @Retryable(maxAttempts) of S3BinaryContentStorage.put
    MaxMishaps       \* bound: crashes and failing calls of the database or SSE

NoFile == "none"

ASSUME UploadAssumption ==
    /\ IsFiniteSet(Thread)
    /\ CorePoolSize \in Nat /\ QueueCapacity \in Nat
    /\ MaxAttempts \in Nat \ {0} /\ MaxMishaps \in Nat
    /\ NoFile \notin File

VARIABLES
    backend,     \* discodeit.storage.type
    row,         \* status of each file's metadata, if there are any
    stored,      \* files whose bytes are all in the storage
    published,   \* events of committed transactions not yet submitted
    queue,       \* tasks in the queue of taskExecutor
    pc, file,    \* per thread: where it is, and the file it uploads,
    target,      \* the status it is about to set,
    tries,       \* and how often put has failed
    heard,       \* the last status clients were told of each file
    told,        \* notifications of the administrator, per file
    alarms,      \* files with an S3UploadFailedEvent
    mishaps,
    \* What has happened, for the properties:
    lost,        \* files whose task was rejected or died with the instance
    troubled     \* files with a failing call of the database or SSE

pool  == <<queue, pc, file, target, tries>>
tells == <<heard, told, alarms>>
vars  == <<backend, row, stored, published, pool, tells, mishaps, lost, troubled>>

Status == {"PROCESSING", "SUCCESS", "FAIL"}

Init ==
    /\ backend \in {"s3", "local"}
    /\ row = [f \in File |-> "none"]
    /\ stored = {} /\ published = {}
    /\ queue = <<>>
    /\ pc = [t \in Thread |-> "none"]
    /\ file = [t \in Thread |-> NoFile]
    /\ target = [t \in Thread |-> "SUCCESS"]
    /\ tries = [t \in Thread |-> 0]
    /\ heard = [f \in File |-> "none"]
    /\ told = [f \in File |-> 0]
    /\ alarms = {}
    /\ mishaps = 0
    /\ lost = {} /\ troubled = {}

-----------------------------------------------------------------------------
(* Requests.                                                               *)

\* The transaction that creates the file commits.
Create(f) ==
    /\ row[f] = "none"
    /\ row' = [row EXCEPT ![f] = "PROCESSING"]
    /\ published' = published \cup {f}
    /\ UNCHANGED <<backend, stored, pool, tells, mishaps, lost, troubled>>

\* BasicBinaryContentService.delete, or orphanRemoval and cascades of User.profile
\* and Message.attachments.  The bytes stay in the storage.
Delete(f) ==
    /\ row[f] \in Status
    /\ row' = [row EXCEPT ![f] = "deleted"]
    /\ UNCHANGED <<backend, stored, published, pool, tells, mishaps, lost, troubled>>

-----------------------------------------------------------------------------
(* taskExecutor.                                                           *)

Pool == {t \in Thread : pc[t] # "none"}

Run(t, f) ==
    /\ pc' = [pc EXCEPT ![t] = "put"]
    /\ file' = [file EXCEPT ![t] = f]

\* A new thread runs the event's task while there are fewer than CorePoolSize, or
\* when the queue is full; with all threads there and the queue full it is rejected,
\* and the exception of an AFTER_COMMIT listener is only logged.
Submit(f) ==
    /\ f \in published
    /\ published' = published \ {f}
    /\ \/ /\ \/ Cardinality(Pool) < CorePoolSize
             \/ Len(queue) >= QueueCapacity
          /\ \E t \in Thread \ Pool : Run(t, f)
          /\ UNCHANGED <<queue, lost>>
       \/ /\ Cardinality(Pool) >= CorePoolSize
          /\ Len(queue) < QueueCapacity
          /\ queue' = Append(queue, f)
          /\ UNCHANGED <<pc, file, lost>>
       \/ /\ Cardinality(Pool) >= CorePoolSize
          /\ Len(queue) >= QueueCapacity /\ Pool = Thread
          /\ lost' = lost \cup {f}
          /\ UNCHANGED <<queue, pc, file>>
    /\ UNCHANGED <<backend, row, stored, target, tries, tells, mishaps, troubled>>

Take(t) ==
    /\ pc[t] = "idle" /\ queue # <<>>
    /\ Run(t, Head(queue))
    /\ queue' = Tail(queue)
    /\ UNCHANGED <<backend, row, stored, published, target, tries, tells, mishaps, lost, troubled>>

\* A thread beyond CorePoolSize that has waited for a task too long.
Retire(t) ==
    /\ pc[t] = "idle" /\ queue = <<>>
    /\ Cardinality(Pool) > CorePoolSize
    /\ pc' = [pc EXCEPT ![t] = "none"]
    /\ UNCHANGED <<backend, row, stored, published, queue, file, target, tries, tells,
                   mishaps, lost, troubled>>

-----------------------------------------------------------------------------
(* BinaryContentEventListener.handleBinaryContentCreated in thread t.      *)

Goto(t, p) == pc' = [pc EXCEPT ![t] = p] /\ UNCHANGED <<file, target, tries>>

Finish(t) ==
    /\ pc' = [pc EXCEPT ![t] = "idle"]
    /\ file' = [file EXCEPT ![t] = NoFile]
    /\ target' = [target EXCEPT ![t] = "SUCCESS"]
    /\ tries' = [tries EXCEPT ![t] = 0]

\* MUTANT: the catch only logs
RaiseLogs(t) == Finish(t)

\* MUTANT: the failure is announced although it could not be recorded
RaisePublishes(t) ==
    IF target[t] = "SUCCESS"
    THEN /\ target' = [target EXCEPT ![t] = "FAIL"]
         /\ pc' = [pc EXCEPT ![t] = "find"]
         /\ UNCHANGED <<file, tries>>
    ELSE Goto(t, "publish")

\* MUTANT: a failing task is tried again from the start
RaiseRetries(t) ==
    IF target[t] = "SUCCESS"
    THEN /\ target' = [target EXCEPT ![t] = "FAIL"]
         /\ pc' = [pc EXCEPT ![t] = "find"]
         /\ UNCHANGED <<file, tries>>
    ELSE /\ target' = [target EXCEPT ![t] = "SUCCESS"]
         /\ pc' = [pc EXCEPT ![t] = "put"]
         /\ tries' = [tries EXCEPT ![t] = 0]
         /\ UNCHANGED file

\* An exception: within the try the status becomes FAIL; within the catch it ends
\* the task.
Raise(t) ==
    IF target[t] = "SUCCESS"
    THEN /\ target' = [target EXCEPT ![t] = "FAIL"]
         /\ pc' = [pc EXCEPT ![t] = "find"]
         /\ UNCHANGED <<file, tries>>
    ELSE Finish(t)

\* MUTANT: put logs the last exception and returns
PutSwallows(t) ==
    /\ pc[t] = "put"
    /\ \/ stored' = stored \cup {file[t]} /\ Goto(t, "find")
       \/ UNCHANGED stored /\ Goto(t, "find")
    /\ UNCHANGED <<backend, row, published, queue, tells, mishaps, lost, troubled>>

\* MUTANT: @Recover of every attempt
PutRecovers(t) ==
    /\ pc[t] = "put"
    /\ \/ /\ stored' = stored \cup {file[t]}
          /\ Goto(t, "find")
          /\ UNCHANGED told
       \/ /\ told' = [told EXCEPT ![file[t]] = @ + 1]
          /\ tries[t] + 1 < MaxAttempts
          /\ tries' = [tries EXCEPT ![t] = @ + 1]
          /\ UNCHANGED <<stored, pc, file, target>>
       \/ /\ Raise(t)
          /\ UNCHANGED <<stored, told>>
    /\ UNCHANGED <<backend, row, published, queue, heard, alarms, mishaps, lost, troubled>>

\* An attempt of storage.put.  In S3 a failing one may have stored the object, and
\* it is made again; the local storage makes one.
Put(t) ==
    /\ pc[t] = "put"
    /\ \/ /\ stored' = stored \cup {file[t]}
          /\ Goto(t, "find")
       \/ /\ backend = "s3"
          /\ stored' \in {stored, stored \cup {file[t]}}
          /\ tries' = [tries EXCEPT ![t] = @ + 1]
          /\ pc' = [pc EXCEPT ![t] = IF tries[t] + 1 < MaxAttempts THEN "put" ELSE "recover"]
          /\ UNCHANGED <<file, target>>
       \/ /\ backend = "local"
          /\ Raise(t)
          /\ UNCHANGED stored
    /\ UNCHANGED <<backend, row, published, queue, tells, mishaps, lost, troubled>>

\* A call of the database or of SSE fails, on behalf of f.
Trouble(f) ==
    /\ mishaps < MaxMishaps
    /\ mishaps' = mishaps + 1
    /\ troubled' = troubled \cup {f}

\* recoverPut notifies the administrator, if it can, and throws.
Recover(t) ==
    /\ pc[t] = "recover"
    /\ \/ /\ told' = [told EXCEPT ![file[t]] = @ + 1]
          /\ UNCHANGED <<mishaps, troubled>>
       \/ /\ Trouble(file[t])
          /\ UNCHANGED told
    /\ Raise(t)
    /\ UNCHANGED <<backend, row, stored, published, queue, heard, alarms, lost>>

\* updateStatus looks the file up, ...
Find(t) ==
    /\ pc[t] = "find"
    /\ \/ /\ row[file[t]] \in Status
          /\ Goto(t, "broadcast")
          /\ UNCHANGED <<mishaps, troubled>>
       \/ /\ row[file[t]] = "deleted"
          /\ Raise(t)
          /\ UNCHANGED <<mishaps, troubled>>
       \/ /\ Trouble(file[t])
          /\ Raise(t)
    /\ UNCHANGED <<backend, row, stored, published, queue, tells, lost>>

\* MUTANT: the status before the update is sent
BroadcastOld(t) ==
    /\ pc[t] = "broadcast"
    /\ heard' = [heard EXCEPT ![file[t]] = row[file[t]]]
    /\ Goto(t, "commit")
    /\ UNCHANGED <<backend, row, stored, published, queue, told, alarms, mishaps, lost, troubled>>

\* ... tells the clients, whose failure is caught, ...
Broadcast(t) ==
    /\ pc[t] = "broadcast"
    /\ \/ /\ heard' = [heard EXCEPT ![file[t]] = target[t]]
          /\ UNCHANGED <<mishaps, troubled>>
       \/ /\ Trouble(file[t])
          /\ UNCHANGED heard
    /\ Goto(t, "commit")
    /\ UNCHANGED <<backend, row, stored, published, queue, told, alarms, lost>>

\* ... and commits.  The update of a row deleted since fails.  When the connection is
\* lost at the commit, nobody knows whether it has happened.
Commit(t) ==
    LET f == file[t]
        updated == [row EXCEPT ![f] = IF @ \in Status THEN target[t] ELSE @] IN
    /\ pc[t] = "commit"
    /\ \/ /\ row[f] \in Status
          /\ row' = updated
          /\ IF target[t] = "SUCCESS" THEN Finish(t) ELSE Goto(t, "publish")
          /\ UNCHANGED <<mishaps, troubled>>
       \/ /\ row[f] = "deleted"
          /\ Raise(t)
          /\ UNCHANGED <<row, mishaps, troubled>>
       \/ /\ Trouble(f)
          /\ row' \in {row, updated}
          /\ Raise(t)
    /\ UNCHANGED <<backend, stored, published, queue, tells, lost>>

\* After FAIL, S3UploadFailedEvent, which eventTaskExecutor may reject.
Publish(t) ==
    /\ pc[t] = "publish"
    /\ alarms' \in {alarms, alarms \cup {file[t]}}
    /\ Finish(t)
    /\ UNCHANGED <<backend, row, stored, published, queue, heard, told, mishaps, lost, troubled>>

Work(t) ==
    \/ Take(t) \/ Put(t) \/ Recover(t)
    \/ Find(t) \/ Broadcast(t) \/ Commit(t) \/ Publish(t)

-----------------------------------------------------------------------------
\* The instance dies with the tasks it has, and starts anew.
Crash ==
    /\ mishaps < MaxMishaps
    /\ mishaps' = mishaps + 1
    /\ lost' = lost \cup published \cup {queue[i] : i \in DOMAIN queue}
                    \cup {f \in File : \E t \in Thread : file[t] = f}
    /\ published' = {}
    /\ queue' = <<>>
    /\ pc' = [t \in Thread |-> "none"]
    /\ file' = [t \in Thread |-> NoFile]
    /\ target' = [t \in Thread |-> "SUCCESS"]
    /\ tries' = [t \in Thread |-> 0]
    /\ UNCHANGED <<backend, row, stored, tells, troubled>>

Next ==
    \/ \E f \in File : Create(f) \/ Submit(f) \/ Delete(f)
    \/ \E t \in Thread : Work(t) \/ Retire(t)
    \/ Crash

Spec == Init /\ [][Next]_vars

\* A request submits its event, and the threads go on.
FairSpec ==
    /\ Spec
    /\ \A f \in File : WF_vars(Submit(f))
    /\ \A t \in Thread : WF_vars(Work(t))

-----------------------------------------------------------------------------
TypeOK ==
    /\ backend \in {"s3", "local"}
    /\ row \in [File -> Status \cup {"none", "deleted"}]
    /\ stored \subseteq File /\ published \subseteq File
    /\ queue \in Seq(File) /\ Len(queue) <= QueueCapacity
    /\ pc \in [Thread -> {"none", "idle", "put", "recover", "find", "broadcast", "commit", "publish"}]
    /\ file \in [Thread -> File \cup {NoFile}]
    /\ target \in [Thread -> {"SUCCESS", "FAIL"}]
    /\ tries \in [Thread -> 0 .. MaxAttempts]
    /\ heard \in [File -> Status \cup {"none"}]
    /\ told \in [File -> Nat]
    /\ alarms \subseteq File
    /\ mishaps \in Nat
    /\ lost \subseteq File /\ troubled \subseteq File

\* SUCCESS says that the bytes can be read, whatever failed on the way there.
SuccessIsStored == \A f \in File : row[f] = "SUCCESS" => f \in stored

\* A status that was reached stays until the file is deleted, with one exception:
\* the SUCCESS of a commit that was reported as failed gives way to FAIL.
Final ==
    \A f \in File :
        /\ row[f] = "SUCCESS" => row'[f] \in {"SUCCESS", "deleted"}
                                    \/ (row'[f] = "FAIL" /\ f \in troubled)
        /\ row[f] = "FAIL" => row'[f] \in {"FAIL", "deleted"}
        /\ row[f] = "deleted" => row'[f] = "deleted"
StatusIsFinal == [][Final]_vars

\* The status clients were told last is that of the file once it has been reached,
\* unless a call failed: they are told before the commit, and twice if it fails.
HeardIsStatus ==
    \A f \in File \ troubled : row[f] \in {"SUCCESS", "FAIL"} => heard[f] = row[f]

\* The administrator is notified once of an upload to S3 that was given up, however
\* often it was tried, and of nothing else.
AdminIsTold ==
    \A f \in File :
        /\ told[f] <= 1
        /\ told[f] = 1 => row[f] # "SUCCESS"
        /\ f \notin troubled /\ backend = "s3" /\ row[f] = "FAIL" => told[f] = 1

\* A failure is announced to other services only if it is on record.
AlarmIsRecorded == \A f \in alarms : row[f] \in {"FAIL", "deleted"}

\* No file stays in PROCESSING, unless its task never ran to its end or a call failed.
UploadsEnd ==
    \A f \in File : row[f] = "PROCESSING" ~> (row[f] # "PROCESSING" \/ f \in lost \cup troubled)
=============================================================================
