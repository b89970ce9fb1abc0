# Discodeit in TLA+

Specifications of the backend under `src/main/java/com/sprint/mission/discodeit`: a chat
service (users, channels, messages, files, notifications) with JWT sessions, which runs
either as one instance or as three behind nginx (`application-distributed.yaml`). The two
profiles choose different implementations of the same interfaces:

| interface        | one instance                          | distributed                                   |
|------------------|---------------------------------------|-----------------------------------------------|
| `JwtRegistry`    | `InMemoryJwtRegistry`                 | `RedisJwtRegistry`, with `RedisLockProvider`  |
| `SseService`     | `BasicSseService`, two repositories   | `RedisBasedSseService`, Redis Pub/Sub         |
| events           | Spring events, `@Async` listeners     | Kafka producers and consumers                 |
| caches           | Redis (`CacheConfig`)                 | Redis                                         |

The modules are checked with TLC on small instances and, where it says so, proved with
TLAPS for all values of their constants.

## 1. Inventory

Paths are relative to the package directory above.

| component | state | operations | interacts with | hard behaviour | correct if |
|---|---|---|---|---|---|
| JWT tokens `security/jwt/JwtTokenProvider` | none | generate, validate, expiry | every login and refresh | whole seconds, no identifier: equal tokens | a new pair is new |
| In-memory registry `security/jwt/InMemoryJwtRegistry` | map user -> queue of sessions | register, rotate, invalidate, sweep, lookups | request threads, scheduler | `entrySet().removeIf` is not atomic; check-then-act across `TokenRefreshService` | bounded sessions, rotation final, sweep takes only what expired |
| Redis registry `security/jwt/RedisJwtRegistry`, `redis/RedisLockProvider` | list per user, two token indexes, a lock per user | the same, one Redis command at a time | threads of three instances, schedulers | interleaved commands, a lock with a TTL that anybody deletes, crashes, failing commands | lists and indexes agree, limit, logout ends everything, locks are freed |
| Refresh and logout `service/TokenRefreshService`, `security/jwt/Jwt*Handler`, `controller/AuthController`, `service/basic/BasicAuthService` | none | check, mint, rotate; invalidate, twice on a role change | the registries | the check and the rotation are apart | the pair a client holds works until it is exchanged |
| SSE, one instance `service/basic/BasicSseService`, `repository/Sse*Repository` | list of emitters per user; a deque of event ids and a map of messages | connect, send, broadcast, cleanUp, heartbeat; save, findEventsAfter | request threads, callbacks of emitters, schedulers | ArrayLists shared by threads; two structures updated one after the other; replay after registration | nothing retained is lost or unbounded, a reconnecting client misses nothing |
| SSE, distributed `service/distributed/RedisBasedSseService`, `config/SseRedisConfig` | one emitter per user and instance | connect, send, broadcast, handle*, cleanUp | Redis Pub/Sub | callbacks of an old connection remove the new one; no replay | an open connection is reachable |
| Notifications `event/*Listener`, `event/kafka/*`, `service/basic/BasicNotificationService` | notifications, cache per user, dedup keys | produce, consume, create, read, delete | Kafka, Redis, SSE, DB | redelivery, the dedup key is set before the work, eviction before commit | once per receiver, the cache catches up |
| Files `service/basic/BasicBinaryContentService`, `event/BinaryContentEventListener`, `storage/*` | metadata with a status, the file | create, put with retries, updateStatus, delete | async executor, S3 or disk, SSE | deletion while uploading, retries, a full executor | a status is final and true |
| Users `service/basic/BasicUserService`, `service/UserSessionService`, `config/AdminInitializer`, `service/SocialOAuthService` | users, cache of the list, online map | create, update, delete, role, social login | caches, SSE, files | check-then-insert, eviction before commit, three instances starting at once | unique names, no change lost, an identity keeps its account, somebody is administrator |
| Channels, messages, read statuses `service/basic/Basic{Channel,Message,ReadStatus}Service` | rows with foreign keys | create, update, delete, page through messages | DB, caches, events | cursor of equal timestamps, delete against create, late answers | a client that pages to the end shows everything; no file is orphaned |
| WebSocket `security/websocket/*`, `event/*WebSocket*Listener` | none | authenticate, push after the commit | broker, Kafka | whoever is not subscribed gets nothing | with the pages, nothing is missed |
| Request plumbing: filters, handlers, mappers, DTOs, exceptions, configuration | none | - | - | - | - |

## 2. Plan

Order: what decides who is logged in, then what is delivered to clients, then what is
stored. What is done is described in sections 3 to 8.

1. *Done.* `JwtTokens`, `SessionContract`, `InMemoryJwtRegistry`; proofs in
   `InMemoryJwtRegistryProofs`.
2. *Done.* `RedisJwtRegistry`; proofs in `RedisJwtRegistryProofs`.
3. *Done.* `SseMessageStore`, the log it implements (`SseMessageLog`) and its proofs;
   `BasicSse`, the connections of one instance and the client that reconnects: lists of
   emitters changed by requests, callbacks and the clean-up, and the order of replayed and
   live events.
4. *Done.* `RedisSse`, the emitters of an instance behind Pub/Sub and the callbacks of
   superseded connections. `SseService` has the two as the alternatives they are; the
   proofs for both are in `SseServiceProofs`.
5. *Done but for the caches.* `NotificationPipeline` and its proofs: executor, producer,
   at-least-once topic, dedup key, consumers that crash. Left: the caches of notifications
   and channels, the same mechanism as the list of users in `UserAccounts`.
6. *Done.* `BinaryContentUpload`: metadata, upload with three attempts and recovery, status,
   deletion meanwhile, a full executor; proofs in `BinaryContentUploadProofs`.
7. *Done.* `UserAccounts`: the table of users, social accounts, the cached list, and what
   clients are told; proofs in `UserAccountsProofs`. `ChannelHistory`: a channel's messages,
   their attachments and deletions, the pages of its history and the client that reads
   them; proofs in `ChannelHistoryProofs`.

Each module has one passing run (two for the upload, whose liveness needs fewer files), and
one more for each disagreement with the documentation. What could come next: the caches
of item 5.

## 3. Modules and the code

| module | models | over |
|---|---|---|
| `JwtTokens` | token pairs, their expiry | - |
| `SessionContract` | what `JwtRegistry` promises, abstractly | `JwtTokens` |
| `InMemoryJwtRegistry` | the registry of one instance and the requests that use it | `JwtTokens`, refines `SessionContract` |
| `RedisJwtRegistry` | the registry and the locks of several instances | `JwtTokens` |
| `SseMessageLog` | what `SseMessageRepository` promises, abstractly | - |
| `SseMessageStore` | `SseMessageRepository` | refines `SseMessageLog` |
| `BasicSse` | `BasicSseService`, `SseEmitterRepository`, clients that reconnect | - |
| `RedisSse` | the connections of `RedisBasedSseService` | - |
| `SseService` | the choice between the two (`app.sse.type`) | `BasicSse`, `RedisSse` |
| `NotificationPipeline` | message, Kafka, consumers, notifications (`app.messaging.type: kafka`) | - |
| `BinaryContentUpload` | a file from its commit to its status, `taskExecutor` | - |
| `UserAccounts` | the rows of users and social accounts, the requests that write them, the cached list | - |
| `ChannelHistory` | a channel, its messages and attachments, and a client that pages through it | - |
| `*Proofs` | the theorems of the module they are named after | that module, TLAPS |
| `MC*` | model values and symmetry for TLC | that module |

**Tokens.** `JwtTokenProvider` writes times of whole seconds and no `jti` into a token and
signs deterministically, so two pairs minted for a user within a second are equal: a pair
*is* its user and its second. The in-memory model has the coincidence: `reminted` are the
pairs it happened to, the only ones `RotatedStaysDead` leaves out (section 6), and
`ContractSpec` and the limit leave out none. The runs of `RedisJwtRegistry` exclude it with
the constant `OncePerSecond`; its proofs do not.

**In-memory registry.** `keys` and `queue` are the map `origin`. `compute`,
`computeIfPresent` and `remove` are atomic on a key, so `Register`, `RotateFound`,
`RotateNotFound`, `RotateAbsent` and `Invalidate` are a step each. `StartLogin` and
`StartRefresh` are what a request does before (mint a pair; test the refresh token against
the registry, then mint); other threads run between the two. `entrySet().removeIf` is two
steps, `SweepFindsEmpty` and `SweepRemove`, and the predicate, which builds the queue
anew, is `SweepDrop` per session. `SweepRemove` succeeds only if the queue is still the
same object: `Register` offers to that object in place, a rotation installs another one,
which is why the first leaves the user in `doomed` and the second does not.

`SessionContract` is what the callers may rely on: logins bound the sessions, a refresh
opens none for a user who is not logged in, an invalidation ends all of them, and a sweep
takes away expired ones only. The registry keeps it but for one step, `LoginLost`: the
removal of a key whose queue has got sessions since it was found empty. `late` is history,
the sessions logins put there, and `LoginLost` may take nothing else. `loggedOut` is history
too, the users invalidated since their last login: it keeps the sweep of valid sessions
from passing for an invalidation.

**Redis registry.** Redis serialises commands, and nothing in the code groups them: each
command is an action, named for the method and the command (`LoginSize` LLEN, `LoginPop`
LPOP, `LoginPush` RPUSH, `RefreshRange`, `RefreshSet`, `LogoutRange`, ...), and `pc[w]` is
the next command of a thread. `job[w]` holds the local variables. The private helpers
`AddTokenIndex` and `RemoveTokenIndex` are two commands each. `AcquireLock` is SET NX EX
with the retries of `@Retryable`; `DeleteLock` deletes the key whoever set it, as the code
does. A command that fails has no effect (`Fault`); within the section of the lock, the
`finally` still releases it, and `releaseLock` swallows its own exception. A sweep over
many users is as many sweeps of one user. The seven-day TTL of the keys is left out: it is
that of the longest token in them, renewed by every login and refresh.

**SSE message store.** `log` and `polled` are the deque (it grows at one end and shrinks
at the other), `messages` the keys of the map. `save` is a step per operation of either;
`size()` and the iterator of `ConcurrentLinkedDeque` walk while others write, so
`TooMany` may count anything between what was there all the time and what was there at
some time, and `Advance` skips what has been polled. One replay (`Find`) is under way at a
time: a replay changes nothing that another could see. `SseMessageLog` is what the callers
see of it: a message is saved when its id is added, and a replay is answered when it
returns (`Abstract` is the mapping).

**SSE connections, one instance.** `data` is the map of `SseEmitterRepository`, `conn[c]` an
emitter with its connection and the client's side of it, `task[t]` a thread that sends or
cleans up. The lists are `ArrayList`s, so an operation on one is a beginning and an end
(`AddBegins`, `AddEnds`; `RemoveBegins`, `RemoveEnds`, `Check`, `Unmap`), and `removeIf` is
`Enter`, a `Test` per emitter and `Expunge`. While one operation at a time works on a
list the model says what it does, exceptions included: `removeIf` that sees another
modCount throws (`ExpungeFails`), and so does the write to an emitter that is complete
(`Test` ends in `Stop`), which ends the call for the receivers that are left. When two
overlap, elements may be lost, stay or become null, and the list is `Torn` from then on:
whatever is done with it may have any outcome, and what the properties promise excludes
it. `Open` is where `connect` returns: what was sent before is flushed in the order it
was sent in. `log` is `SseMessageRepository` as one step per call, which may have
forgotten the client's last event (`FindNothing`). That a replay is one step is what
`SseMessageLog` says of it, but for one case: that a client's last event is kept and later
ones are forgotten while they are read takes a thousand messages within one replay,
and is left out here. `Connect` takes over what a client that lost a
connection has and the last event it read. History: `owed`, the receivers of an event
whose sending nothing disturbed; `base`, the place of the log after which the client
should have everything: it moves when the client begins anew, and when it left amid
events that came out of order (`InOrder`), since its last event is then later than one
it has not got.

**SSE connections, distributed.** `localConnections` has one emitter per user. `Callback` and
`SendToEmitterFails` remove the entry of the user and not of the emitter, as
`localConnections.remove(userId)` does; `CleanUp` alone looks at what it removes. `alone`
is history: nothing of an earlier connection of the user was left when this one began,
and no later one has begun.

**Notification pipeline.** `CreateMessage` is the commit of `BasicMessageService.create`
together with the hand-over to `eventTaskExecutor` (which may reject it), `Send` the
producer's listener. A consumer takes a record and claims it in one step (`Claim`: nothing
another actor sees lies between `poll` and SETNX), reads the settings (`FindStatuses`),
and then commits a notification (`Create`) and publishes it (`Push`) per receiver, with
other consumers, changes of settings and failures in between. `Commit` is the return of
the handler and the commit of the offset. `Crash` and `Rebalance` put the record back
before that; `Fault` is an exception caught around the handler, in doubt about the key if
it was SETNX that failed; `PushFails` the one caught in `RedisBasedSseService.send`;
`SendLost` a record that never arrives. Records are taken in any order, as they are
sent without a key and nothing fixes the number of partitions. The listener of the local profile
(`NotificationRequiredEventListener`) is the same loop without the key.

**File upload.** `row[f]` is the metadata, `stored` the S3 bucket or the directory. `Create` is
the commit of whatever request brings the file (on its own, as a profile, as an
attachment), `Submit` the AFTER_COMMIT listener that hands the task to `taskExecutor`: a
thread, the queue, or a rejection that is only logged. A thread goes through
`BinaryContentEventListener.handleBinaryContentCreated` one effect at a time: `Put` per
attempt of S3 (one on disk), `Recover`, then `updateStatus` as `Find`, `Broadcast` and
`Commit`, with a deletion possible between any two. `target` is the status of the update
under way; `Raise` is an exception: out of the `try` it leads to the update to FAIL, out of
the `catch` it ends the task. A failing put may or may not have stored the object, a
commit whose connection breaks may or may not have happened. `Publish` is the event after
FAIL, which the second executor may reject.

**User accounts.** `account` is the table of users, `link` that of social accounts. A request is
a thread that reads and checks (`StartCreate`, `CreateCheck`, ...), tells the clients
(`Tell`: `sseService.broadcast` is called inside of the transaction) and writes when its
transaction commits (`Commit`, or `Save` for the requests that tell nobody: a role, a
social login, the initial administrator). PostgreSQL runs at READ COMMITTED and no row is
locked, so between two steps of a request others commit; what holds in spite of that is
`Fits`, the constraints of `schema.sql`, and `Refused`, a row that does not fit or is gone.
Hibernate updates all columns of a changed entity (there is no `@DynamicUpdate`), so
`Result` has the columns that were not asked for as they were loaded. `@CacheEvict` and
`@Transactional` are on the same methods and nothing orders the two advisors: `evictFirst`
is either, for good, from the start. `MissCache`, `ReadAll` and `PutCache` are
`@Cacheable`. A user also stands for the random username that `ensureUniqueUsername`
makes for it, an update always has a new password, which makes its row a changed one,
and the model has two roles of the code's three: what is told apart is whether somebody
is an administrator. `intent`, `overlapped`, `misled`, `unevicted`, `dismissed` and `overtaken`
are history: they let the properties say what excuses an exception. A thread is `overtaken`
when, since it loaded its row or looked for its username and e-mail, another request has
written that row or given the username or the e-mail to another user; `RefusedIsOvertaken`
says that nothing else makes the table refuse what the service had found allowed.

**Channel history.** `rows` and `files` are the tables of messages and attachments, `channel` the
row of the one channel. Transactions read as they go and write when they commit
(Hibernate flushes then), so `Create` and `Commit` are apart, and so are `Delete` (the messages are loaded), `Announce`
(so are the read statuses, and all clients are told) and `Deleted`; the foreign keys make
a message of a deleted channel fail (`Refuse`) or go with it. `seen` is what a deletion has
*loaded*: both `deleteAllByChannelId` are derived queries, which load the rows and delete them
one by one at the flush, so that a row that has gone meanwhile fails the whole transaction
(`Failed`). A read status goes alone or with its user (`RemoveStatus`). The deletion
removes the attachments of the messages it has seen; the database
cascades from the channel to its messages and read statuses, and not from these to files. `PagesBefore` is
`findAllByChannelId` with a `Slice` ordered by `createdAt` alone: messages of one instant come
in any order, and the cursor is the instant of the last one. `Push` is
`WebSocketRequiredEventListener` after the commit, the listener of the local profile: one
instance, and those who are subscribed to it. The path of the distributed profile is not
modelled (section 8). `reader` is the client's store
(`static/assets/index-*.js`): pages are merged into `messages` (`Receive`), whatever order
the answers come in, and pushes into `newMessages`; both are shown.

## 4. Runs

| run | shows |
|---|---|
| `memory` | the limit is exceeded only by rotations that found nothing to replace; an exchanged pair is dead, whatever the other threads do, unless it was minted twice; every expired session is swept in the end; the registry keeps `SessionContract`, where a sweep takes expired sessions only, but for `LoginLost` |
| `memory_sweep_race` | *violated*: the sweep takes a session that has not expired |
| `redis` | exclusion and the limit with one crash, failing command or lock that expires under its holder; no `EXPIRED` mark outlives the sweep that wrote it; operations end and locks are freed, after a crash too |
| `redis_logout_race` | *violated*: a logout ends all sessions |
| `redis_second_refresh` | *violated*: a refresh hands out a pair that works |
| `sse_store` | deque and map agree, the limit holds, no more than one message per further thread is evicted early, a replay misses nothing; the store implements `SseMessageLog` |
| `sse` | under either implementation: who is connected is heard of, who is over is forgotten, a client that connects again has missed nothing, and one that hears nothing was cut off by another connection of its user; but for torn lists and disturbed sends |
| `notifications` | nobody is notified twice, or of what is not there yet, or against a setting; undisturbed handlers leave nobody out; every record is handled to its end, whatever is delivered twice, crashes or fails |
| `upload_safety` | SUCCESS means stored; a status is final; clients, the administrator and other services are told what is true |
| `upload_liveness` | no file stays PROCESSING unless its task was lost or a call failed |
| `user_accounts` | what a request has found allowed and told clients of is refused only when another request came first; a change that succeeded is stored and known to clients, and the cached list is that of the table, but for the named excuses; an identity keeps its account; an instance that has come up has an administrator |
| `channels` | an attachment is orphaned by a racing deletion of its channel only; an announced deletion of a channel that is there is refused only for a message or read status that was deleted meanwhile; a client that was subscribed and has paged to the end shows every message, in whatever order answers and pushes came, but those of the instant of its first request or of a page's end |

Type invariants are proved (`TypeCorrect` of each module) rather than checked by a run each.

**Mutants.** Every property of a passing run is broken by a mutant of a definition it is
about, kept in the module next to it (`\* MUTANT: ...`): a plausible slip such as a limit
tested too late, a lock taken inside the `try`, a key looked up instead of set. A property
no mutant breaks would not be about the code.

**Bounds.** Time is a clock of two to four seconds, with an access token that lives one
and a refresh token that lives two: enough for minting, expiry and a sweep. Two request
threads, since every hazard found in the code is one thread between two steps of another;
the scheduler comes on top. Limits of one or two sessions, so that logins evict. `MaxMints`
bounds the pairs of the in-memory runs: with four, a queue of two is filled, rotated and
evicted from, and two threads get equal pairs within a second. These have one user, since
users share nothing but the walk of the sweep; the proofs have any number.
`MaxAttempts` is two for the code's ten: a retry and the last retry are what differ.
One mishap in `redis`, of any kind: the proofs, which bound none of them, cover their
combinations. The store has a limit of two for four messages, so
that both threads evict and a replay has something before, at and after its event. In the
pipeline, three users (an author, one receiver who changes a setting, one who does not),
two consumers, and three mishaps: a redelivery, something going wrong with it, and again.
One message, since messages meet in busy consumers only; the proofs have any number. Four
files, for an executor that has room for three: one of its thread, one in the queue, one
of the second thread, and one is rejected. Two attempts for the code's three, one mishap;
`upload_liveness` has two files, as a rejected one is excused there anyway. Two users and
two threads in `user_accounts`, with two names and e-mails, one of each the
administrator's, so that every check can pass and fail; four requests are two that make
accounts and two that meet on one.

In `sse`, two users, so that one call has a receiver before and after the one it fails at;
two connections, so that one can follow another of its user or meet it in the list; two
events, so that they can come out of order; one sending thread, which the requests and
callbacks interleave with (2.0 million states; one user with two sending threads, 6.4
million, was checked as well). In `channels`, two messages and pages of one, so that there
is a second page and a cursor, three instants, one read status and one deletion of the
channel, which meets what becomes of these meanwhile (2.2 million states); deletions that
meet each other are in the proofs. The proofs bound none of this.

Eight runs turn TLC's deadlock check off, each for a bound of the model: in `redis` and
`redis_second_refresh` the clock ends and nothing can be minted, in `notifications` every
message has been handled, in the two of the upload every file, in `user_accounts` all
requests have been made, in `sse` all connections are over and all events sent, and in
`channels` all messages are made and all pages read.

## 5. Fairness

- `WF(Step(w))` of a Redis thread: a thread that runs executes its next command. Starting
  an operation, crashing and failing are not fair.
- `WF(OrphanExpires(u))`: Redis expires a key with a TTL (`LOCK_TIMEOUT`).
- `SF(SweepDrop(p))`, `WF(SweepRemove(u))` of the in-memory registry: `@Scheduled` runs the
  sweep every five minutes for ever, each pass tests every session that stays in a queue
  throughout it, and no request can make it wait. It is strong because between two passes
  a rotation may replace the queue the sweep was at.
- `WF(Send(m))`, `WF(Handle(c))` of the pipeline: the executor's threads run, and a consumer
  goes on after its restart. Lost sends, crashes, exceptions, rebalances and expiring keys
  are possible and not fair. A `SendLost` is the one thing that excuses a message.
- `WF(Submit(f))`, `WF(Work(t))` of the upload: a committed request reaches its listener, and
  threads run. Mishaps and crashes are not fair, and excuse the files they hit, as a
  rejection does.

Nothing is assumed of users: no login, refresh or message ever has to happen.

## 6. Where the code differs from what is said of it

Found by a run that must fail:

1. `memory_sweep_race`. `JwtRegistry.java:39` says that the sweep deletes what has expired.
   `removeIf` of a `ConcurrentHashMap` tests, then removes the key if the value is the same
   object; a login in between adds to that object, and goes with it.
2. `redis_logout_race`. `JwtRegistry.java:14` says that an invalidation ends all sessions of
   the user. It takes no lock: a login between its RPUSH and its SADDs loses its list entry
   and keeps its tokens.
3. `redis_second_refresh`. `JwtRegistry.java:34`: a rotation replaces the pair.
   `RedisJwtRegistry.java:129` stores the old pair again, so the second refresh finds
   nothing, and hands out tokens that no index has. A logout after a refresh leaves
   the rotated tokens accepted for the same reason.

Seen while modelling, without a run:

- The sweeps drop a session when *either* token has expired, so a refresh token lives as
  long as the access token (an hour), not the seven days of `application.yaml:95`. The
  property is `jwt.refresh-token-expiration-days` in `JwtTokenProvider.java:36` and
  `jwt.refresh-expiration-days` in the file; the default of the one is the value of the other.
- The Redis sweep overwrites and deletes by positions of an earlier LRANGE
  (`RedisJwtRegistry.java:163`, `:172`): a session pushed meanwhile can go although it has
  not expired. It is the disagreement of the first run again.
- A rotation that finds nothing to replace adds a session beyond the limit until the next
  login (`ExcessIsUnmatched` says by how many).
- Two pairs minted within a second are one: the exchange of such a pair takes both away, and
  when the second is minted after the first was exchanged, the exchanged one is accepted
  again, against `JwtInformation.java:15` ("replaced by new tokens"). `RotatedStaysDead` leaves
  these pairs out by name.
- A replay whose last event has been evicted returns nothing, although later messages are
  kept, and a replay contains messages that were addressed to others.
- The key that keeps a message from being notified twice is set before the work
  (`KafkaNotificationEventListener.java:47`), so after a crash or an exception in the loop
  the rest of the receivers get nothing. `UndisturbedIsComplete` promises completeness for
  messages without such a mishap.
- A file whose upload task is rejected or dies with the instance stays PROCESSING for ever:
  nothing looks for such files (`BinaryContentEventListener.java:25` is their only chance).
- `updateStatus` broadcasts before its transaction commits (`BasicBinaryContentService.java:99`):
  when the commit fails, clients have heard SUCCESS and then hear FAIL, of a file that is stored.
- The bytes of a deleted file stay in the storage, and are even stored after the deletion.
- Role changes notify nobody: `RoleUpdatedEvent` is published by `BasicUserService.updateRole`,
  which has no caller. `AuthController` uses `BasicAuthService.updateUserRole`, which
  publishes nothing and evicts no cache.
- A profile update writes all columns as they were loaded (`BasicUserService.java:193`), so it
  undoes a role change that was committed meanwhile, and the other way round.
- An update looks for its name and e-mail among all users, its own included
  (`BasicUserService.java:161`): a name cannot be kept by sending it again.
- Clients hear of a user before the commit (`BasicUserService.java:105`), which may refuse the
  row: they then show a user, or a name, that does not exist.
- The cached list of users outlives the changes of roles, social logins and the initial
  administrator for up to ten minutes: these evict nothing. `RedisJwtRegistry.java:40` evicts
  the key `'all'` of that cache, and the list is not under that key.
- When nobody is an administrator but the name or the e-mail of the initial one is taken,
  no instance can start: the insert is refused at every start.
- The client reconnects with its last event as the query parameter `lastEventId`;
  `SseController.java:28` reads the header `Last-Event-ID`. The model has the client the
  server is written for.
- An emitter that is complete throws `IllegalStateException`, which `BasicSseService` does not
  catch: the receivers after it get nothing of that event. So does `removeIf` when a request
  or callback has changed the list meanwhile (`ConcurrentModificationException`).
- Events missed are sent after the emitter is in the list (`BasicSseService.java:69`): a newer one can
  come first, and a client that loses its connection in between asks for what is after it.
- In `RedisBasedSseService` (lines 52 and 146) the callback, or a failed send, of a connection
  that was replaced removes the new one: the client stays connected and hears nothing.
- A message committed while its channel is being deleted, after the deletion has loaded
  the messages, goes by the cascade and leaves its attachments behind
  (`BasicChannelService.java:196`).
- A message or a read status that a deletion of the channel has loaded and that goes before
  the commit makes the commit fail (`BasicChannelService.java:197`): the channel stays, and all
  clients have been told that it is deleted (`:203`).
- Under the distributed profile no message is pushed. `DistributedWebSocketEventListener.java:32`
  sends the event itself through the template of `KafkaConfig.java:59`, whose serializer takes
  strings (`:47`); the send throws, and the exception is logged (`:35`). The comment at `:31`
  says that every instance gets the event.
- Messages of one instant are passed over when a page ends amid them: the cursor asks for
  what is strictly earlier (`BasicMessageService.java:130`).

## 7. Theorems

TLAPS proves these for all values of the constants, from the assumptions named in the
modules (`TimeAssumption`, `RegistryAssumption`, `RedisAssumption`, `WorkerAssumption`,
`MarkAssumption`, `StoreAssumption`, `BasicSseAssumption`, `SseServiceAssumption`, `PipelineAssumption`,
`UploadAssumption`, `AccountsAssumption`, `ChannelHistoryAssumption`: sorts of the constants,
positive limits, and that the values for "nobody", "nothing" and the mark of an expired
session are not members of the sets they stand beside).

*In-memory registry* (`InMemoryJwtRegistryProofs`).
- `TypeCorrect`. `TypeInv` adds to `TypeOK` that a thread between two steps carries a minted
  pair and that no pair is of the future.
- `SessionsBounded`: `ExcessIsUnmatched`, inductive given `TypeInv`. The arithmetic is in
  `MakeRoomLemma`.
- `RotationIsFinal`: `RotatedStaysDead`, without an assumption about the clock. Not inductive: a
  thread could carry a pair some queue had before. `RotationInv` adds that a carried pair which
  was minted once is in no queue, with no other thread, and was never rotated.
- `ImplementsContract`: every step of the registry is a step of `SessionContract`, a stutter, or
  `LoginLost`, under the mapping of `Contract` (a queue maps to the set of its sessions). It
  needs `LateInv`: what is in the queue of a doomed user, logins put there since it was found
  empty. Rotations do not, as they install a queue that the removal does not match.

*Redis registry* (`RedisJwtRegistryProofs`).
- `TypeCorrect`, with `Locals`: what the local variables of a thread hold at each command.
- `LockExcludes`. Exclusion is not inductive, since a release deletes whoever's key; what is,
  is `LockHeld`: as long as no lock has expired under its holder, a thread in its section is
  the one that set the lock.
- `SessionsLimited`. `LimitInv` adds that a login that saw room still has it when it pushes;
  only another push could take it, and `LockHeld` keeps that one out. Logouts and sweeps,
  which take no lock, and crashes and failures only shorten lists.
- `MarksGoWithSweeps` from `MarkInv`: the marks of a list are no more than the sweeps between their
  two commands. `LSET` adds one of each, `LREM` takes all of the former, and what others do to
  the list leaves its marks or removes some; that a session is never taken for a mark is
  `MarkAssumption`.

*Message store* (`SseMessageStoreProofs`).
- `TypeCorrect`; `QueueStored` and `StoredQueued` from `IdInv` (an id is added once, and
  removed from the map only by the thread that polled it).
- `StoreBounded` from `BoundInv`: while there are too many, some thread is going to count
  again, and will not be wrong about it.
- `NewestRetained` from `PollInv`: beyond any level, a thread polls once before it counts.
- `ReplayComplete` from `ReplayInv` and `GapInv`: what lies between the elements the iterator
  has passed has been polled.
- `ImplementsLog`: every step is a step of `SseMessageLog` or a stutter (`LogStep`). An addition
  is the save, a poll forgets (allowed by `PollInv`, with `NewestAreRetained` of the state after
  it), and `Return` answers. `AnswerInv` gives the answer its instant: at any time there is
  an index before which the loop has dealt with everything, so that the result is what
  the log had between the message asked by and that index, but for what was polled; and
  as long as that message has not been found it is behind the index, or polled. So a
  message that is kept is always found, which `ReplayComplete` alone does not say.

*SSE connections* (`SseServiceProofs`). The invariants are of `SseSpec`: while one
implementation runs, the other's variables do not change.
- `TypeCorrect`, of both.
- `SilentAreExplained` from `EntryInv` (an entry, and what a handler has read, is a connection
  of the user it is under, and an entry's callbacks are still to come) and `AloneInv`: while a
  connection is `alone`, every other one of its user is closed and in no handler's hands, so
  nobody removes its entry.
- `QuietConnectsAreListed` and `OversAreForgotten` are two sides of `ListInv`. While a connection is
  being added or removed its user has a list, and one about to be forgotten is empty
  (`UnderWayInv`); a list has connections of its user only, which were added and not removed
  (`MemberInv`); a client is gone only after its response began (`GoneInv`); and while the list
  that a thread walks did not change, the elements it found to fail are where they were
  and their clients are gone (`WalkInv`), so that expunging them takes nobody who reads.
  `BecomesLemma` and `WithoutLemma` say what an operation leaves.
- `NothingSkipped` from `SkipInv`, which says of an event owed to a client where it is. A client
  that will come back has all up to its last event (`WholeInv`), since that event is all it
  will ask by. One that is connected and listed has it, or has it waiting for the response
  (`WaitInv`), or is still to ask for it, or a thread has the client ahead of it in its walk
  (`ReachInv`). While an event is being sent, what it is still owed for is an undisturbed walk
  over a list that did not change (`OwedInv`, `WalkerInv`), and an event is saved once
  (`LogInv`). Every way a call is disturbed takes the event from those it is owed to
  (`DisturbLemma`), so the steps that remain are those that hand it on.

*Pipeline* (`NotificationPipelineProofs`). `FlowInv` is the type invariant with what is on its
way having been committed.
- `OnceOnly` from `OnceInv`: before the key is set nobody works on the message; from then on
  one consumer does, and has done nothing for the receivers it has left but the notification
  it is about to push.
- `CreatedBeforePushed` from `PushInv`.
- `EnabledHear` from `SettingsInv`, which ties the history to the settings, and `HearInv`.
- `Complete` from `ClaimedInv` and `DoneInv`: unless something went wrong with its handlers, a
  claimed message is in somebody's hands or everybody owed a notification has it, and the
  hands pass nobody over.

*Upload* (`BinaryContentUploadProofs`). One invariant, `IInv`, carries all of it: `PlaceInv`, a
file is with one event, in one place of the queue or with one thread; `WaitingInv`, nothing
has been decided about a file before a thread has it; `TaskInv`, what is known of a file at
each point of its thread; `OutcomeInv`, what is promised. `MoveLemma` and `OneFile` say once
what a step does to other threads and files. `SuccessStored`, `HeardTrue`, `AdminTold`,
`AlarmRecorded` and the action property `StatusFinal` follow.

*User accounts* (`UserAccountsProofs`). `TypeInv` is the type invariant with `LocalInv`, what a
request has at each point, and `DrawnInv`, that a row not written yet is known to one
thread. `NextCases` sorts the steps of a request once into those that write a row
(`Written`) and those that do not (`Quiet`).
- `RefusedAreOvertaken` from `SureInv`: a request that was not overtaken has its row as it is
  stored, and once it has looked, its username and e-mail are free. Every write of another
  request leaves that so, or overtakes it (`SureLemma`); the steps that look make it so.
- `LinksAreLive` and the action property `IdentitiesStay` follow from what the table refuses,
  whatever was checked before.
- `ChangesAreStored` from `LoadedInv`: until two writers meet on a row, each has it as it is.
- `ClientsSeeTheTable` from `ToldInv`: when one request alone has told the clients of a user, they
  know what it is to write. Of two, the first to end makes the user an excused one.
- `StaleListsAreExplained` is inductive.
- `InstancesHaveAdmin` from `AdminInv`: somebody has been an administrator whenever a request
  under way has loaded the row, so no update written back makes it a user again; or no
  instance has come up and nobody has ever been one.

*Channel history* (`ChannelHistoryProofs`). `EarliestLemma` (a finite page has an earliest
instant) and `PageLemma` say what a page is.
- `TypeCorrect`; `OrphansAreRaced`, which is inductive with the types.
- `AnnouncedAreGone` from `MissingIsRemoved`: of the messages and read statuses a deletion has
  loaded, those that are gone were deleted one by one while the channel is there.
- `AllAreShown` from `PagingInv`: every message is accounted for (in the client's hands, still
  to be pushed, or excused), or it is before every cursor the client could go on from, that
  of the pagination and those of the answers that are on their way. `OrderInv` ties the
  instants to the clock and the client's state to what it has asked for.

Only model-checked: liveness (`ExpiredIsSwept`, `OperationsEnd`, `LockIsFreed`,
`EventsSettle`, `UploadsEnd`), which is out of the prover's reach, and the three violations.
Every invariant and action property of the passing runs has a theorem, and so have the
refinements of the contract and of the log.

## 8. Not modelled

- The caches of notifications and channels (item 5): `@Cacheable` and `@CacheEvict` as on the list
  of users, whose model and `StaleIsExplained` carry over with other keys.
- Making and changing channels, changing messages, and the times of last reading: a row
  each, written by one transaction that nothing else depends on.
- The push of the distributed profile (`DistributedWebSocketEventListener`): as the code is, its
  events do not get to the topic (section 6). If they did, each instance would read them
  all, since `KafkaConfig.java:67` gives it a group of its own, and push to its subscribers;
  `Push` would be a step per instance.
- `UserSessionService`: a map of last activities per instance, for display only.
- What `RedisBasedSseService` sends and its way over Redis Pub/Sub: there is neither a
  store nor a replay, so an event reaches whoever has an entry, or nobody.
- The WebSocket interceptor: stateless, it authenticates a connection.
- The JavaScript bundle under `static/assets` is a build output: React and other libraries and
  styles, minified, with the application on a few long lines. Of it `ChannelHistory` models
  the store of messages and the subscription of a channel's view.
- Controllers, filters, mappers, DTOs, exceptions and configuration: no state of their own.
- In what is modelled: signatures and claims of tokens, cookies and HTTP statuses, the TTL
  of the session keys in Redis, a Redis that loses its data, batches of more than one
  record, the eviction of the notification cache inside `create`,
  the topics of roles and of failed uploads, passwords and profile pictures of users (the
  picture's file is one of `BinaryContentUpload`), and `updateRole`, `refreshUserListCache`
  and `clearUserRelatedCaches` of `BasicUserService`, which have no caller.
