# bts-soft in TLA+

This directory is the verification project of the `bts-soft` monorepo: TLA+ models of the
parts of it where several actors meet (callers, workers, Redis, a queue, the clock), TLC
configurations that check them on small instances, and theorems that TLAPS proves for every
instance.

## 1. The system

`bts-soft` is a set of NestJS packages. Most of their code shapes requests or forwards to a
driver; the logic that can go wrong between two steps is in the parts below.

| Component | State it keeps | Operations | Talks to |
|---|---|---|---|
| notifications: `NotificationService` | none of its own; Redis keys `notif:dedup:*`, `notif:rl:*`, `notif:pref:*`; BullMQ jobs; log rows | `send`, `sendBulk` | Redis, BullMQ, log repository, observers |
| notifications: `NotificationProcessor` | the run in progress | `process` (RETRYING, preProcess, provider call, SENT / FAILED / EXPIRED, callbacks) | BullMQ, log repository, channels, observers |
| notifications: log repository | the list of rows | `create`, `updateByJobId`, finders | service and processor |
| notifications: channels, providers, templates, configuration | clients made at start | `send` of 13 channels and 7 mail, SMS and in-app providers | HTTP, SMTP and SDK clients |
| notifications: Telegram account linking | `telegramLinkToken`, `telegram_chat_id` of the user rows | `generateTelegramLinkToken`, `handleWebhook` | the application's user repository, Telegram, `NotificationService` |
| common: `DistributedLockService` with cache: `LockRedisService` | a Redis key with a ttl, or a `Map` with timers | `executeWithLock`, `acquire`, `release`, `extendLock`, `waitForLock` | Redis |
| common: `IdempotencyInterceptor` | response and lock keys in Redis, a `Map` as fallback | `intercept` | Redis, the handler |
| common: `IdGenerator` | `lastTimestamp`, `sequence`, `workerId` | `generate` | the clock |
| cache: core, transactions, pub/sub | keys in Redis; the connection's WATCHes; the subscriber client | `update`, `getOrSet`, `delByPattern`, `withTransaction`, `multiExecute`, `publish`, `subscribe` | Redis on one shared connection, and a second one for subscriptions |
| cache: data-structure wrappers, facade, health | keys in Redis | strings, lists, hashes, sets, sorted sets, streams, geo, HyperLogLog, bitmaps | Redis |
| upload: chunked upload, job store, queue, processor, webhook | chunk files, merged file, job records, BullMQ jobs, URL cache | `initiateUpload`, `uploadChunk`, `process`, `handleCloudinaryWebhook` | disk, job store, BullMQ, storage provider |
| upload: rate limiter | a token bucket per key | `consume` | Redis or memory |
| upload: `UploadService`, commands, strategies, validators | none | upload, delete | storage providers |
| validation: rate limiter guard | one state per algorithm and key, in memory or Redis | `canActivate`, `consume` of five algorithms | store |
| validation: decorators; core | none | stateless | - |

What is hard in it, and what would make each part correct:

* **Notification engine.** `send()` has up to five awaits, and between any two of them other
  calls, workers and the clock run. The queue, the deduplication key and the log are updated
  one after the other without a transaction; a worker may die, lose its lock and run on, or
  lose the provider's answer. Correct means: two live jobs never share a deduplication key, a
  skipped send never blocks a later one, the number of provider calls and of deliveries is
  bounded, success is only reported of a delivered message, and every job ends and is announced.
* **Channels.** Every `send()` sorts what can go wrong into the caller's fault, which ends the job,
  and the provider's, which is retried; some providers report a refusal inside a successful
  response; every option has a setting to fall back to. Correct means: a completed job was taken by
  the provider, an outage is retried, nothing is sent again without a reason, options suffice.
  The second of these does not hold of every outage (section 4, differences).
* **Telegram linking.** The handler looks a user up, writes the row and sends a message, with awaits
  between; Telegram posts an update again until it is answered; a new token may be asked for at
  any time. Correct means: a token links one chat, the newest token survives, a token that was sent
  is used.
* **Distributed lock.** A ttl may run out inside the critical section; a reply may be lost; a
  waiter polls. Correct means: mutual exclusion as long as the ttl holds, a release never
  deletes another owner's lock, a free lock is eventually taken.
* **Idempotency interceptor.** Look-up, lock, handler, store and release are separate steps over
  two stores. Correct means: the handler runs once per key and every other caller gets its
  response or a conflict.
* **Chunked upload.** Several chunk requests, a background worker with retries and stalls, and a webhook
  write the same job record and files; a chunk's file has its final name before it has its bytes.
  Correct means: the file behind a URL is whole, one merge per upload, a settled job stays
  settled, a retry can succeed, an accepted upload ends.
* **Rate limiters.** get, compute and set are separate. Correct means: no window admits more than
  its limit, or says by how much concurrency exceeds it.
* **Identifiers, transactions.** No identifier twice; a transaction commits only if what it
  watched is unchanged.

`PROJECT.json` lists every hazard at its line with the properties that cover it.

## 2. Plan

All steps of the plan are done; what each one left to the model checker alone is in section 6.

1. The notification engine: `NotificationPipeline`, its abstract specification
   `NotificationContract`, its properties, runs and proofs.
2. `DistributedLock` (with `LockRedisService`): mutual exclusion within the ttl, checked and
   proved; no lock left behind; every wait ends.
3. `Idempotency`: one handler at a time while the lock's ttl holds, proved; the look-up race as a
   refuted claim.
4. The upload package: `MediaStorage`, `ChunkedUpload`, `UploadService`, composed in
   `UploadSystem`; the life cycle of an upload as `UploadContract`; the hopeless retry as a refuted
   claim.
5. `RateLimiters`: the five algorithms and the upload bucket, each against the definition of its
   window.
6. `IdGenerator` and `Transactions`, checked and proved; `CacheAside`, `PubSub` and `RedisData`,
   with the store of JavaScript values, `JsStore`, that `RedisData` implements; all composed in
   `CacheSystem`.
7. `NotificationChannels`, what step 1 leaves open inside one provider call, against
   `NotificationContract` again; `TelegramLinking`; both in `NotificationEdges`.

8. The theorems: every safety invariant the runs check, the refinement of `JsStore`, and the safety
   half of the three refinements of a contract.

The plan is carried out. What it leaves to TLC is liveness (section 6).

## 3. The modules

* `NotificationPipeline` - the engine. One action per stretch of code between two awaits.

  | Action | Code |
  |---|---|
  | `Call` | `send` up to its first await: the expiry check |
  | `CheckPreference` | `isOptedOut` answers; `isAllowed` then reads the clock |
  | `CheckRate` | the Lua script of `RedisRateLimiter`, and the ttl computed after it |
  | `AcquireIdempotency` | `SET NX EX` of the deduplication key; EX 0 is an error |
  | `Enqueue`, `CreateLog` | `queue.add`; the PENDING row and `onQueued` |
  | `Abort` | a call that rejects, a lost reply, or the death of the process, at any await |
  | `Fetch`, `MarkRetrying`, `PreProcess`, `Send`, `LogSuccess`, `LogFailure`, `Finish` | `process` from BullMQ's fetch to its verdict |
  | `Crash`, `LoseLock`, `MoveStalled` | a dead worker, a missed lock renewal, the stalled checker |
  | `Tick` | the wall clock |

  State: `pc`, `msg`, `askedAt`, `ttl` are the locals of `send`; `window*`, `key*` are Redis;
  `job`, `jobId`, `attemptsMade`, `stalls`, `lockedBy`, `lastId` are BullMQ; `log` is the
  repository; `step`, `holds`, `err` are the workers; `sends`, `delivered`, `events` are what
  providers and observers saw.
* `NotificationContract` - what a caller may rely on: a request is accepted or refused once, only
  an accepted one reaches a provider, boundedly often, and every accepted one is settled.
* `NotificationProperties` - the type invariant, the properties, the refinement mapping
  (`RequestStatus`), the inductive invariants and the refuted claims.
* `MCNotificationPipeline` - the module TLC runs; symmetry of requests and of workers (used by the
  run without liveness properties only).
* `NotificationProofs` (types), `NotificationDeliveryProofs` (how often a message is sent and delivered,
  and the deduplication keys) and `NotificationOutcomeProofs` (the contract, what is reported) - the
  proofs, one module per group of arguments.

* `NotificationChannels` - one job in the queue of one channel, with the provider call that
  `NotificationPipeline` leaves open. It implements `NotificationContract` by itself, for one request.

  | Action | Code |
  |---|---|
  | `Enqueue` | `queue.add` with the channel's attempts |
  | `Attempt` | template rendering and the checks of the channel's `send()`, in their order |
  | `Call` | the request, one of the provider's answers, and the error `send()` throws for it |
  | `Close` | `UnrecoverableError` for a client error; BullMQ's count of attempts |

  An answer is what the channel sees, a status and a code or name, and what it means, which no channel
  sees: the message or some of its parts were taken; it was refused; it was not for now, as the sender
  sends too much (`limited`) or the provider is down; or it was taken and the answer does not tell
  (`Meaning`). Every `send()` is a record, `TelegramSend` to `SlackSend`: its checks with the error each
  throws, and the error it throws for each answer, as the code sorts them: by the status (`ByStatus`), by
  the name of an exception (`ByName`: FCM, Pusher), or by a code in the body of a response that
  resolves (`ByBody`: SMS Misr, Vonage, Slack). So SMTP's 421 and 452, which are outages, meet the test
  `400 <= status < 500` that takes them for the caller's fault, and whether `1901` or `0` is the one code of
  success is what decides about SMS Misr and Vonage. `Send` is the routing by channel and provider key.
  An option or setting is a name (`Options`, `Settings`), a recipient one of the kinds that make a
  difference (`Recipients`). `flaw` is a template that does not render or an account id that Twilio's
  constructor refuses.
* `TelegramLinking` - user rows, and runs of the webhook handler.

  | Action | Code |
  |---|---|
  | `Generate` | `generateTelegramLinkToken`: the row, then the answer, which may throw |
  | `Post` | a chat sends a token, or something else |
  | `FindUser`, `LinkChat`, `Answer` | `handleWebhook` await by await |
  | `Fail` | a look-up, write or send throws, or the 200 is lost: Telegram posts again |

  `linked`, `used`, `raced` and `overtaken` are history: the chats a token linked, tokens looked up,
  tokens that two runs held at a time, tokens saved while a run was about to write the row.
* `NotificationEdges` - the module TLC runs for these two; a behaviour runs one of them (`part`), so that
  their state spaces add up.
  `JobsEndRightly` has four named parts: a completed job was taken by the provider, where the channel reads
  the body that says so (`Unread` names the two channels that do not and Slack's empty answer); it was
  taken once and once more for each answer that did not tell; outages use up all attempts but those that the
  code mistakes (`Mistaken`: a limit with a status of 400 to 499, and SMTP's 421); a message that brings
  its options needs no setting. `LinksAreSound` has three: a token links one chat, the newest token
  stays, a chat that was welcomed is linked, each with the races that are its exception.
* `NotificationEdgesProofs` - the proofs about both.

* `DistributedLock` - calls of `executeWithLock` (`Service`) and applications that call
  `LockRedisService` themselves as its documentation shows (`Client`), on one key; no operation
  relates two keys. `backend` is chosen once: Redis, or the `Map` with timers that
  `DistributedLockService` falls back to without a `RedisService`.

  | Action | Code |
  |---|---|
  | `Call`, `GiveUp`, `Wake` | the options with their defaults, the deadline and the retry interval of `acquire` and `waitForLock` |
  | `Ask`, `Acquire`, `Enter` | the SET is sent, run by Redis, answered; time may pass at each |
  | `AcquireRejected`, `AcquireLost` | an error of `acquireLock`, with the SET run or not; swallowed by `executeWithLock`, thrown by `waitForLock` |
  | `TakeInMemory`, `TimerFires` | the `Map` and its `setTimeout`, which a release does not clear |
  | `Leave`, `Release`, `ReleaseLost` | `fn()` settles; the owner-checked delete; its error is swallowed |
  | `Extend` | `extendLock` |
  | `Crash`, `Tick` | a dead process, the clock and the key's PX |

  Time is what is left of each delay (`budget`, `nap`, `lease`, `term`), so the clock needs no
  bound and liveness can be checked. `term` is the ttl a caller was last granted: the timer in
  memory, and in Redis what the caller may count on.
* `DistributedLockProperties`, `MCDistributedLock`, `DistributedLockProofs` - its properties and
  inductive invariant, the module TLC runs, the proofs.

* **Upload.** `MediaStorage` is the provider behind the strategies (Cloudinary or a local
  directory), and the list of mishaps; `ChunkedUpload` and `UploadService` extend it, and
  `UploadSystem` lets them share it. A *call* is one HTTP request of `uploadChunk`, and, once it has
  enqueued a task, that task: both run the same steps on the same merged file.

  | Action | Code |
  |---|---|
  | `Initiate` | `initiateUpload`: done at once when the URL is cached under the file's hash |
  | `Receive`, `List`, `Note` | `uploadChunk` up to the count of the chunks and `updateJobProgress`, which may reject |
  | `Save`, `Fill`, `Cut` | `saveChunk`: `writeFile` creates or truncates the part, later fills it, or fails in between |
  | `Merge`, `Enqueue` | `mergeChunksToStream`; the chunks are removed, then `queue.add` |
  | `Take`, `Store`, `StoreNothing`, `StoreNothingLocally`, `Tidy`, `Complete`, `Fail` | the synchronous upload and `UploadProcessor.process` |
  | `Transcode`, `Webhook` | `handleCloudinaryWebhook`, whatever the job's state |
  | `Stall` | BullMQ gives a task to a worker again while its first run is alive: a second call on the same merged file |
  | `Expire`, `Crash` | the job store's hour; a dead process, whose tasks BullMQ gives to a worker again, once |
  | `Upload`, `DeleteResource` | `UploadService` with its commands, validators, strategies, observers |

  `status` and `url` are the job records, `cached` the URL cache, `chunks` and `merged` the disk,
  `whole` the parts that hold all their bytes, `call` the requests and tasks, `hook` the webhooks on their way.
  A merge reads what is there: with a part that is not whole, the merged file's bytes are `"torn"`.
  Every update of the job store may reject (`Breaks`): Redis fails, before or after it has written and
  perhaps again in the catch block (`Strikes`), or an observer throws.
  History: `copies`, how often the provider stored a job's file since its client last came;
  `disturbed`, the jobs whose client did not wait, and among them `crowded`, those sent a chunk while
  another request or task of theirs was active; `torn`, those that the write of a chunk was cut short of.
* `UploadContract` - what a client may rely on, with what has to have happened before an upload that is done
  relapses (`shaken`), one that is processed is dropped (`dropped`), or one is forgotten. `UploadProperties`
  has the mapping, the properties and the inductive invariant; `UploadProofs` has the proofs. The mapping,
  `Phase`, shows what the job store says: a stored outcome counts as soon as it is stored, whoever is
  still at work on the job, so that done and then failed are two steps.
* `RateLimiters` - the five algorithms of the validation package over `MemoryStore` and `RedisStore`,
  and the token bucket of the upload package, for one client key.

  | Action | Code |
  |---|---|
  | `Start`, `ReadMain`, `WriteMain` | `canActivate`'s `consume`: the clock, `store.get`, `store.set` |
  | `ReadFallback`, `WriteFallback` | `RedisStore`'s own `MemoryStore` when a command fails |
  | `UploadLevel`, `UploadTime`, `UploadInMemory`, `UploadFallback` | the upload bucket: one read and two writes in Redis, one step in memory |
  | `Reset`, `Restart`, `Tick` | `reset` and `clear`; a new process; time, with the ttl of entries |

  Times are ages, so the clock has no bound. `admitted` is history: how many requests that were alone
  were admitted and date from the last n ticks; a request is dated by the clock that its algorithm read.
  Nothing is expected of what came before a fault, nor, in the upload limiter over Redis, of what came
  before requests overlapped.
* `RateLimiterProperties`, `RateLimiterProofs` - the promises and the inductive invariant `LimiterInv`; the
  proofs.
* `CacheSystem` - the cache package and what of `common` stands on it. Its parts share neither keys
  nor callers, so a behaviour runs one of them (`part`), and their state spaces add up:

  | Module | Actions and code |
  |---|---|
  | `RedisData` | every method of the data-structure services that changes a key, one action each, grouped by service (`Strings`, `Lists`, `Hashes`, ...), with what the wrapper makes of values on the way in and of texts on the way out |
  | `CacheAside` | `getOrSet` (`GetOrSet`, `Look`, `Make`, `Fill`), `update`, `del`, `delByPattern` (`Sweep`, `Scan`, `SweepBatch`), command by command |
  | `Transactions` | `withTransaction` (`Watch`, `FnThrows`, `Exec`, which commits, reports a conflict, or rejects for a refused command with or without having applied the others), `multiExecute` and `mSet`, `watch`, `unwatch`, `discard`, other writers, a new connection |
  | `PubSub` | `getSubscriberClient` and `subscribe` (`Subscribe`, `Connected`, `ConnectFails`, `Accept`), `unsubscribe`, `publish`, `createMessageHandler` (`Deliver`), `onModuleDestroy`, lost connections |
  | `Idempotency` | `intercept`: `LookUp`, `Lock`, `Respond` or `HandlerThrows`, `Store`, `Release`, each in Redis or, when a command fails, in memory; `TimeOut`, `Restart` |
  | `IdGenerator` | `generateSnowflake` in its three cases, `generateCuid`, a clock that may be set back |

* `JsStore` - what a caller who thinks in JavaScript values is promised: a value, list, hash or
  stream reads back as it was written. `JsValues` has the values both sides speak of.
* `CacheProofs` - the proofs about all parts of the cache, about the refinement of `JsStore`, and about
  the composition.
* `MCUpload`, `MCRateLimiters`, `MCCache`, and `UploadProperties`, `CacheProperties` - the modules TLC runs and the properties. Properties that need only one part
  stand at the end of its module.

BullMQ, the clock and the failures are not code of this repository; they are modelled from how
the code uses them and marked external in the map. A log repository is optional in the code; the
model has the in-memory one the package ships. The deduplication store, rate limiter and
preference repository are the Redis ones the module registers.

Abstractions: in `NotificationPipeline` template and i18n rendering, providers and HTTP are "succeed,
refuse, fail, or succeed with the answer lost"; in `NotificationChannels` a template renders or
throws, and of a provider's answers those are listed that the channel's code or their meaning tells apart; backoff and priority leave the order of waiting jobs open; the
opt-out answer is open because the preference may change at any time; there is one recipient, so
a rate window is per channel. `NotificationStatus.SKIPPED` is in the type but nothing writes it.
In the upload package a file is known by whose bytes it holds, and a part is whole or not; a job update, which reads and writes
the whole record, is one step since it keeps nothing that another update changes, save a URL that
no longer shows. In `RateLimiters` levels are multiplied by the window, so that rates are whole
numbers. In `RedisData` three values (a number, a string of digits, another string) are what the
conversions tell apart; scores, offsets and coordinates are small numbers.

## 4. The runs

| Run | What it checks | Instance |
|---|---|---|
| `preflight` | `TypeOK`, `AtMostOneLiveJobPerKey`, `KeyHolderIsAccountable` | 2 sends, 1 key, 1 channel, no worker, clock to 5 (2 ticks per second), expiry 3 or 5 or never, limit 1 per window, 1 fault |
| `delivery` | `SendsBounded`, `DuplicatesNeedFaults`, `SuccessIsReal`, `SettledIsAnnounced`, `KeepsContract` | 1 send, 2 workers, 2 attempts, 1 tolerated stall, 3 faults, expiry 1 or never |
| `channels_and_linking` | `TypeOK`, `JobsEndRightly`, `KeepsContract`, `LinksAreSound`, `SentTokenIsTaken` | 1 job, 3 attempts, every channel and provider key with every combination of its options, settings, recipients and flaws; 2 users, 2 chats, 2 updates, 2 tokens for each user, 2 faults |
| `lock` | `TypeOK`, `MutualExclusion`, `LeaseIsHonoured`, `NothingIsLeftBehind`, `LockIsFreed`, `EveryCallEnds` | 2 `executeWithLock` calls and 1 application, both backends, ttl 2 or none given, 1 fault |
| `upload` | `TypeOK`, `AnsweredUrlShowsTheFile`, `NothingIsLeftBehind`, `OneCopy`, `KeepsContract` (safety and liveness) | under `MCSpec`: 2 jobs with the same file, one of up to 2 chunks and one of a single chunk, 2 calls (chunk requests and second runs of tasks), 1 direct upload to the local disk, 2 attempts, 1 kind of mishap, Cloudinary with Redis and local disk with memory |
| `limiters` | `TypeOK`, `LoneWithinLimit`, `RetryAfterIsEnough` | the 6 limiters over both stores, 2 callers, limit 2 in a window of 3 ticks, 2 ticks per second, requests up to 1 tick late, 1 fault |
| `cache` | `TypeOK`, `KeepsJsStore`, `FreshUnlessOverlapped`, `PatternIsGone`, `CommitSeesNoChange`, `GivesUpForAReason`, `WatchesAreAccountedFor`, `AcceptedIsHeardOnce`, `OneHandlerAtATime`, `OneResponseUnlessOvertaken`, `LockIsReleased`, `UniqueIds`, `SortedIds` | 2 keys, 2 callers, lists and streams of 2; 3 attempts and 2 other writes; 3 subscriptions on 2 channels; 3 requests of one idempotency key, 1 fault; 3 sequence numbers, 2 CUIDs, clock to 2 |
| `log_race`, `key_leak`, `row_collision`, `upload_retry`, `idempotency_race` | one documented claim each, refuted | the smallest instance that shows it |

The bounds: `MaxTime` caps the clock and `MaxFaults` the failures. Two sends of one key are what
deduplication is about; expiry 3 is not a whole number of seconds and 5 ends the clock, so rounding
and EX 0 happen. Two workers and three faults give a zombie beside a new owner and a crash or a lost
reply on top. Deadlock is not checked because the system may stop: every request done and every
counter at its bound.

In `channels_and_linking` jobs share nothing, so one is enough; three attempts are a first, a middle and a last
one (the module's defaults for a channel are 3 to 5). Two updates and two chats are what it takes
for two runs to hold one token; two tokens, for an older one to take the newer one away; two
faults, for a run to fail after its write and again after its answer.

In `lock` the ttl 0 is the one an application can pass and Redis refuses, and the one for which
`executeWithLock` takes its default; a critical section may last longer than any ttl, so that owners,
overrun owners and late releases meet. Three callers are what it takes for the release of an
overrun owner to let a third one in beside the second.

In `upload` two calls are what it takes to send the two chunks of one job together, to list a part that
another request is still writing, to send both jobs' files into one millisecond, to use a cached URL, or to have a
stalled task run beside its first run; one kind of mishap is what each
exception in the properties is about, and a job store that fails may do so again. With Cloudinary the direct
call has been refused before the behaviour begins (`MCInit`): images share no name there, only on the local
disk, where files are named by the clock. In `limiters` the window is three ticks so that a late
request may fall on either side of its boundary, and is no whole number of seconds, so that
Retry-After is rounded. In `cache` two keys are what two-key commands, patterns and a shared WATCH
need; three attempts, a first conflict that is not the last; three idempotent requests, one that
holds the lock, one that lost it and one that comes after. `cache` leaves the answer of the last call
out of its `VIEW` (nothing reads it; TLC still checks `KeepsJsStore` on every step), counts a call's applied commands up to two, and takes keys and
callers as symmetric (its properties are safety properties). The callers of `limiters` are
symmetric too.

Fairness (`upload`): as long as a request or a task can take a step, one does (Node runs every
continuation, BullMQ every task). Clients, webhooks, faults and expiry owe nothing.

Fairness (`lock`): time passes, timers fire, Redis answers and resolved awaits continue. Nothing
makes `fn()` return: `LockIsFreed` holds although it may hang.

Fairness (`channels_and_linking`): BullMQ runs its workers, and every request to a provider ends. The code does not
see to that: `HttpModule` and the SDK clients are used without a timeout of this repository's, so that it rests on
theirs and on TCP's; a request that hung for ever would hold its job, and no property covers that. The handler of a posted update runs on, and an update that failed is posted again. Nobody is
obliged to enqueue, to ask for a token or to send one.

Fairness (`delivery`): a continuation whose await has resolved runs (`SenderStep`, `WorkerStep`), where a provider
call is taken to end as above, an idle worker fetches, BullMQ moves stalled jobs. Callers, faults and the clock owe nothing.

What the refuted runs show:

* `log_race` - a worker may finish before `send` has created the log row; the row of a delivered
  message stays PENDING for ever.
* `key_leak` - a failure between the deduplication key and `queue.add` leaves the key behind; the
  retry is skipped as DUPLICATE and nothing is delivered until the key expires.
* `row_collision` - job ids are per channel queue, log rows are found by job id alone: one
  channel's delivery marks another channel's row.
* `upload_retry` - the processor deletes the merged file before it rethrows "to allow BullMQ to
  manage retries": every later attempt finds no file.
* `idempotency_race` - a response is looked for before the lock is taken and not again after: a
  request that looked too early and locked late runs the handler a second time.

Differences between text and code that were met while modelling, and that no run is needed for:

* notifications: an answer of 429, or an SMTP server's 421 or 452, is taken for the caller's fault: the job ends
  at its first attempt, although `NotificationError.ts:34-38` has such failures retried (`JobsEndRightly` counts
  these channels' answers as `Mistaken`).
* upload: the write of a chunk may be cut short; the part has its final name, counts as uploaded and is not
  asked for when the client resumes (upload `README.md:251`), so that the file at the URL lacks its bytes.
* upload: the provider's answer is lost, its webhook completes the job, and the catch block then fails it:
  a client that was told the URL, as upload `README.md:328-331` has it, has stopped listening.
* upload: `queue.add` fails after the chunks are gone: the merged file stays and no task deletes it
  (`chunked-upload.service.ts:222`).
* transactions: an EXEC of another caller ends the WATCH on the shared connection, so that a transaction may
  commit over a change of the key it watches (`transactionRedis.service.ts:32`).
* transactions: EXEC rejects since the server refused one command and applied the others; the catch retries
  as it does after a conflict, and each retry applies them again (`transactionRedis.service.ts:50`).
* `extendLock` sets the time left instead of adding to it (`lockRedis.service.ts:47-50`), so it may
  shorten a lock; `onFailed` is called for every failed attempt, also one that will be retried
  (`INotificationObserver.interface.ts:26`).
* notifications: with a Slack token and a
  webhook configured, a message to `default` fails for want of a channel, not as
  `slack/README.md:47` has it; the provider key `twilio-mail` (`mail/README.md:12`) is unknown to
  `EmailChannel`, which sends by nodemailer; `/start` with a link token (`telegram/README.md:49`)
  is answered as an invalid code, since the whole text is taken for the token.
* notifications: a sender address missing in the configuration is thrown as the caller's fault
  (`mail.channel.ts`); a link token never expires; a `recipientId` of web push that parses as JSON
  hides `channelOptions.subscription`.
* cache: `multiExecute` leaves out commands that the client has only in lower case, such as the
  `['INCRBY', ...]` of `README.md:394-398`, without an error; members of sets are stored raw
  (`README.md:19`); a plain string stored by `setNX` or `getSet` makes `get` throw; digits given to
  `xAdd` come back as numbers; the function of `withTransaction` cannot read between WATCH and EXEC;
  `discard` is always refused.
* validation: the log is read, then written, so that overlapping requests are both admitted, although
  the sliding window log promises `maxRequests` in any window (`LoneWithinLimit` counts requests
  that overlap no other); the guard resolves no Redis store by itself (`README.md:42`); the fixed window admits a
  double burst at its boundary; the sliding window counter's Retry-After may be too short, which is
  why `RetryAfterIsEnough` leaves it out.
* upload: the bucket's level and its date are two writes (`rate-limiter.service.ts:50`). A request between
  them finds the new level with the old date, refills the bucket for time that the level has been refilled for
  already, and lets more in than `UPLOAD_RATE_LIMIT_REFILL_RATE` (`README.md:103`) says. It takes three callers,
  a limit of 4 in a window of 4 and a late write to be seen, more than the run `limiters` has; the proof of
  `LoneWithinLimit` found it. The property therefore counts, for this limiter in Redis, since requests last
  overlapped.

## 5. The proofs

A theorem holds for all values of the constants under the named assumption of the module it is about:

| Assumption | What it asks, and why the code grants it |
|---|---|
| `PipelineAssumption` | finitely many requests, workers and channels; bounds, windows and expiry times are natural numbers, attempts and the default ttl positive, as the configuration's defaults are |
| `ChannelsAssumption`, `LinkingAssumption` | at least one attempt; `None` is no user, chat or token |
| `LockAssumption` | ttls, timeouts and bounds are natural numbers, defaults and the retry interval positive; services and applications are apart |
| `ChunkAssumption` | at least one attempt and one chunk per job; `None` is no owner, status or set of owners |
| `LimiterAssumption` | limit, window and second are positive, a request takes less than a window, bounds are natural numbers; `None`, what a store answers without an entry, is neither a number nor a state |
| `DataAssumption` | the bounds on lists, streams and counters are natural numbers; keys, fields and members may be any |
| `AsideAssumption`, `PubSubAssumption`, and those of `Transactions`, `Idempotency`, `IdGenerator` | bounds are natural numbers; `Nothing`, the number that stands for a missing copy, is no key, `None` no caller and `NoResponse` no request; every subscription has a channel; at least one attempt and one sequence number |

Theorems about the parts of `CacheSystem` are stated of the part's own specification (`AsideSpec`,
`TxSpec`, `PubSubSpec`, `IdempotencySpec`, `IdSpec`). `PartsStaySound` carries them over to the
composed system: its steps are steps of the parts or leave them alone. `CacheStaysTyped` and
`ValuesReadBack` are stated of the composed system itself.

Notification engine

* `Typing` (`NotificationProofs`): `TypeOK` is inductive as it stands. `CeilIsEnough` and
  `UpdateTyping` are its lemmas about the rounding of a ttl and the log update.
* `SendsAreBounded` (`NotificationDeliveryProofs`): `SendsBounded` is not inductive, since it says
  nothing about runs that have yet to call the provider. `SendsInv` counts them: calls made, plus
  runs of a job that have yet to call, never exceed the attempts and stalls the queue has counted
  plus the run in progress; a job that may still run has an attempt left; a lock belongs to the run
  that works on the active job.
* `DuplicatesArePaid` (`NotificationDeliveryProofs`): no second delivery without a fault. The
  invariant, `DeliveriesArePaid`, is an account kept for each request: deliveries made, plus
  deliveries that runs in progress may still make, never exceed one plus the faults so far. A
  crash, a lost lock or a lost answer is what lets a second run start, and pays for it.
* `OneLiveJobPerKey` (`NotificationDeliveryProofs`): the invariant `DedupInv` has two parts.
  `TtlCovers` says that the ttl asked for, counted from the instant it was computed, reaches the
  message's expiry (this is where rounding up matters); `KeyCovers` says that an admitted message
  that has not expired still owns its key. Two jobs of one key would both own it.
* `HoldersAreAccountable` (`NotificationDeliveryProofs`): `KeyHolderIsAccountable` is inductive
  given the types and `LocksAreHeld`; only the step that takes the key and the steps that abandon a send matter.
* `EngineKeepsContract` (`NotificationOutcomeProofs`): `Spec => Contract!Spec`, the refinement without
  fairness. Each action is a step of the contract (`queue.add` accepts, a skip or an error before it
  refuses, `Finish` and `MoveStalled` settle, `Send` calls a provider) or a stutter. That `Send` is one
  rests on two invariants: only a request with a job has runs (`JobsExist`), and a run that is about to
  call is one of those that `SendsInv` counts, so that the call is within the contract's bound.
* `ReportsAreReal`, `JobsEndAnnounced` (`NotificationOutcomeProofs`): neither is inductive. `OutcomeInv`
  adds what a run knows at each of its steps (`RunsAreTruthful`) and that an active job without an
  owner is one a fault has orphaned (`OrphansAreFaults`). Rows are found by job id alone: `JobsInv` says
  that ids of one queue differ and that a row carries its own job's (`IdsAreUnique`, `RowsAreOfJobs`).

Channels and linking (`NotificationEdgesProofs`)

* `EdgesTyping`: the composed type invariant.
* `JobsEnd`: `ChannelsInv` says that calls never outrun attempts, that acceptances are the lost answers
  and the success, and that what a job is closed with is what its last answer was. What it needs
  of a channel is one lemma for each `send()`, such as `TelegramSuits`: its checks are met by a message
  that brings all its options, and each of its provider's answers is sorted by what it means
  (`SortsAnswer`): an answer that resolves tells the truth unless it is `Unread`, a message that was taken is
  not thrown for, and an outage is the provider's fault unless it is `Mistaken`. These are proved answer by answer (`HttpSorted`
  to `SesSorted`) and depend on the codes each channel knows. SendGrid's key comes
  from the settings alone, so that only the second half holds of it (`SendGridSorts`).
* `ChannelsKeepContract`: a job alone implements `NotificationContract`, with the provider call inside.
* `LinkingIsSound`: `LinkingInv` says where a token may be. One that has linked a chat is in no row;
  runs that found the same user by the same token have raced; a run about to clear a row clears no
  token that its user still waits to send, or that token is `overtaken`.

Distributed lock

* `LeasesAreHonoured`, `LockExcludes`, `NothingStays` (`DistributedLockProofs`): mutual exclusion is
  not inductive, since it does not say who owns the lock. `LockInv` does: a caller inside and within
  its ttl is the owner (`LeaseIsHonoured`); the key and the owner's term run out together
  (`LeaseIsTerm`), so that the clock never frees a lock early; in memory the owner's timer is armed
  (`TimerIsRunning`), so that a stale timer of another call finds a different value; and an owner
  without a fault is inside (`OwnerIsInside`). `LockTyping` gives the types.

Cache, idempotency, identifiers (`CacheProofs`)

* `CommitsAreSafe`, `FailuresHaveReasons`, `WatchesEnd`: `TxInv` says of every
  call before its EXEC that the connection still watches its key or the call's WATCH was cleared
  (`WatchHolds`), that a conflict that EXEC will report stems from a write or a new connection of
  somebody's time (`ConflictIsRecent`), and that attempts are only used up for a reason, a refused command
  among them; `AppliedIsDue`, that only a request that was refused or lost makes a call apply its commands once
  too often. `FailuresHaveReasons` holds of any number of attempts: what a call of one attempt adds, a
  conflict that a caller before has left behind, is a part of the property (`inherited`).
* `HandlersExclude`, `ResponsesAreSingle`, `LocksAreReleased`: none of the three
  is inductive. As long as nothing lapses or fails, `IdemInv` says that the lock of the place in use
  belongs to whoever is between taking and releasing it (`LockIsWorkers`), that a response that was
  given is stored or about to be (`ResponsesAreStored`), and that a later request finds it
  (`ResponseIsFound`), so that only one that had looked before can make another.
* `SnowflakesAreUnique`, `SnowflakesAreSorted`: whatever was issued is not after
  (`lastTimestamp`, `sequence`), unless the clock stepped back or CUIDs overflowed the sequence.
* `CopiesAreFresh`, `SweepsAreThorough`: `AsideInv` is `KeyInv` of every key and `SweepInv` of every
  caller. Of a key that is not doubtful, a call that changes it is alone, what is about to be written is
  the source's value, and an old copy is about to be deleted. What a sweep owes and its scan has
  returned is deleted or in the batch, and after the last step of the scan it has returned all it owes.
* `MessagesAreHeardOnce`: `PubSubInv` says that messages are numbered as they come, and that none has been
  handled that waits in an inbox or was not published.
* `CacheStaysTyped`: `TypeOK` needs a part of its own for each component. `DataInv` says of every key that it
  holds what its type may hold (`KeyType`), that only a key that is there has a time to live, and that
  what a group has yet to acknowledge was delivered to it; `VersionInv` that a copy, and a value on its way
  to become one, is a version that the source has had; `RetriesInv` that a call that goes on has an
  attempt left; `SubInv` that a subscription waits for the client it has asked for; `CountInv` that CUIDs
  put the sequence beyond its mask by no more than their number.
* `ValuesReadBack`: each command is one step of `JsStore`, or leaves it as it was. The mapping turns
  every key's texts into values, and `DataInv` is why it can: elements of lists and fields of hashes
  always parse. That settles a case hard to reach by a test: `lPop` and `rPop` remove an element before they
  parse it, and would lose one that does not parse; no method of the services puts one there. A command on a
  list acts on positions. The lemmas on `Picked` and on maps over sequences (`PickedTyped`,
  `PickedMaps`) say that it makes no difference whether elements are picked, cut, joined or reversed first
  and parsed afterwards, or the other way round. `Picked` is a recursive function; for want of induction
  over data they take the least position where the two sides would differ (`LeastOne`).

Rate limiters (`RateLimiterProofs`)

`LimitersKeepTheirInvariant` proves `LimiterInv`, and the three theorems after it follow. Neither promise is
inductive, since neither says what the stored state knows. What a state knows is `Covers`: how much of what was
counted its level, counts or log account for, at every age that still matters. `StatesCover` says so of the
stored state and of every state that a request has read and will write back; `CountsAreKept` keeps the
history cumulative and the entry alive as long as it has counted something (why the ttl is two windows);
`FlightsAreCounted` says that nothing is counted or promised while a request is under way, so that a state read
before is not out of date after; `LevelsAreSound` bounds levels; `PromisesAreKept` says when the stored
state will let the next request in.

* The six algorithms are functions on states. Each has lemmas that say what it answers (`TokenBucketFacts`
  to `LogFacts`), that what it writes covers what it read and the request (`BucketConsumed`,
  `FixedConsumed`, `CounterConsumed`, `LogConsumed`), that a tick keeps that (`...Aged`), and that a rejected
  request is let in after its wait (`...Granted`). `ConsumeCovers`, `AgedCovers` and `Granted` join them; the
  steps of the store and of requests are then treated once for all.
* `LimitersStayTyped`: no count and no log ever exceeds the limit.
* `LoneRequestsStayWithinLimit`: for any limit, window, delay, callers and faults.
* `RetryAfterHolds`: seconds are rounded up and a late request is dated back; the wait is enough all the same.

Upload (`UploadProofs`)

`UploadHolds` proves `UploadInv`, whose parts support each other; the four theorems below it follow.

* `UploadTyping`: types, with those of the requests and of the disk (`UploadTypes`).
* `UrlsShowTheirFiles`: two uploads may share a name once (`NamesAreDistinct`), merged files are apart
  unless two merges fell into one millisecond, or two runs of one task share theirs (`PathsAreOwn`), and at
  every step between the merge and the answer the file in hand is the job's (`FilesAreSound`). That the
  merge reads whole parts needs two more: a client that does not crowd has one request under way
  (`RunsAreAlone`), and the parts of its job are whole but for the one it is writing (`ChunksAreWhole`),
  which is not there any more when the request counts. The property speaks of the URL
  alone; the invariant follows the bytes to it, through the cache, the webhook and a retried task.
* `NothingStaysBehind`: a merged file has a request that still has to delete it (`FilesAreHeld`), and a
  client that waits has one request under way, whose chunks go before it ends (`ClientsAreServed`).
* `OneCopyIsMade`: `CopiesAreCounted` says that who may upload again has no file to do it with. A stalled
  task, whose two runs both have it, is one of the three mishaps that the property names. The proof
  found a case that one mishap does not show: a task whose answer was lost finds, at its retry, the file
  of another merge in its place, and uploads that. `OneCopy` names it ("same path") beside the crash.
* `UploadsFollowTheContract`: every step moves the phase of every job as `UploadContract` allows
  (`FollowsContract`), in particular a job that the store calls done leaves that state only after what
  `Shaken` names. `OutcomesAreOwed` is why: a call that is still at work on a job that is done, or about to
  be by a webhook, is about to complete it or is the retry, the second run or the catch block of a shaken one.

The invariants `SendsInv`, `JobsInv`, `OutcomeInv`, `ChannelsInv`, `LinkingInv`, `UploadInv` and `LimiterInv` were checked
by TLC before they were proved.

## 6. What is only model-checked, and what is not modelled

Liveness is checked by TLC only, since the prover has no rules for fairness and ENABLED: `LockIsFreed`,
`EveryCallEnds`, `SentTokenIsTaken`, and the parts of the three `KeepsContract` that say something ends
(for uploads, `Settles`). In `DistributedLock` a SET whose caller has
seen an error is run at once or never, not later; lock values are taken to be unique, as the
random part of `lockValue` makes them; callers in memory share one process. `withTransaction` is
modelled with one watched key at a time. Redis, BullMQ, the storage provider and the clock are modelled
from how the code uses them.

Not modelled, for they keep no state that two steps could disagree about: the CDN service, which
rewrites URLs; the controllers that stream job records; the extraction of the client's address
and the headers of the rate limiter; the channels' request bodies, the normalization of phone
numbers and the text of templates; `telegram.bot.ts`, an echo bot that nothing imports; decorators, pipes and regular expressions of the validation package; entities,
filters, formatters, the logger, ORM bases and framework modules of `common`; the umbrella package.
`isDuplicate`, `markSent` and `deleteIdempotency` of the deduplication store have no caller.
