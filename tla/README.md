# Cairn: specification and proofs

TLA+ models of the asynchronous core of Cairn (the RSS pipeline, the newsletter
pipeline, the content store, subscriptions, accounts, sessions and signing keys of the backend,
the offline writes and the token handling of the apps), the TLC runs that check
them on small instances, and the theorems about them that TLAPS checks for every
instance.
Paths are relative to `src/`; in section 1 and below, `fetcher/` is
`services/read/fetcher/internal/`, `content/` and `email/` likewise.

    tlc -workers 2 -config MCOutboxFaults.cfg MCOutbox.tla     # any run of section 4
    tlapm OutboxProofs.tla                                     # any module of section 6

## 1. The system

Cairn is a read-later service. Its services share one pattern: rows of a
PostgreSQL table are a work queue, goroutines claim them with a lease, do slow
HTTP work outside any transaction, and write the outcome back **by row id**. No
transaction spans two components; every chain from the web to a reading list is
a chain of retries over idempotent steps.

| Component | State | Operations | Talks to |
|---|---|---|---|
| Feed polling (`fetcher/scheduler`, `fetcher/fetcher`, `fetcher/worker/feed_worker.go`, `fetcher/repository/feed.go`) | `feeds` rows with tier and error counters; a bounded queue | claim due feeds, fetch, parse, store new items, schedule the next poll, disable, re-tier daily, enable | feed items, the web |
| Feed items (`fetcher/repository/feed_item.go`, `fetcher/processor`, `fetcher/jobs/content_extraction_job.go`, `fetcher/jobs/feed_items_cleanup_job.go`) | `feed_items` rows | discover, claim, fetch the article, look up subscribers, queue an outbox row, complete, retry, delete | outbox, the web |
| Content outbox (`fetcher/repository/outbox.go`, `fetcher/worker/outbox_worker.go`, `fetcher/client`, `fetcher/jobs/outbox_cleanup_job.go`) | `content_outbox` rows; in memory a bounded channel and a worker pool | insert, claim, deliver, retry with backoff, give up, clean up | Content Service (HTTP), feed items (write-back) |
| Subscriptions (`content/api/handlers/subscription_aggregator_handler.go`, `content/client`, `fetcher/service/feed_service.go`, `fetcher/repository/subscription.go`) | `feed_subscriptions` and `feeds` rows of the fetcher, senders of the email service, `source_routes` of the content service | subscribe (limit 100), unsubscribe, choose a list for a source, list all sources | feeds, newsletters, content store, by HTTP |
| Update detector (`fetcher/worker/update_detector.go`) | none of its own | detect changed articles | nobody constructs it |
| Content store (`content/repository`, `content/service`, `content/jobs`, `services/read/content/migrations`) | `contents`, `user_contents`, `source_routes`; triggers that mark orphans | deduplicating create, in-place update, save, archive, move, delete, deliver with routes, expire, orphan clean-up | called by everyone |
| Newsletter ingestion (`email/service`, `email/worker`, `email/client`, `email/jobs`) | `email_addresses`, `raw_emails`, senders, an outbox of its own; in memory a circuit breaker | give out addresses, receive, extract, deliver with retries, clean up | Content Service |
| Accounts (`services/users/internal`: `services`, `database`) | `users` with lockout counters, `email_verification_tokens` | register, login with lockout, upgrade, change of email and password, delete, verify | all clients |
| Sessions (`services/users/internal/auth`, `apps/shared/src/services/auth.ts`) | `refresh_tokens`; in each app a pair of tokens in memory and storage, one shared refresh | refresh with rotation and reuse detection, logout, calls with a bearer | all clients and services |
| Shared auth and middleware (`pkg/`, `services/users/internal/auth/vault.go`) | signing keys in Vault, cached keys, rate limit buckets | rotate and refresh keys, validate tokens, limit | all services |
| Self-hosted binary (`cmd/selfhost`) | the services in one process | start, health, stop | all services |
| Mobile offline writes (`apps/mobile/src/services`: `articleMutations.ts`, `outbox.ts`, `syncTrigger.ts`, `articleStore.ts`) | SQLite article store and mutation outbox | write through, queue on failure, drain, upsert list pages | API |
| Mobile prefetch and screens; web app; shared client (`apps/`) | caches, tokens, UI state | prefetch, present | API |
| HTTP handlers, DTOs, gateway | none | decode, validate, route | services |

### What is hard in each, and what makes it correct

- **Content outbox.** A claim is a lease of fixed length that nobody renews or
  checks; workers write by id long after it. Crashes between claim and last write,
  panics (recovered, the entry dropped), a stop that closes the channel in mid-batch,
  lost answers of the Content Service, failing updates. *Correct:* no row is stranded
  in `sending`; nothing is reported delivered that was not; retries are counted and
  bounded; a claim is exclusive as long as its lease lasts.
- **Feed items.** Two writes (outbox row, then `completed`) without a transaction;
  the outbox worker stamps the same row concurrently; clean-up cascades to outbox
  rows. *Correct:* no item is completed without its row, duplicates only ever come
  from faults, every item leaves the queue, every eligible user is served unless
  somebody gave up or deleted.
- **Feed polling.** Snapshots of a row travel through a queue and are written back;
  the daily tier manager and the API (`EnableFeed`) write the same columns in several
  statements. *Correct:* a feed is polled by one worker at a time, no failed fetch
  is missed by the count, dead feeds end up disabled, everything published is stored.
- **Mobile offline writes.** Live writes, drain and list refresh interleave at every
  `await`. *Correct:* what the user did last ends up on the server; queued writes go
  out in order; the queue drains; the store converges to the server's state.
- **Subscriptions.** The limit is checked before the insert and by a trigger that
  sees committed rows only; a subscription and its route are rows of two services; a
  listing asks three, one after the other, while other requests change them. *Correct:*
  at most 100 subscriptions per user; no route outlives its subscription; an answer says
  what is so.
- **Content store.** Triggers that mark an article when its last reader goes see only
  what is committed; expiry and clean-up delete by an inner `SELECT` they do not
  repeat; lookup and insert are separate. *Correct:* an article is stored once; marks
  follow the readers; nothing is taken from a reader; what is overdue is reclaimed.
- **Newsletters.** Two tables with leases, two workers, absolute retry counts, updates
  whose failure is only logged, one breaker for all mail. *Correct:* what the tables
  report is true; work is repeated or given up only for cause; everything settles; an
  address, once given, stays.
- **Accounts.** A request reads an account, hashes or compares a password for a long
  time, and writes by id. *Correct:* wrong passwords at logins stay bounded although attempts
  overlap; an account keeps a way in; a deleted one leaves nothing.
- **Sessions.** Rotation and reuse detection in separate statements, against clients
  that share, repeat or lose refreshes, log out or are killed. *Correct:* an honest
  client keeps its session while nothing goes wrong; an ended one stays ended; no call
  waits for ever.
- **Keys and middleware.** A key pair is two secrets, read one by one, cached by every
  service; buckets against their clean-up. *Correct:* signer and validators agree again.

`PROJECT.json` lists the hazards one by one with their lines, the properties that
cover them, and for those not covered yet, why.

## 2. Modules

| Module | Models |
|---|---|
| `DeliveryContract` | Abstract: what the outbox owes whoever inserts a row. No leases, pollers, workers or processes |
| `Outbox` | The `content_outbox` table and the `OutboxWorker` pool, the process with its stop, crash and restart; implements `DeliveryContract` |
| `FeedItems` | `feed_items`, the extraction job and the clean-up, composed with the outbox through `DeliveryContract` |
| `FeedPolling` | `feeds`, the scheduler, the feed workers, the tier manager, `EnableFeed` |
| `MobileOutbox` | Store, outbox, live writes, drain and list refresh for one article |
| `ContentStore` | `contents`, `user_contents`, `source_routes`, their triggers, the requests that write them and the daily clean-up, with overlapping transactions |
| `EmailIngest` | Addresses, `raw_emails`, the newsletter outbox, both workers on several instances, the breaker, both clean-up jobs |
| `SigningKeys` | The key pair in Vault, the users service's rotation, the validators' polls and on-demand fetches |
| `Sessions` | `refresh_tokens` and the apps' tokens; extends `SigningKeys` |
| `Accounts` | `users`, `email_verification_tokens`, and the handlers' work on them |
| `Subscriptions` | `feeds`, `feed_subscriptions`, senders and `source_routes`, and the requests on them from the handler of the content service to the fetcher and back |
| `OutboxProofs`, `FeedItemsProofs`, `FeedPollingProofs`, `ContentStoreProofs`, `EmailIngestProofs`, `SessionsProofs`, `AccountsProofs` | The theorems and their proofs, a component each |
| `AppProofs` | What the apps rely on: the theorems about `MobileOutbox` (`Spec`) and about `Subscriptions` (`SubscriptionsSpec`), which share no variable |
| `MC...` | Values for TLC |

The composition is by contract: `Outbox` is shown to implement `DeliveryContract`
(run `outbox_lease`, theorem `OutboxKeepsContract`), and `FeedItems` uses an instance of
it, with one outbox row per (item, number), as its view of the outbox. `FeedItems` adds
the one thing the two share beside the table: `Stamp`, the worker's late write to
the feed item. `FeedPolling!StoreItem` is `FeedItems!Discover` seen from the other side.
`Sessions` composes three parts directly: the rotation on the server, the apps, and
`SigningKeys`, by which the services accept or refuse what the apps send. `EmailIngest`
and `Outbox` reach the `ContentStore` through two idempotent requests; `EmailIngest`
keeps what has arrived there in `listed`. `Subscriptions` and `ContentStore` share
`source_routes`: the one writes a row of it per source, the other reads one when it delivers.

In the modules a definition whose name says what is wrong with it
(`ClaimIgnoringLease`, `InsertIgnoringError`, `DrainSkips`, ...) is not part of any
specification: it is a plausible bug. Put in place of the definition next to it, it
makes the property it is listed with in `PROJECT.json` fail, which shows that the property
depends on that piece of code.

### Time and data

Clocks are abstract. `leased[x]` is `lease_expires_at >= now()`, `due[x]` is
`next_retry_at <= now()` or `next_poll_at <= now()`; time passes in `LeaseExpires`,
`BecomeDue` and `WeeksPass`. An age (`last_published_at`) is one of `never`, `week`,
`month`, `older`, the classes `DetermineTierByActivity` tells apart. Articles, guids, users
and feeds are model values. A statement is atomic, as PostgreSQL makes it; what one
function does in several statements is several actions.

### Outbox: state and actions

| State | Code |
|---|---|
| `status`, `retries`, `due`, `leased` | columns of `content_outbox` |
| `stamped` | feed items with a `content_service_id` from this row |
| `stored`, `granted` | contents and user contents in the Content Service |
| `phase` | `up`; `stopping`: `stopCh` is closed; `draining`: the poller returned and `outboxQueue` is closed; `down` |
| `batch`, `queue` | what `fetchAndQueuePendingEntries` has yet to queue; `outboxQueue` |
| `wpc`, `wentry` | where a worker is in `processOutboxEntry`, and its entry |

| Action | Code |
|---|---|
| `Poll` | `GetPendingEntries`, one statement; its answer may be lost after the commit |
| `Enqueue`, `ReleaseFull`, `ReleaseUnqueued` | the three branches of the `select`: sent, full (`default`), stopped |
| `PollPanic`, `Panic` | the two `recover()`s: the rest of the batch, or the entry, is dropped |
| `Take`, `WorkerExit` | the worker's `select` and the closed channel |
| `StepCreate`, `StepAdd` | the two requests: success, or failure after `doWithRetry` gave up, with or without effect |
| `StepMark`, `StepStamp`, `StepFail` | `UpdateDeliveryStatus`, the write-back, `handleDeliveryFailure`; each may fail |
| `Stop`, `PollerExit`, `PoolStopped`, `Crash`, `Start` | the process |
| `CreateEntry`, `CleanupDelivered`, `DeleteItem` | the item processor, the clean-up job, `ON DELETE CASCADE` |

`doWithRetry` and the circuit breaker appear as their outcome: a request that
takes effect or not, answered or not, within a bounded time. An open breaker
is a request that fails without effect.

### FeedItems, FeedPolling, MobileOutbox

`FeedItems`: `Claim`, `Fetch`, `Subscribers`, `Insert`, `Complete`, `HandleError` are the calls
of `ProcessPendingItems` and `processItem` in their order; one batch is worked off
sequentially by one goroutine. `tries` is the snapshot the claim returned. `Discover`
and `CleanupItem` are the poll that inserts an item and the clean-up that deletes
it, after which the next poll may discover it again.

`FeedPolling`: a *poll* is the `*models.Feed` a claim returned, wherever it is:
`claimed` (in the scheduler's loop), `queued`, or with a worker in `fetch`, `items`, `error`,
`disable`, `reschedule`. `seen` is what it remembers of the row. `tierRows` are the tier
manager's snapshots. `EnableFeed` is three actions, one per update, each of which may
be the last. `found`, `failures` and `streak` are history, read by properties only.

`MobileOutbox`: a write is the n-th of the user. `live` are the requests
`ArticleMutations` awaits, `todo` is what the running drain has read, `sync` the list page
about to be upserted. A request *arrives* (the server changes) and is *answered* in
two steps, and may fail before or after it arrives. `hasty` are fields written
while an earlier write of the same field was still under way, or cut off by `Kill`,
the death of the app: memory and requests go, SQLite stays.

### ContentStore, EmailIngest, Sessions and SigningKeys, Accounts

`ContentStore`: a write that other transactions can overlap has a statement and a commit
(`Insert`/`CommitInsert`, `Delete`/`CommitDelete`, `DeleteExpired`/`CommitExpired`); what a
trigger sees is decided at the statement, what it writes becomes visible at the
commit (READ COMMITTED), and `Unlocked` is the row lock. `req` is the request a caller has
in progress, from its lookup to its answer; `job` is where `CleanupJob.drain` is, with the
rows its inner `SELECT` has picked. `overlapped` is history: articles two
transactions worked on at once.

`EmailIngest`: `proc[i][r]` and `batch[i][e]` say what instance `i` is doing with a row it
has claimed, and the retry count it read; `GetPendingEmails` and `GetPendingEntries` are the
claims, the actions named after a step of `processEmail` or `deliverEntry` that step.
`Fails`, `Abandon`, `RequestFails`, `AbandonEntry`, `Crash` and `Stop` are the faults: an error that is
recorded, one that is only logged, a request that fails with or without effect, the
end of the process, and its graceful stop, in which `ReleaseClaim` gives back what was
not begun. `HalfOpen` is the breaker's timer.

`SigningKeys`: a key is the number of its pair. `PutFirst` and `PutSecond` store the two
secrets in either order, `ReadPrivateKey` to `PushPublicKey` are `rotateKeys` and its callback,
`Poll` the rounds of the `KeyRefresher`. A round reads the key and hands it on; that these are two
steps matters only if a replacement comes in between, so `polled` keeps what such a round has
read (`Overtake`), and a round that is not overtaken is one step.

`Sessions`: `work[r]` is a request to `/auth/refresh` on the server, statement by statement;
`mem` and `disk` are the variables and the storage of an app, `flight` its `refreshPromise`,
`call` its calls of `fetchWithAuth`, `leaving` its `logout()`. A validator that refuses a signature
fetches the key (`FetchKey`), hands it on (`HandKeyOn`) and tries once more (`RetryValidation`), as
three steps of the call. `causes[a]` is history: what has happened since the login that may end the
session. `saveTokens` writes one key of the storage and then the other; `clearTokens` is one step,
but for a kill of the app after its first key (`KilledClearing`).

`Accounts`: `work[s]` is what a request still has to write, after the read and the
bcrypt it began with. A request that ends with its first statement is one action;
the others go on in `RecordFailedLogin`, `Issue`, `Upgrade`, `MarkVerified`, and so on. `held` and
the stages `delete` and `cascade` are the row locks of a verification and of a delete.

`Subscriptions`: `subs` are the committed rows of `feed_subscriptions`, `routes[<<u, s>>]` the row
of `source_routes` or `None`. `work[r]` is the request that the slot `r` has taken: `at` is the
statement or call that comes next. Subscribing goes `count`, `lookup`, `check` or `validate` and `create`, `insert`, `commit`,
`resolve`; unsubscribing `find`, `delete`, `unroute`; choosing a list `verify`, `upsert`; a listing
`rss`, `email`, `routes`. `reply` is what the app is told, after the status of the fetcher's
handler and what the client of the content service makes of it. The insert alone is two
actions, because `check_feed_limit` counts what is committed at the first and the row is seen
after the second. History: `overlapped[u]` counts the inserts whose trigger ran while another
of the user was open, `strayed` holds the feeds whose unsubscription was cut off half-way or
met a request about to write the route, `steady[r]` the sources nobody else has changed
since `r` began, of which its answer must be right.

## 3. Assumptions and bounds

| Constant | Code | Here | Why this is enough |
|---|---|---|---|
| `MaxRetries` | 6 | 2 (`Outbox`), 1 (`FeedItems`) | below, at and above the limit are all reached; nothing compares to any other number |
| `QueueSize`, `BatchSize`, `Workers` | 40, 20, 5 (outbox); 100, 50, 5 (feeds) | 1 or 2 each | a batch larger than the free part of the queue, two workers on one entry |
| `BulkLimit` | 100 | 2 (1 in `MCOutboxBigFeed.cfg`) | recipients at the limit and one above |
| `ErrorLimit` | 7 | 2 | one before the limit and at it |
| `Entries`, `Items`, `Feeds` | any | 1 or 2 | rows interact only through batches and queues; two in every run about those |
| `Guids` | any | 1 or 2 | a known and a new item in one document |
| `MaxFaults` | any | 1 or 2 | bounds crashes, panics, stops and database errors, so that two hit one row; an unreliable Content Service or web (`FlakyService`, `Flaky`) is not bounded |
| `MaxDiscoveries` | any | 2 | an item that is deleted and discovered again |
| `TierUpdates`, `MaxEnables` | any | at most 1 | one run of the tier manager and one `EnableFeed`, anywhere within the polls; `feeds_safety` has the second without the first, `feeds_broken` both |
| `MaxWrites`, `MaxFailures` | any | 3 (2 in `mobile_lost`) | a write queued, one in drain and one live, of two fields; a death of the app is a failure |
| `Users`, `FeedItems`, `Pages`, `Ids` (`ContentStore`) | any | 2, 2, 1, 2 | two readers of one article and a second article; an item and its new version |
| `BatchSize` (`ContentStore`), `FeedRetention`, `OrphanRetention` | 1000, 30 and 90 days | 1, 0 ticks | two batches in a drain; a tick of `MaxTime` = 2 is longer than either period, so an article can be orphaned by expiry and reclaimed a tick later |
| `MaxRequests`, `MaxFaults` (`ContentStore`) | any | 3, 1 | deliver, then save, move or delete by either user, around a run of the job |
| `WorkerCount`, `MaxDraws`, `MaxAttempts`, `MaxRetries`, `Trip` (`EmailIngest`) | 3, 5, 5, 6, 5 | 1, 2, 2, 2, 2 | one before the limit and at it |
| `Users`, `Rows`, `Entries`, `Instances`, `Asks` (`EmailIngest`) | any | 1, 1, 3, 2, 2 (3 rows and 1 instance in `MCEmailIngestPoison.cfg`) | two faults make at most three entries of one email; two instances race on each row, two requests of one user for an address. A second user takes the run past five minutes; that two users never share an address is theorem `AddressesAreKept` |
| `HasKey` | TRUE; FALSE in `services/read/email/cmd/email_ingest_worker` | TRUE | with FALSE every entry fails in the end, see below |
| `Apps`, `CallsOf`, `Tokens`, `Requests`, `MaxCalls`, `MaxKey` | any | 1, 2, 5, 4, 2, 1 | two calls that find the token old at once; a login, its rotations and a second login; one replacement of the pair |
| `MaxFaults` (`Sessions`) | any | 1 | a lost answer, failed statement, logout, death of the app or new pair, at any moment; a death of the app inside `clearTokens` comes on top |
| `Ids`, `Codes`, `Emails`, `Passwords`, `Devices`, `Slots` | any | 2, 2, 2, 2, 1, 2 | two requests on one account or on two that compete for an address |
| `LockoutThreshold`, `MaxRequests`, `MaxFaults` (`Accounts`) | 5, any, any | 2, 5, 1 | registration, a failure below the threshold, one at it, one that overlaps |
| `MaxFeedsPerUser`, `PageSize` (`Subscriptions`) | 100, 100 | 1, 1 | at the limit and one above; a listing that fits a page and one that does not |
| `Users`, `Feeds`, `Senders`, `Slots`, `MaxRequests`, `MaxFaults` (`Subscriptions`) | any | 1, 2, 1, 2, 4, 1 | two requests that overlap, after two that set the stage; users share nothing but the rows of `feeds` |

The sets of requests, polls, tokens, fields, users and sources are assumed to be finite, as
memory is; the proofs count in them. The dedup keys of `ContentStore` are assumed to be other
values than its markers for a row that is not there.

`LeaseOutlivesDelivery`, `LeaseOutlivesPoll`: TRUE says that a claim reaches its last
write within its 10 minutes. The code does not enforce it (`MCOutboxDouble.cfg` below), it is an
assumption about load, and every run or theorem that needs it names it. The runs
and theorems without it hold whatever leases do.

**Deadlock.** Checked in `Outbox`, `FeedItems`, `MobileOutbox` and `EmailIngest`. In the others
the bounds end the behaviour: every feed is disabled and everything stored
(`FeedPolling`), the requests and faults are used up (`ContentStore`, `Sessions`, `Accounts`,
`Subscriptions`).

## 4. Runs

### Runs that pass

| Run | Instance | Checks and shows |
|---|---|---|
| `outbox_faults` | one entry, two users, two workers, queue of 1, leases may expire under a delivery, two faults | `NotStranded`, `DeliveredWasGranted`, and `EventuallySettled`: without any assumption on leases each entry comes to rest, delivered or given up, and never claims more than was done |
| `outbox_lease` | two entries of which one has an empty page, two workers, `LeaseOutlivesDelivery`, two faults | `ExclusiveClaim`, and `KeepsContract`: the pool implements `DeliveryContract` |
| `feed_items` | two items, one without subscribers; deleted and rediscovered once; one fault | `CompletedHasRow`, `DuplicatesCostFaults`, `GivenUpAfterRetries`, `EveryItemSettles`, `EveryUserServed`: from discovery to reading list |
| `feeds_safety` | one feed, two polls, two guids, `LeaseOutlivesPoll`, one `EnableFeed`, one fault | `ExclusivePolling`, `ErrorsAreCounted`, `EveryItemStored` |
| `feeds_broken` | one feed that is gone, leases that expire in mid-poll, tier manager, `EnableFeed`, two faults | `BrokenFeedsRetire`: it ends up disabled even when the updates that say so fail |
| `mobile` | one article, two fields, three writes, three failed requests | `TypeOK` (no field is queued twice), `ServerHasNewest`, `InQueueOrder`, `QueueDrains`, `StoreConverges`, also when the app is killed at any `await` |
| `content` | two users, a feed whose item changes, a page, a clean-up that may fail once | `TypeOK` (with the foreign key and the dedup index), `MarksFollowReaders`, `SavedStays`, `CleanupCatchesUp`: but for articles two transactions work on at once, nobody loses what he has, and nothing is left behind |
| `email` | one email, two instances, two faults | `AddressIsKept`, `RepeatsCostFaults`, `ReportsAreTrue`, `GivenUpAfterFailures`, `EverythingSettles`: the lease may run out under the work, the process may die or stop anywhere |
| `sessions` | one app with two calls at a time, one new pair of keys or one other fault, kills inside `clearTokens` | `SessionAlive`, `FamiliesAreSound`, `LogoutSticks`, `CallsEnd`, `KeysSettle` |
| `accounts` | two accounts, two requests at a time, five in all, one fault | `AccountsAreWhole`, `GuessesAreBounded`, `UpgradedOnce`, `RequestsEnd` |
| `subscriptions` | one user with two feeds, one sender and a limit of one feed; two requests at a time, four in all, one fault | `LimitHolds` (with `TypeOK`), `RoutesFollowSubscriptions`, `AnswersAreTrue`: but for the overlaps and faults they name |

Some invariants are conjunctions of named parts: `ReportsAreTrue` of `TypeOK`,
`CompletedHasEntry` and `DeliveredIsListed`; `FamiliesAreSound` of `TypeOK`, `OneLiveTokenPerFamily` and
`EndedFamiliesStayDead`; `AccountsAreWhole` of `TypeOK`, `Unshared`, `AlwaysAWayIn` and `DeletedLeavesNothing`.

What some of them leave out is what the code does not give. The exceptions
are history variables set at the very step that opens the window, so that a
property says: nothing but this leads there. It does not cover the hazard that the exception names.

| Property | Excepts | So it does not cover |
|---|---|---|
| `ExclusiveClaim`, `KeepsContract`, `ExclusivePolling`, `ErrorsAreCounted` | leases shorter than the work (`LeaseOutlivesDelivery`, `LeaseOutlivesPoll`) | an entry or a feed in two hands at once, and what two holders then write over each other; `NotStranded`, `DeliveredWasGranted`, `EventuallySettled` and `BrokenFeedsRetire` hold without the assumption |
| `ErrorsAreCounted` | feeds after an `EnableFeed` or a fault | a count that `EnableFeed` has reset, written back by a poll |
| `MarksFollowReaders`, `SavedStays` | articles two transactions work on at once (`overlapped`) | triggers that do not see each other, a clean-up that does not look again |
| `ServerHasNewest` | fields written in haste (`hasty`) | two writes of a field that cross, live or queued |
| `StoreConverges` | articles no longer listed | an archive undone by an older list page |
| `OneLiveTokenPerFamily`, `EndedFamiliesStayDead` | a token rotated by two requests at once (`shared`); an end while a rotation is under way | two live successors; a family that outlives its end |
| `SessionAlive` | a session with a cause (`causes`): a lost answer, a failed statement, a kill under a refresh | the session such a fault ends |
| `LogoutSticks` | a refresh in flight at the logout | its answer, which saves tokens after the logout |
| `GuessesAreBounded` | nothing, but adds the logins under way when the account locks. It counts logins only | the wrong current passwords that `ChangePassword` compares (`user_service.go:219-222`), with no count and no lock |
| `UpgradedOnce` | two upgrades that have both looked a second time (`together`) | the window between that look and the `UPDATE` |
| `LimitHolds` | nothing, but adds one per insert that overlaps another (`overlapped`) | |
| `RoutesFollowSubscriptions` | an unsubscription cut off half-way, or one that meets a `PUT` past its check (`strayed`) | the route that is left behind |
| `AnswersAreTrue` | sources that another request changes meanwhile (all but `steady`) | what a listing says of those |

### The run that refutes a comment

`mobile_lost` / `QueuedWriteIsSent`. `apps/mobile/src/services/articleMutations.ts:38`: queued
rather than lost. The drain deletes by (article, field) after its `await`, and takes
a newer write of the same field with it.

### Seen while modelling

Each of these is refuted by a configuration kept here, in seconds:
`tlc -config <cfg> <module>` ends with the named property violated.

| Configuration, module | Property | What the code does |
|---|---|---|
| `MCOutboxDouble.cfg`, `MCOutbox` | `OneDelivererAtATime` | `fetcher/repository/outbox_lease_integration_test.go:57`: the lease makes "stranded" and "double-delivered" both impossible. It is fixed at the claim and never renewed: the last of 40 queued entries, behind requests of up to 4 attempts of 30 s, outlives it. Costs duplicate requests, never a lost or misreported entry (`outbox_faults`) |
| `MCOutboxBigFeed.cfg`, `MCOutbox` | `EveryRecipientServed` | `docs/detailed_requirements/read_service_requirements.md:722`: new items are delivered to subscribed users. All go into one request, which the client refuses above 100 |
| `MCFeedItemsStamp.cfg`, `MCFeedItems` | `DeliveredIsStamped` | `fetcher/processor/item_processor.go:190-192`: the hash is stamped by the outbox worker. The job's own last write sets it to NULL when the delivery overtakes it |
| `MCFeedPollingStreak.cfg`, `MCFeedPolling` | `DisabledByConsecutiveErrors` | `read_service_requirements.md:208`: 7 consecutive days. The count is of failed fetches, and a good one never resets it |
| `MCFeedPollingDormant.cfg`, `MCFeedPolling` | `DormantIsQuiet` | `docs/ARCHITECTURE.md:929`: quiet after 30 days. Every poll without news sets `last_published_at` to NULL, which counts as moderate |
| `MCContentStoreSaved.cfg`, `MCContentStore` | `SavedPageInReads` | saved pages always go to Reads. An article archived in Feed and saved again keeps its row: in Feed, with its old date, and it expires there |
| `MCSessionsLost.cfg`, `MCSessions` | `LostAnswerKeepsSession` | `apps/shared/src/services/auth.ts:317`: losing a refresh must never look like a rejected credential. The server has rotated; the repeated refresh counts as reuse and ends the session |
| `MCSessionsOldTokens.cfg`, `MCSessions` | `OldTokensStayValid` | `docs/CONFIGURATION.md:259`: old tokens remain valid until expiration. Validators keep one key, and refuse them at once |
| `MCAccountsVerified.cfg`, `MCAccounts` | `VerifiedMeansConfirmed` | `services/users/internal/models/user.go:30`: the user has verified their email address. A change of the address keeps the flag |
| `MCEmailIngestPoison.cfg`, `MCEmailIngest` | `GoodMailIsNotGivenUp` | `email/client/content_service_client.go:133-135`: "one failing entry never blocks the rest of a batch". A mail without HTML is refused with 400, which counts against the one breaker; while that is open, the entries behind fail unsent. It half-opens after 30 s, the first retry comes after a minute, and the first bad mail of the next batch opens it again: a good mail ends `failed` although no request for it was ever made |
| `MCSubscriptionsLimit.cfg`, `MCSubscriptions` | `WithinLimit` | `services/read/fetcher/migrations/000001_initial_schema.up.sql:64`: the trigger counts committed rows only, so of two inserts at once both pass at 99 |
| `MCSubscriptionsRoute.cfg`, `MCSubscriptions` | `NoRouteComesBack` | `content/api/handlers/subscription_aggregator_handler.go:226-227`: the check "stops a PUT after unsubscribe from resurrecting a deleted route". A PUT that is past its check when the unsubscription comes does resurrect it |
| `MCSubscriptionsSenders.cfg`, `MCSubscriptions` | `EveryAnswerIsTrue` | the email service returns at most 100 senders: a listing is short without naming a failed source, and choosing a list for a sender beyond them answers 404 |

And without a configuration:

- `docs/ARCHITECTURE.md:1030` and the comment in `calculateNextRetry` list a sixth retry after 12
  hours. `IncrementRetryCount` fails a row at `retry_count + 1 >= 6`: the sixth attempt is the
  last, and there are five retries.
- `fetcher/scheduler/tier_manager.go:143` writes back `last_published_at` and the tier from a snapshot of
  all feeds, over a poll that finished in between.
- `fetcher/service/feed_service.go:227`: between the first and the second update of `EnableFeed` a poll may
  claim the feed with its old error count and disable it at the first failure; a
  failure between them leaves the feed active, so that repeating the request does nothing.
- When the answer of the fetcher to a subscription is lost, the retry is told 409, and the list
  chosen with it is never written. When only the delete of the route fails, the retry is told
  404, and the route stays.
- A feed that cannot be fetched at the moment is refused as "not a valid feed" (400).
- An archive whose request is still in flight is undone in the local store by a
  list page fetched before it arrived, until the next refresh (`articleStore.ts:38-44` describes only
  the queued case). `StoreConverges` is therefore an eventual property.
- Two writes of a field in quick succession may reach the server in the wrong order,
  live or queued, which is why `ServerHasNewest` excludes `hasty` fields.
- A logout while a drain is under way lets the drain go on under the next account
  (`articleStore.ts:309`: "a queued write must never replay against a different account").
- The outbox's circuit breaker opens at 5 or more requests with 60 % failures, not after 5
  consecutive failures as its comment says.
- `NewUpdateDetector` has no caller, although `services/read/README` describes update detection,
  nor has `CheckDuplicates` of the content service.
- `services/read/email/cmd/email_ingest_worker/main.go:100-103` builds its client without the
  internal API key: the stand-alone worker delivers nothing, and every entry ends `failed`
  (`HasKey = FALSE`).
- `email/service/address_service.go`: a request that loses the race for an address takes the duplicate
  user for a duplicate local part, draws five times and fails; the next request works.
- An email whose processing panics is claimed again every 10 minutes, and never counted.
- `GetPendingItems` of the fetcher claims without looking at the retry count, and a crash is never
  counted: a feed item that kills the process is taken up again whenever its lease ends.
- A refresh in flight when the user logs out saves its tokens afterwards (`auth.ts:170`).
- The app killed after the first of the two keys that `saveTokens` writes starts with a refresh token
  that is spent; the next refresh counts as reuse and ends the session.
- `DeleteProcessed` cascades to outbox rows still owed after an outage of seven days.
- `docs/DEPLOYMENT.md:682` and `docs/ARCHITECTURE.md:1459` warn that several instances process everything
  twice. The claims prevent that by now, but for leases that run out (`RepeatsCostFaults`).
- The failed-attempt counter of an account is not reset when its lock runs out: one
  more wrong password locks it again.
- Two changes of a password at once: the later wins, and neither ends the sessions.
- `CreateEmailVerificationToken` deletes and inserts in two statements: two requests at once leave two
  codes.
- A new refresh token is stored before the user is read and the access token signed: an
  error there leaves the app with a revoked token.
- The web app's `checkAuthStatus` takes a network error at the start for being logged out.

## 5. Fairness

Liveness is checked under `FairSpec` of each module, which assumes no more than
the code's scheduling provides:

- `Outbox`: `WF(PollerStep)`, `WF(WorkerStep(w))`: tickers tick and goroutines run.
  `SF(PollerExit)`: with `stopCh` closed the poller's `select` may pick the ticker again,
  and Go chooses among ready cases at random, so not for ever. `WF(Start)`: the container
  is restarted (`restart: unless-stopped`, `infrastructure/docker/selfhost/docker-compose.yml:39`).
  `WF(LeaseExpires)`, `WF(BecomeDue)`: time passes. Nothing is assumed about the Content
  Service answering, crashes stopping other than by `MaxFaults`, or `Stop`.
- `FeedItems`: `WF(JobStep)`, `WF(RowStep(r))` and `WF(LeaseExpires)`. `RowStep` is the outbox as a whole,
  which moves because of what `EventuallySettled` says of `Outbox`.
- `FeedPolling`: `WF(Claim)`, `WF(PollStep(p))`, `WF(BecomeDue)`, `WF(LeaseExpires)`. Not the tier manager,
  not `EnableFeed`, not the publishers.
- `MobileOutbox`: `WF(Drain)`, `WF(Live)`, `WF(Sync)`: the user keeps coming back to the app and to the
  list; every request is answered or fails. `User` and `Kill` are not fair.
- `ContentStore`: `WF` of the requests' steps (handlers run to their end), of `CleanupStep` (cron
  starts the job daily) and of `Tick` (days pass). Nobody needs to make a request.
- `EmailIngest`: `WF(Progress)`, where `Progress` is any step of either worker on any instance,
  `next_retry_at`, and the end of a lease nobody works under. It is one condition because
  each of these is enabled only while there is work, and each step uses some of it up:
  that tickers tick, goroutines run and time passes is enough to reach the end. The
  breaker's timer is not in it: an attempt fails while it is open, and counts.
- `Sessions`: `WF(Progress)`, the server's statements, the delivery of answers and the calls under
  way; no user has to do anything. `SigningKeys`: `WF` of the steps of `rotateKeys` and `SF` of the
  second read, which may fail and is repeated by the ticker; `WF(Poll(s))`.
- `Accounts`: `WF(Serve(s))` for every slot: each request has its own goroutine and connection, and
  PostgreSQL detects deadlocks.
- `Subscriptions` states none: what it promises is said of single states.

## 6. Proofs

| Theorem (module) | States | Argument |
|---|---|---|
| `TypeCorrect` (`OutboxProofs`) | `Spec => []TypeOK` | one lemma per kind of write to the table, then one case per action |
| `NeverStranded` | `Spec => []NotStranded` | `RetryInv`: every step writes the table at most once (`StepWritesRowOnce`), and each write keeps status and count in agreement |
| `DeliveredIsGranted` | `Spec => []DeliveredWasGranted` | `GrantInv`: not inductive alone; `Progress` says what a worker past a request knows, and that what the Content Service has, it keeps |
| `ClaimsAreExclusive` | with `LeaseOutlivesDelivery`: `Spec => []ExclusiveClaim` | `ClaimInv`: whoever holds an entry holds a claim that the selector respects (`HeldMeansClaimed`), so a claim finds it in no hand |
| `OutboxKeepsContract` | with `LeaseOutlivesDelivery`: `Spec => KeepsContract` | step refinement from the four invariants: every step maps to a contract step or a stutter |
| `CompletedItemsHaveRows` (`FeedItemsProofs`) | `Spec => []CompletedHasRow` | `RowInv`: before the last write the row is there, and a stamp comes only through a row that exists |
| `RetriesAreUsedUp` | `Spec => []GivenUpAfterRetries` | `CountInv`: the snapshot of an item in hand is current, since nobody else counts and no item in hand is deleted |
| `TypeCorrect` (`FeedItemsProofs`) | `Spec => []TypeOK` | `ItemInv` (`JobTypes`, `RowInv`, `CountInv`) bounds the counts: a row of the outbox exists only for an item that does |
| `CopiesCostFaults` | `Spec => []DuplicatesCostFaults` | `CopyInv`: as long as the job may come to insert a row for an item (`Pressed`), every row the item has had was forgotten by a fault; rows are counted as a finite set |
| `PollsAreExclusive` (`FeedPollingProofs`) | with `LeaseOutlivesPoll`: `Spec => []ExclusivePolling` | `PollInv`: a poll's feed is leased until the poll ends (`HeldIsLeased`); being due proves nothing, `EnableFeed` sets it under a poll |
| `TypeCorrect` (`FeedPollingProofs`) | `Spec => []TypeOK` | `Types`: `Room` bounds the queue by its capacity and the polls at work by the workers, through every branch of the selects |
| `CountIsExact` | with `LeaseOutlivesPoll`: `Spec => []ErrorsAreCounted` | `CountInv`: from claim to write a poll's snapshot is the row's count (`OnTrack`), because `PollInv` says that it is the only poll, and the tier manager writes other columns |
| `TypeCorrect` (`EmailIngestProofs`) | `Spec => []TypeOK` | from the three invariants below; that the breaker never counts past `Trip` needs that a worker is past the claim with one entry at a time (`Busy`), so that nobody opens it between the two requests |
| `AddressesAreKept` | `Spec => []AddressIsKept` | `AddressInv`: the two unique columns, and that what a user was told is what the row holds |
| `FullNumberOfFailures` | `Spec => []GivenUpAfterFailures` | `ProcessorInv`, `OutboxInv`: no count kept anywhere exceeds the number of failures there were, neither the row's nor the one an instance read with its claim and will write back, however late |
| `ReportsHold` | `Spec => []ReportsAreTrue` | `OutboxInv` for the list; `FinishedInv` for the row: no row of the outbox is taken back or passes to another email (`EntriesStay`), and only having one brings an email to "complete" (`FinishedBy`) |
| `RepeatsAreFaults` | `Spec => []RepeatsCostFaults` | `DebtInv`, an account: the rows (or counts) an email has, the instances that may still add one (`Behind`), and the next claim (`Chance`) exceed one only by the faults there were |
| `TypeCorrect` (`AppProofs`) | `Spec => []TypeOK` | `Types` and `QueueInv`: a write replaces the row of its field in place (`OneRowPerField`), and what the drain has left is the front of the queue (`DrainsFront`) |
| `DrainedInOrder` | `Spec => InQueueOrder` | from `DrainsFront`, although rows are joined, replaced and deleted under the drain |
| `NewestArrives` | `Spec => []ServerHasNewest` | `NewestInv`: for a field not written in haste, the newest write is in flight, in the queue, in the drain's hand, or at the server |
| `FeedLimitHolds` | `SubscriptionsSpec => []LimitHolds` | `LimitInv` counts a user's rows together with his inserts that are open (`Committing`): an insert whose trigger meets no open one finds the count below the limit, any other adds to `overlapped`. `OverlapInv` bounds that by the requests: one that has not inserted yet (`Before`) may overlap once |
| `RoutesFollow` | `SubscriptionsSpec => []RoutesFollowSubscriptions` | `RouteInv`: whoever is about to write a feed's route (`WillRoute`) has the subscription, or one whose end met him and is in `strayed`; so the route he leaves is no orphan, and an unsubscription that nobody meets takes it away |
| `AnswersHold` | `SubscriptionsSpec => []AnswersAreTrue` | rely and guarantee: what a request has learned so far (`Learned`) speaks only of the sources in `steady`, and no step of another changes anything about those (`Undisturbed`); each step of its own learns from the tables as they are. A page that is not full holds all senders (`WholePage`), by cardinality |
| `TypeCorrect` (`ContentStoreProofs`) | `Spec => []TypeOK` | `Types`, `StoredOnce` and `Referenced`: the foreign key also protects what an open insert refers to, and an upsert takes the row of its key when there is one |
| `MarksRight`, `NothingTaken` | `Spec => MarksFollowReaders`, `Spec => SavedStays` | `SoundInv`, of articles no two transactions worked on at once: inserts meet no delete, and a delete or an expiry nothing else (`Alone`), what its trigger decided is still right (`Decided`), a mark says that there is no reader (`Marked`), and what the job has chosen may still go (`Chosen`). Each step is of one of nine kinds (`Kinds`), by which an insert, a delete, an expiry or a reclaim is chosen, begins or ends, or is a step aside |
| `FamiliesSound` (`SessionsProofs`) | `Spec => []FamiliesAreSound` | `FamilyInv`: of an unshared family, the tokens not about to be revoked are one (`OneHeir`); and no rotation is under way in a family that has ended |
| `LogoutHolds` | `Spec => []LogoutSticks` | `LogoutInv`: an app that is out has nothing in memory, storage or flight, so that no late answer finds its way back; `ClearedInv`: one killed inside `clearTokens` has no access token, no call and no refresh until the next login |
| `SessionStaysAlive` | `Spec => []SessionAlive` | `SessionInv`: the family of an app without cause has nobody else at work on it (`Alone`), and its heir, followed from memory through the request to the answer (`AliveInv`), is a token that lives; `ReferencesIssued` keeps a new token apart from all that is referred to |
| `AccountsHold` (`AccountsProofs`) | `Spec => []AccountsAreWhole` | `WholeInv`: a request writes by id long after it looked, and may rely only on what no other request takes away: an address stays once it is there (`SettingInv`), and a code a transaction has locked stays its own (`HeldInv`). `UsersStep` shows that every write leaves a row with a way in |
| `OneUpgrade` | `Spec => []UpgradedOnce` | `UpgradeInv`: an account upgraded alone has an address, and no other upgrade of it has passed its second look |
| `LockoutHolds` | `Spec => []GuessesAreBounded` | `GuessInv`: while an account is open, the wrong passwords of its logins are at most those in the counter, those whose record is under way (counted as a set of requests) and those whose record failed |

They hold for every number of entries, users, workers, items, feeds, senders, polls, emails and
instances, accounts and requests at a time, for every queue, batch and page size, every limit of
feeds, every lockout threshold and every number of faults, under the `ASSUME` of each module (sizes are positive, names are distinct,
recipients are nonempty sets of users, the requests at a time are finitely many, no value is NULL).

Model-checked only: every liveness property (liveness under fairness, with its `ENABLED`, is
out of this version of TLAPS's reach). Every
invariant and action property of a run is a theorem; so are the types of `Outbox`, `FeedItems`, `FeedPolling`
and `EmailIngest`, which the runs therefore need not repeat. `SigningKeys` has only a liveness
property of its own; its types are part of those of `Sessions`.

Before an invariant was proved TLC checked it on the run's instance, and where it was not
inductive showed why: in `ContentStore` the job's choice had to be followed from its `SELECT` to
the commit, in `Sessions` the family through the request that rotates it, in `EmailIngest` the next
claim had to be counted together with those under way.

In `Subscriptions` every action of a request is first shown to be of one of seven kinds (`Kind`:
an insert is counted, or commits; a route is written; a subscription goes, and then its route, or
not; or nothing of this is touched). The limit and the routes are proved over the kinds, and only the
answers over the nineteen actions that `Serve` is made of.

## 7. Not modelled

Left out for good: the Update detector (unreachable), handlers and DTOs
(stateless), the web app and the screens (presentation), parsing, sanitizing and
extraction of documents, and `cmd/selfhost`, which is wiring.

Left out so far, with what it would take:

- **Rate limiters** (`pkg/middleware`): token buckets, in memory and in Redis, and their clean-up.
- **Feed polling**: the graceful stop of the scheduler, which drops what it has queued as
  a crash does, and the deletion of feeds.
- **Mobile offline writes**: the Save to Reads rows, requests rejected with a 4xx, several
  articles, and logout, which needs a second account.
- **Mobile prefetch and caches**: article bodies, which can be fetched again.
- The inside of `doWithRetry` in `Outbox`, and the breaker there: a request is what becomes
  of it in the end. `EmailIngest` models its breaker, because one is shared by all mail.
- What another call of the app may do between two keys that `clearTokens` removes: a 401 in that
  gap could start a refresh with the key still there, as one in flight at a logout would.
- The branch of `ChangePassword` that refuses a wrong current password: it writes nothing.
- Reading subscriptions and their feeds one by one in `ListUserSubscriptions`: no feed is ever deleted.
- Several apps on one account, and browser tabs that share their storage, in `Sessions`:
  the module has them (`Apps`), the run does not.
