# A verification project for the notification service

TLA+ modules that model the event-driven notification system (the delivery pipeline,
the rate limiter, the WebSocket hub, templates, batches and lists), the TLC
configurations that check them on small instances, and TLAPS proofs of all their safety
properties. `PROJECT.json` lists components, runs, mutants, the map from definitions to
source lines, findings, hazards and theorems.

## The system

One Go binary holds an HTTP server, a pool of workers, a scheduler and a pump for
delayed retries. Several processes may share one Postgres and one Redis.

    request -> INSERT (Postgres) -> XADD (one stream per priority) -> UPDATE queued
    scheduler: UPDATE scheduled -> pending RETURNING, then XADD row by row
    worker:    XREADGROUP -> rate limiter -> SELECT, status check -> UPDATE processing
               -> Send -> attempt_count, delivery_attempts
               -> UPDATE delivered | UPDATE queued, ZADD delayed | UPDATE failed, XADD dlq
               -> XACK
    pump:      ZRANGEBYSCORE -> ZREM -> XADD member by member

No two of these calls share a transaction, and nearly every error is logged and
passed over. What is hard about the code follows from that.

| component (source) | state | operations | what is hard | what makes it correct |
|---|---|---|---|---|
| notification service (`internal/service`, `internal/api/handler`) | the request's goroutine | Create, CreateBatch, Cancel, List, ListByBatch | look-up, INSERT and XADD are separate and run under the client's context; the late write of `queued` | nothing is lost silently; one send per idempotency key; a batch is stored whole or not at all |
| repository (`internal/repository`) | `notifications`, `delivery_attempts` | INSERT, UPDATE of status and count, claim of due rows, paged SELECT | unconditional updates; results that break off unnoticed; pages cut while rows come and change | a final status is true and stays; a walk is complete and repeats nothing |
| queue (`internal/queue`) | three streams with group, sorted set, dead letter stream | Enqueue, EnqueueDelayed, PopDelayedDue, ReadMessages, Ack, Push | lost replies, the pop in two commands, the pending list nobody claims from | one carrier at a time; entries are acknowledged in the end |
| dispatcher (`internal/worker/dispatcher.go`) | per worker: message, rest of the read, fetched row | Work, processMessage, ProcessDelayed | check-then-write, stale attempt count, acknowledgement after errors | attempts numbered, bounded and never overlapping; every notification settles |
| scheduler (`internal/worker/scheduler.go`) | rows of the running poll | poll | claim committed before the enqueueing | claimed rows are enqueued or accounted for |
| process life cycle (`cmd/notifier`, `worker/pool.go`, `api/server.go`) | context | start, SIGTERM, drain, exit | the context is cancelled first, work in hand cannot be finished or acknowledged | a stop loses nothing silently and repeats nothing |
| rate limiter (`internal/ratelimit`) | a sorted set per channel | Allow | clock read before the script runs; colliding names; expiry | limit per window; refusal only when full |
| WebSocket hub (`internal/api/websocket`) | map of maps of connections, a lock | subscribe, unsubscribe, Broadcast | an inner map used after the lock was released; network writes and closing under the lock | the registry is exact; who stays subscribed is told; nobody waits for ever |
| templates (`internal/service/template.go`, `internal/repository/template.go`) | `templates` | create, update, delete, render | update and deletion between look-up and INSERT | references hold; content is of a version current during the request |
| validation, HTTP layer, configuration, tracing | none | | | not modelled, see below |

## Modules

| module | models |
|---|---|
| `Domain` | priorities, statuses, `ShouldRetry` |
| `Stores` | the shared state; one operator per statement or command of the repository, producer, consumer and dead letter queue; process contexts; two history variables |
| `NotificationService` | request handlers: `Create`, `CreateBatch`, `Cancel` |
| `Scheduler` | `poll`: `FetchScheduledDue`, `EnqueueDue` |
| `DelayedRetry` | `ProcessDelayed`: `RangeDelayed`, `RemovePopped`, `Reenqueue` |
| `Dispatcher` | `Work` and `processMessage`, one action per store call, `pc` naming the next one |
| `Notifier` | the composition, the life of the processes, fairness, all properties |
| `Delivery` | the abstract promise: attempts within the budget, none after success, one dead letter at most |
| `RateLimiter` | the sliding window of one channel, with its own clock |
| `Hub` | the WebSocket hub of one process: the lock, the inner maps as objects, connections and broadcasts, every lock operation a step |
| `Records` | the notifications table as the API shows it |
| `Submission` | templates, and create requests from look-up to commit |
| `Listing` | the pages of `List` and `ListByBatch`, and a client that follows the cursors |
| `Catalogue` | `Submission` and `Listing` together with the pipeline's status changes |
| `MCNotifier`, `MCRateLimiter`, `MCHub`, `MCCatalogue` | constants for TLC |
| `NotifierProofs` | proofs: types, final statuses stay |
| `NotifierLossProofs` | proofs: final statuses are true, nothing is lost silently |
| `NotifierBudgetProofs` | proofs: no early burial, one send per key |
| `NotifierPromiseProofs` | proofs for one process: one carrier, numbered attempts, refinement of `Delivery` |
| `HubProofs`, `RateLimiterProofs` | proofs about the hub and the limiter |
| `CatalogueProofs`, `WalkProofs` | proofs about templates and batches, and about the pages of a list |

How state and code correspond:

- A stream is the sequence of the ids ever added (the code never trims). An entry
  is the pair of its stream and its position. The group is `lastDelivered` and `pel`.
  `XREADGROUP COUNT 1` over three streams hands over the first new entry of *each*
  stream (`Fresh`); the worker takes them in the order high, normal, low.
- A notification is its id. Priority, `max_retries`, idempotency key and whether its
  channel has a provider never change and are constants. Content, recipients,
  templates and validation decide only whether a create reaches its INSERT.
- A store call has a parameter `done`: whether it took effect. `Outcomes` gives the
  possible values: under a cancelled context never, under a running one always unless
  the store may fail. Where the caller looks at the error, a call that took effect and
  whose reply is lost is a third outcome (`replied` in `Submit` and `EnqueueNext`,
  `ReadLost`, the rows `got` in `FetchScheduledDue`).
- The steps of `PopDelayedDue` are two, as in the code: a read, and a removal whose
  result is ignored.
- `ends` and `sends` are history variables. `ends[n]` collects how `n` left the
  pipeline: `accepted` (the worker saw the provider's success), `withdrawn`
  (cancelled), `unroutable`, and the losses, `LossKinds`, which an action records exactly
  where the code forgets a notification after a fault: `unqueued` (the XADD of the create
  request failed), `unburied` (marked failed, and the push to the dead letter queue failed
  or its process died before it) and `dropped` (any other). They keep `NoSilentLoss` a real
  statement: only those places may lose anything.
- Time is abstract in `Notifier`: a scheduled row or a delayed member may be due at any
  poll. The limiter there is the step `Limit`; its own module has a clock.
- `Hub`: an inner map is an object with an identity, since a Broadcast goes on using the
  one it looked up; one that nobody refers to may be reused. `writer` is the goroutine
  that has called `Lock`: it bars new readers at once and enters when the readers are
  out, as `sync.RWMutex` does. `Len` reads the map without a lock and gets its present
  length or an earlier one. `Write` succeeds, fails, or breaks the connection. Accepting
  a connection may fail.
- `Submission`: the text of a template is its version number. A request looks up and
  renders item by item, takes one time for all its rows, and inserts them, a batch in a
  transaction whose rows appear at `Commit`. The foreign key refuses an INSERT without
  template and a DELETE with rows, and makes a DELETE wait for a transaction that has
  inserted one. Times are arbitrary members of `Times` (clocks of several processes, and
  a commit long after the clock was read), ids are drawn in any order. `NotificationService`
  starts where `Submission` ends, with the rows stored.
- `Listing`: a page is the first rows, by descending `(created_at, id)`, among those that
  match the filter and lie past the cursor; `limit + 1` rows are asked for, and the last
  row of the page is the next cursor if there are more. The rows of an answer may break
  off anywhere, before the first too (`cut`), because `rows.Err()` is not looked at: the
  page is then taken for the last.
  `channel` is, like `batch`, a column that never changes, and is left to it.
- `Faults` says what may go wrong: `pg` and `redis` (a call fails), `client` (a request's
  context is cancelled), `crash`, `shutdown` (SIGTERM). A process that is down may
  start again.

Operators introduced as "a slip" are plausible mistakes in the code beside which they
stand; no specification uses them. `PROJECT.json` pairs each property with one that
breaks it.

## Properties and runs

Passing runs:

| run | instance | properties | states |
|---|---|---|---|
| `loss` (`Loss.cfg`) | two notifications with one key, singly or as a batch, `max_retries` 2 and 0, two handlers, two workers; all five faults | `TypeOK`, `NoSilentLoss`, `FinalStatusIsTrue`, `OneSendPerKey`, `NoEarlyBurial`, `FinalStatusSticks` | 0.85 M |
| `pipeline` (`Pipeline.cfg`) | two notifications of different priority, `max_retries` 2 and 0, singly or as a batch, two workers; `client`, `crash`, `shutdown` | `NoSilentLoss`, `AtMostOneCarrier`, `AttemptsAreNumbered`, `KeepsPromise` | 1.2 M |
| `liveness` (`Liveness.cfg`) | as `pipeline`, without faults, one notification without a provider | `EventuallySettled`, `QueuesDrain` | 34 k |
| `limiter` (`Limiter.cfg`) | two callers, limit 2, window 3, delay up to 1 | `LimiterTypeOK`, `WindowBound`, `RefusesOnlyWhenFull` | 0.55 M |
| `hub` (`Hub.cfg`) | two connections and two workers on one notification, three inner maps | `HubTypeOK`, `RegistryIsExact`, `WatchersAreTold`, `BroadcastsReturn`, `BrokenConnectionsClose` | 0.15 M |
| `catalogue` (`Catalogue.cfg`) | three notifications, two of them a batch on one template with two versions, two requests, two times, pages of one and two rows | `CatalogueTypeOK`, `TemplateReferencesHold`, `ContentIsFresh`, `BatchIsWhole`, `WalkIsComplete`, `NoRowTwice` | 1.6 M |

- `NoSilentLoss`: a stored notification is carried by a store or a live goroutine, or
  it has ended, or one of the marked faults lost it. Any other way to lose it, by
  some interleaving of handler, worker, pump, scheduler and a dying process, would
  show. A single Redis or Postgres error is enough for most losses; the hazards list
  names them. The property does not flag those losses themselves.
- `FinalStatusIsTrue` and `FinalStatusSticks` relate the row to what happened, with
  the unconditional updates in the model. A row marked failed may lack its dead letter
  only because that very push was lost (`unburied`); any other loss does not excuse it.
  `FinalStatusSticks` excludes rows some goroutine is
  already committed to (`Committed`): exactly the window in which the code does
  overwrite a final status.
- `AtMostOneCarrier`, `AttemptsAreNumbered` and `KeepsPromise` hold for one process
  and faults that lose calls. They are not claimed for two processes or for failing
  stores: the run `pop` shows two pumps with the same member, and a failed
  `IncrementAttempt` or `ZREM` repeats a number or a message.
- `NoEarlyBurial` is the half of the promise that survives every fault: counts may fail
  to be stored and copies of a message may overlap, so `max_retries` does not bound the
  attempts any more, but none of them is ever cut short.
- `KeepsPromise` is refinement: `Notifier` implements `Delivery` with the sets of
  stored, accepted and dead-lettered notifications as its state.
- `WindowBound` counts differently named admissions, in a stretch one script delay
  shorter than the window: with a delayed script this is the bound that holds.
- `RefusesOnlyWhenFull` counts the admissions that ran in the window, one script delay
  longer, up to the run of the refused script. The script measures from its caller's
  reading and counts later admissions too, so a call may be refused although nothing was
  admitted before its reading. On the instance both bounds are exact: `WindowBound` fails
  for a stretch one instant longer, `RefusesOnlyWhenFull` for one an instant shorter.
- `max_retries` bounds all attempts, the first included, and 0 still means one attempt
  (`Budget`); the repository's `README.md:97` calls the number "max retry attempts".
- `RegistryIsExact` says that a map some Broadcast still holds and that is not the
  current one is empty. That is why the stale map is harmless, and why `WatchersAreTold`
  holds: a client that is subscribed from before the call to after it keeps its map
  current. A client that subscribes during the call may miss the update.
- `BroadcastsReturn` and `BrokenConnectionsClose` hold although `unsubscribe` closes the
  connection with the lock held and Broadcast writes with the read lock held: both are
  time-limited, and no goroutine asks for the lock while it holds it.
- `WalkIsComplete` is about the rows that match from the first request to the last. A row
  inserted with an older time after the walk has passed that time is not among them, and
  a walk whose answer was cut is excluded; `NoRowTwice` has no such exception.
- `ListByBatch` returns a cursor but takes none; rows of a batch beyond the first 100 are
  reached through `List` with `batch_id`, which is how the model's client goes on.

Runs that show a disagreement between the code and what its comments or documents say:

| run | says | does |
|---|---|---|
| `pick_up` | "scheduler will pick it up" (`service/notification.go:116`) | the scheduler selects only `scheduled` rows; a `pending` row whose `Enqueue` failed stays for ever |
| `orphans` | "crash recovery (XAUTOCLAIM)" (`README.md:22`) | `ClaimStale` is never called |
| `pop` | "atomically removes and returns" (`producer.go:51`) | two round trips; two processes get the same member |
| `cancel` | "Skip if already … cancelled" (`dispatcher.go:145`), answer 200 | check and write are separate statements |
| `priority` | one stream per read (`consumer.go:56`) | one message of each stream |
| `limit_rate` | limit per channel per second (`README.md:98`) | admissions of one millisecond share a member |

Bounds. `MaxStreamLen` is the number of entries per stream. It is 3, one more than an
attempt and its retry. `pipeline` and `liveness` never reach it: these runs are not cut
off by it. In `loss` it admits the extra copy that a failed ZREM adds, so that two
workers hold copies of one message at the same time, and cuts off the fourth. Two
notifications give batches, reads of two streams and skipped messages; two workers give
overlap. In `loss` the two share a key, so one of them at most is ever stored: the
second is there for the conflict, within a batch and between requests. One process with
two workers stands for two processes there: their pumps can duplicate a message as a
failed ZREM does, and the proofs hold for any number. `BatchSize` and `PopLimit` of 1
split polls, which lets cancellations and other goroutines come between. `MaxTime` (6)
is two windows, `MaxAdmissions` (5) more than two full windows. In `hub` three maps are
what two broadcasts and the registry can refer to at once, so a subscription never waits
for one. In `catalogue` limits 0 and 2 give pages of one row (the default) and of two,
cut within a batch and between batches; an update and a deletion fall between any two
steps of a request. Symmetry is used for interchangeable workers, handlers and requests
in `loss` and `catalogue`, and in `limit_rate`, which check no liveness. The view of
`loss` leaves out `attempts` and `pel`, which no guard and none of its other properties
reads. Deadlock is checked everywhere: an idle worker's read times out and repeats, and
broadcasts and status changes never cease.

Fairness (`FairSpec`). Weak fairness of a handler that has begun to enqueue, of every
scheduler, pump and worker, of exit and restart: goroutines are scheduled, tickers
tick, and the deployment restarts the service. Nothing is assumed of requests,
cancellations, signals, crashes or lost replies. Weak fairness of a worker includes
`Limit`, so it assumes that the limiter admits a waiting worker at some time. The
limiter does not guarantee this to one particular worker among many: what
`RefusesOnlyWhenFull` says is that a worker is refused only because others were admitted.
In `Hub`, weak fairness of every connection's goroutine once it has been accepted and of
every broadcast: goroutines run, a write ends after 5 seconds and the closing handshake
after the library's time limit. Nobody has to connect, hang up or broadcast.

## Proofs

Every invariant and every action property that a passing run checks is also proved, for
any sets of notifications, processes, handlers, workers, connections, requests and rows,
and for any bounds, from the named assumptions on the constants: priorities, budgets and
hosts are total functions, limits are natural numbers, the limiter's delay is no longer
than its window, and a batch is a finite set.

| theorem | property | holds for |
|---|---|---|
| `TypeCorrect`, `FinalStatusIsStable` | `TypeOK`, `FinalStatusSticks` | every set of faults |
| `FinalStatusHolds`, `NothingIsLostSilently` | `FinalStatusIsTrue`, `NoSilentLoss` | every set of faults |
| `NothingIsBuriedEarly`, `KeysAreSentOnce` | `NoEarlyBurial`, `OneSendPerKey` | every set of faults |
| `OneCarrier`, `AttemptsStayNumbered`, `PromiseKept` | `AtMostOneCarrier`, `AttemptsAreNumbered`, `KeepsPromise` | `Reliable` |
| `HubTypeCorrect`, `RegistryStaysExact`, `EveryWatcherIsTold` | `HubTypeOK`, `RegistryIsExact`, `WatchersAreTold` | all |
| `ReferencesHold`, `ContentStaysFresh`, `BatchesAreWhole` | `TemplateReferencesHold`, `ContentIsFresh`, `BatchIsWhole` | all |
| `CatalogueTypeCorrect`, `WalksAreComplete`, `NoRowComesTwice` | `CatalogueTypeOK`, `WalkIsComplete`, `NoRowTwice` | all |
| `LimiterTypeCorrect`, `WindowHolds`, `RefusalsAreJust` | `LimiterTypeOK`, `WindowBound`, `RefusesOnlyWhenFull` | all |

The inductive invariants, which TLC confirms on the instances of the runs, and why they
are needed:

- Types (`IndexOK`). `TypeOK` is not inductive by itself: a worker's message must name an
  entry that exists. The group's last id does not exceed the stream, and what workers hold
  was handed out. The stability of a final status follows step by step.
- Loss (`LossInv`). A handler's pending rows are stored, an idle worker holds nothing, and
  `pc` and `ok` agree with the history: after a success the notification is among the
  accepted, on the failure branch it is not acknowledged before it is handed on. A step
  preserves `NoSilentLoss` because every action that takes a notification from one carrier
  gives it to another or records its end.
- Budget (`BudgetInv`). `attempt_count` plus the workers that have sent and not yet counted
  do not exceed the sends. So the count a worker fetched is a lower bound of the sends
  before its own, however stale it is and whoever else was counting, and a worker that
  gives up has seen the budget used.
- Keys (`KeyInv`). At most one row per key is stored, and only stored rows are in a
  request's hands, a stream, the sorted set or a worker, and so are sent.
- Promise (`PlaceInv`). `AtMostOneCarrier` forgets a worker as soon as the provider has
  accepted, though that worker has still to count and record. `Places` counts it until it
  has finished, and the invariant says that a notification is in one of them at most, and
  what attempt counter, recorded attempts and sends are there: equal and below the budget
  where it waits (`WaitOK`), one send ahead by the worker that has made it (`WorkerOK`),
  the last only while its context lives, for a worker that is stopping can no longer store
  its count, and can no longer requeue the message either. `PumpOK` ties the pump's hand to
  the sorted set. The refinement then goes by actions: INSERT is `Submit`, `Send` is
  `Attempt`, a push to the dead letter queue that took effect is `Bury`, all else is a
  stutter.

  `Reliable` is the theorems' hypothesis: one process, and no store call of a live context
  fails. Clients that go away, crashes, shutdowns and restarts remain, with any number of
  handlers and workers. Without it the three properties are false of the code (a failed
  ZREM, or two pumps, make a second copy; run `pop`).
- Hub (`HubInv`). Who holds the lock at which point (`LockOK`), what the entry of a topic
  is (`EntryOK`), that the map a Broadcast holds is the current one or is empty and
  belongs to no topic (`HeldMapOK`), and how far a Broadcast has got with those who were
  open when it was called (`AudienceOK`).
- Catalogue (`StoreInv`). No two requests carry the same notification, what they have
  rendered is fresh, and the templates of the rows an open transaction has inserted are
  stored, because its row lock makes a DELETE wait.
- Walk (`WalkOK`). No returned row lies past the cursor, and every steady row that does not
  lie past it has been returned, unless an answer was cut. It rests on lemmas about `FirstRows`: the page is
  downward closed in the order of the query, and has `limit` rows if there are more.
- Limiter (`WindowInv`). The bound is about past admissions, while the script counts the
  sorted set, which other scripts and the key's expiry cut down. `Retained` connects the
  two: an admission in the window that ends now is still in the set.

Only model-checked: the liveness properties `EventuallySettled`, `QueuesDrain`,
`BroadcastsReturn` and `BrokenConnectionsClose`, since the prover handles neither fairness
nor ENABLED, and the runs that expect a violation, which are statements about one
behaviour. Induction over data and RECURSIVE operators are beyond the prover too; no
module uses them.

## Not modelled

- The time Broadcast takes from the worker that calls it: up to 5 seconds for each
  client. It delays delivery and changes nothing else.
- The middleware between router and hub. `responseWriter` (`middleware/logging.go:9`)
  offers neither `Hijack` nor `Unwrap`, so `websocket.Accept` has no connection to take
  over and refuses behind the router; `Hub` says what happens to connections that are
  accepted.
- A channel without a provider cannot occur as the program is wired: `main.go:117-121`
  registers one for every channel that `Channel.Valid` and the column's enum admit. The
  branch of the dispatcher is modelled all the same (`NoProvider`), and `liveness` has a
  notification that takes it.
- Unique names and syntax of templates: a refusal changes nothing. A subject that does
  not parse is accepted (`service/template.go` parses the body only) and makes every
  later request with the template fail in `Render`, which is `Abandon` here.
- Backoff and due times: a member may be due at any tick. The comment of `Backoff`
  speaks of jitter; the function has none.
- Repeated XADD by go-redis after a network error (its internal retries): a duplicate
  the code in this repository does not cause.
- Validation, routing, encoding, logging, metrics, tracing, configuration: no state, or
  strings only.
- `ClaimStale` and `DLQ.Read`: called by nothing.
- A provider that acts on a request whose answer is lost: the worker counts a failure
  and the attempt is repeated, as modelled; what the provider did is outside.
- Limiter: clocks that differ between processes, and several channels (one instance
  each).

## Plan

1. Done: the pipeline (`Domain`, `Stores`, `NotificationService`, `Scheduler`,
   `DelayedRetry`, `Dispatcher`, `Notifier`, `Delivery`), `RateLimiter`, `Hub`, the
   catalogue (`Records`, `Submission`, `Listing`, `Catalogue`), their runs.
2. Done: a theorem for every invariant, action property and refinement of the passing runs.
3. Next: an invariant for several processes that bounds the copies of a notification by the
   number of repeated calls, so that `KeepsPromise` has a counterpart outside `Reliable`;
   the safety part of the liveness arguments (a worker always has an enabled step, the lock
   is never waited for by its holder) as invariants.
