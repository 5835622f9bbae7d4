# A TLA+ verification of the webhooks service

The service turns business events of a message broker into HTTP calls to the
endpoints that users configured ("webhooks"). Since the introduction of durable
deliveries, every event and every subscribing config make one row of a
PostgreSQL table, which any number of worker processes claim, send, retry,
complete and recover. What is hard about it is that none of these processes
knows of the others: they meet only in the database, while the HTTP call,
the slowest step of all, happens outside any transaction.

This project models that pipeline, the config API, the upgrade from earlier
releases and the Go client, checks them with TLC and proves the central
invariants with TLAPS. Source paths below are relative to the repository root.

## Contents

1. Inventory of the system
2. Modules, and how they correspond to the code
3. Runs, bounds and fairness
4. Proofs
5. Where the code and its documents disagree
6. Not modelled, and the plan

## 1. Inventory

| Component | Source | State | Operations |
|---|---|---|---|
| Delivery table | `pkg/storage/postgres/deliveries.go`, `pkg/delivery.go` | tables `deliveries` (status, attempt_count, replay_generation, cycle_started_at, next_attempt_at, claimed_at) and `delivery_attempts` | enqueue, claim, complete, cancel, fail, recover, replay one, replay many, list, purge, backfill |
| Dispatcher | `pkg/worker/delivery_worker.go` | a goroutine per claimed delivery with its copy of the row | `Run` (poll loop), `dispatch`, `dispatchOne`, stale-claim recovery |
| Config lifecycle | `pkg/storage/postgres/postgres.go`, `pkg/server/*.go` | table `configs` (active, deleted_at, secret, event types) | insert, update, activate, deactivate, delete, change the secret |
| Retry policy | `pkg/backoff/exponential.go` | none | `GetRetryDelay`, `CanRetryAttempt`, `LimitRetryDelay`, `LimitRetryWindow` |
| Attempt classification | `pkg/attempt.go` | none | `MakeAttempt`, `classifyResponse`, `parseRetryAfter`, `resolveRetryDelay`, `scheduleAttemptRetry` |
| Replay API | `pkg/storage/postgres/deliveries.go`, `pkg/server/deliveries.go` | tables of replay requests (idempotency key, hash, expiry) | replay one delivery, replay a filtered page |
| Ingestion | `pkg/worker/delivery_worker.go` | position in the broker | `processDeliveryMessages`: parse, match configs, enqueue, acknowledge |
| Retention | `pkg/worker/retention.go` | none of its own | purge finished deliveries, replay records, deleted configs |
| Backfill | `cmd/backfill_deliveries.go`, `deliveries.go` | the legacy `attempts` table | resumable, batched conversion |
| Config contents | `pkg/storage/postgres/postgres.go`, `pkg/server/{insert,update,secret,test}.go` | endpoint, secret and event types of a config | insert, update, rotate the secret, send a test |
| Go client | `pkg/client` | a map of access tokens, shared by goroutines | 13 operations, each with token, retries and timeout |
| Listing | `pkg/delivery_cursor.go` | none | keyset paging |
| Signature, wiring, metrics, migrations | `pkg/security`, `cmd`, `pkg/otlp` | none | see section 6 |

**How they interact.** The server and the workers share nothing but the
database. A worker's loop claims a batch with `FOR UPDATE ... SKIP LOCKED`,
starts one goroutine per row, waits for all of them, and only then claims or
recovers again. A goroutine reads the config, checks the retry limits on its
copy of the row, makes the HTTP call, and writes the outcome with an `UPDATE`
that is conditional on `status = 'delivering' AND claimed_at = <its claim>`
(the claim is a fencing token). The config API cancels pending rows in the
transaction that switches the config off. Replay moves a failed row to a new
*generation* with a fresh budget, or makes a pending row due at once.

**What is hard.** A worker may stall in the HTTP call for longer than the age
at which another calls its claim stale; it may die before or after the
endpoint has seen the request; a retry may be written while the config is
being switched off; a replay may commit between; clocks of workers and
database differ, and both are written into the same columns; a message is
delivered more than once; delays are computed from two sources with 64-bit
arithmetic and cut at two limits.

**What makes it correct**, component by component:

- *table and dispatcher*: one holder per claim; the audit log agrees with the
  row; terminal states stay; the retry window of a generation never restarts;
  no request is let through outside it; every delivery comes to an end;
- *config lifecycle*: nothing stays pending under a config that is off, and a
  claimed delivery is cancelled only for that reason;
- *retry policy and classification*: attempts stay within the cap and within
  the window, a retry waits at least as long as backoff and Retry-After ask;
- *replay*: a replay opens exactly one fresh generation, at most once per key;
- *ingestion*: at most one row per event and config, and no message is
  acknowledged before its rows exist;
- *retention*: only finished rows go, with their attempts, and none that a
  running operation needs;
- *backfill*: however often it stops and is run again, the deliveries agree
  with the attempts when the new workers start, and it comes to an end unless
  the data stop it;
- *config contents*: a request is signed with the secret that belongs to its
  endpoint; rotations and updates do not undo each other;
- *client*: every request carries a valid token, a replay is executed once while
  the server keeps its key, a success is one, and every call returns.

`PROJECT.json` lists the hazards line by line, with the properties that watch
over each.

## 2. Modules

| Module | Models | Used by |
|---|---|---|
| `Deliveries` | table, dispatcher, recovery, config switches, replay, enqueue | the modules below, down to the proofs |
| `DeliveryContract` | abstract: what one row promises to those who look at it | `Deliveries`, which is shown to implement it |
| `DeliveriesHistory` | `Deliveries` with history variables: what an endpoint or an operator has seen | `MCDeliveriesHistory`, `ContractProofs` |
| `MCDeliveries`, `MCDeliveriesHistory` | instances for TLC | runs |
| `DeliveriesProofs` | the inductive invariants of `Deliveries`; one dispatcher at a time; pending rows of configs that are off | `ContractProofs` |
| `ContractProofs` | the refinement of `DeliveryContract`, what follows from it, and the properties of `DeliveriesHistory` | `tlapm` |
| `Replay`, `MCReplay` | replay requests: idempotency keys, pages and cursors, lost answers | runs, `ReplayProofs` |
| `ReplayProofs` | all properties of `Replay` | `tlapm` |
| `Retention` | from the broker to the purge: redelivery, acknowledgement, retention runs | run `retention`, `RetentionProofs` |
| `RetentionProofs` | the safety properties of `Retention` | `tlapm` |
| `Backoff` | `pkg/backoff/exponential.go`, as operators | `Attempts` |
| `Attempts` | the classification of answers in `pkg/attempt.go` | `RetryCycle`, `MCDeliveries` |
| `RetryCycle`, `MCRetryCycle` | one generation of one delivery under the exact policy, with liveness | runs, `RetryCycleProofs` |
| `RetryCycleProofs` | what the functions of `Backoff` and `Attempts` compute, and the safety properties of `RetryCycle` | `tlapm` |
| `ConfigContents` | what a config says, and who reads it to send a request | run `contents`, `ConfigContentsProofs` |
| `ConfigContentsProofs` | all properties of `ConfigContents` | `tlapm` |
| `Backfill`, `MCBackfill` | the upgrade from releases that kept retries in `attempts` | run `backfill`, `BackfillProofs` |
| `BackfillProofs` | the safety properties of `Backfill` | `tlapm` |
| `Client`, `MCClient` | calls of the Go SDK, with tokens and retries | run `client`, `ClientProofs` |
| `ClientProofs` | the safety properties of `Client` | `tlapm` |

### Deliveries

`deliveries[d]` is the row of event and config `d`; a row whose status is
`"none"` does not exist. `attempts[d]` are the rows of `delivery_attempts`;
`configs[c]` folds `active` and `deleted_at` into one state; `job[w][d]` is the
goroutine of worker `w` for `d`, with its program counter and its private copy
of the row; `replays` are the open replay transactions.

| Action | Code | Remarks |
|---|---|---|
| `EnqueueEvent` | `EnqueueEvent`, `FOR SHARE` on the configs, `ON CONFLICT DO NOTHING` | The subscribers are any subset of configs, because event types can be updated between redeliveries. |
| `InsertOneConfig`, `Activate`, `Deactivate`, `DeleteOneConfig` | `postgres.go` | The cancellation of pending rows is part of the action. It waits for rows that a replay holds. |
| `ClaimDeliveries` | `ClaimDeliveries`, called by `dispatch` | Skips locked rows, takes the earliest due ones up to the batch size, keeps `cycle_started_at` if it is set. |
| `FindConfig`, `Preflight` | `dispatchOne` before the call | Two separate reads: the config in the database, the limits against the worker's clock. |
| `SendRequest` | `MakeAttempt` up to the call: build, sign, send | A step of its own: the clock was read in `Preflight`, and a worker may be held up in between for any time. |
| `Accepted`, `Rejected`, `Unavailable` | `classifyResponse`, and the fields `dispatchOne` sets | The outcome lives in the goroutine's copy only. |
| `CompleteDelivery` | `CompleteDelivery` | Fenced. The attempt is inserted under its unique index in the same transaction; a result other than success becomes a cancellation if the config is off. |
| `CancelDelivery` | `CancelDelivery` | Not fenced by `claimed_at`. |
| `FailClaimedDelivery` | `FailClaimedDelivery` | Fenced, no attempt is recorded. |
| `Abandon` | error returns of `dispatchOne`, end of the process | A crash of a worker is this step for each of its goroutines. |
| `RecoverStaleDeliveries` | `RecoverStaleDeliveries` | Compares `claimed_at` (database clock) with the worker's clock. |
| `BeginReplay`, `CommitReplay`, `AbortReplay` | `ReplayDelivery`, `ReplayDeliveries` | See below. |
| `Tick` | time | |

*Atomicity.* Transactions run at READ COMMITTED. One is modelled as one step
when every row its decision depends on is locked by it until it commits:
enqueue (configs `FOR SHARE`), claim, completion and recovery (delivery and
config locked), the switches (config updated, then its deliveries). Replay is
the exception: it locks the deliveries, reads the config with a plain
`SELECT`, and writes. It is therefore two steps, and between them the config
may be switched off. Statements that look for pending rows wait for the ones
it holds (`Blocked`); a row it holds as *failed* does not match them, so they
do not wait.

*Clocks.* `now` is the database clock, used by claims and by the
`next_attempt_at` of a recovery. Times that the code takes from a process
(creation, preflight, next attempt, staleness threshold, replay) are any
value within `ClockSkew` of `now`.

*Deadlines.* Nothing in the code bounds a `dispatchOne`; the HTTP client has a
timeout, but a process can be paused. `JobDeadline` says how long one may last:
larger than `MaxTime` it may last for ever, at most `StaleAge - ClockSkew` it
always ends before its claim can be called stale. The properties are stated
under the weakest of the two that makes them true. The retry window is checked
once, in `Preflight`, and nothing after it looks at the clock, so a request can
leave after the window has closed. `RequestsWithinWindow` says by how much:
`approved`, a history variable, is the time of the preflight, and the request is
late by no more than its worker was held up since. Nothing in the code bounds
that time.

*Purges* are not in this module: a row that is there stays there. `Retention`
has them, on rows reduced to a status and an age.

### DeliveryContract

One row as its readers see it: status, generation, count, start of the window,
log. `Deliveries!RowsKeepContract` says that every row of the table behaves
like this, with the mapping that `Contract(d)` spells out. The contract knows
of no worker, claim, clock or config, so it says what all the fencing is for:
an attempt is counted and logged exactly once, inside its generation, by
whoever made it.

### Replay

A client repeats a request under its idempotency key until it has an answer.
The request runs in steps (`Receive`, `Proceed` under the advisory lock of the
key, `Snapshot`, `LockRows`, `Commit`), may `Abort` anywhere, and its answer
may get lost (`Learns`). `Cached` and `Conflict` are the two ends of
`replayCached`, `Refuse` the two errors of `ReplayDelivery`.
`SELECT ... FOR UPDATE` is two steps because at READ COMMITTED it finds rows in
a snapshot, waits for the locked ones, and checks them again when it has them.
A tick is longer than a transaction, so none lives to see its key expire; and
the server's clock is taken to be no earlier than the newest `created_at`,
which is what makes a bulk replay without an upper bound reach it.

### Retention

`EnqueueEvent` may be repeated in any order with everything else for
`RedeliveryWindow` ticks, the time a broker may deliver a message again; `Ack`
needs a handler that returned nil. A run of retention is one step per
statement, because each is a transaction of its own, and `Fail` ends it
anywhere: an error or the end of the process. The purge of configs is two
steps, with the foreign key checked at the second.

### Backoff, Attempts, RetryCycle

`Backoff` and `Attempts` are the code's pure functions, with its names.
Durations are numbers; the product `seconds * time.Second` is reduced to two's
complement at `MaxDuration`, a constant, so that small instances meet the
wrap-around that 2^63 - 1 has. `MCDeliveries` takes its delays from
`Attempts`, so both machines run the same policy.

`RetryCycle` follows one generation with relative timers, so that time never
ends and termination can be stated. It has crashes, recovery and expedite, and
no replay or config switch: these start or end a generation from outside. The
flags are a record that `Init` picks from `Policies`, so one run has several
policies; nothing in the code relates the flags to each other, hence one with
the minimum delay above the maximum.

### ConfigContents

One row of `configs`. Requests of the API that are one statement, or hold the
row from their read to their commit, are one step. `UpdateOneConfigSecret`
selects, compares and updates in separate statements: `changeSecretHandle` is
its read, `UpdateOneConfigSecret` its write, and anything may happen between.
`dispatchOne` and `testOneConfigHandle` read the config, `MakeAttempt` signs
and sends with what they read; `Fail` ends any of them.

`held[p]` collects the contents the row had since `p` read it and that justify
what `p` does; `out` is what a step answered or sent. They serve the properties
only. The properties say what can be relied on although there is no lock: the
answer of a rotation mixes the endpoint as it was read with the new secret, so
`RotationTrue` is about the secret alone.

| Action | Code |
|---|---|
| `insertOneConfigHandle`, `updateOneConfigHandle` | `server/insert.go`, `server/update.go`, `InsertOneConfig`, `UpdateOneConfig`; a secret that is not given is made up (`Validate`) |
| `activateOneConfigHandle`, `deactivateOneConfigHandle`, `deleteOneConfigHandle` | `server/activation.go`, `server/delete.go`; the row's part of them, the deliveries are in `Deliveries` |
| `changeSecretHandle`, `UpdateOneConfigSecret` | `server/secret.go`, `UpdateOneConfigSecret` |
| `dispatchOne`, `testOneConfigHandle`, `MakeAttempt` | `worker/delivery_worker.go`, `server/test.go`, `attempt.go` |

### Backfill

`attempts[w]` is what earlier releases wrote about webhook `w`, oldest first;
`rows[w]` the delivery with event id `legacy:w`. `Start`, `BackfillDeliveries`
(the selection of a batch), `ReadAttempts` and `backfillWebhook` (the
transaction) are the steps of the command, `FailRun` its failure at any of
them; it is then started again. `MissingConfigID` is the failure that is in the
data: `unnamed` has the webhooks whose last attempt has no config ID, and every
run that gets to one of them ends there. The old workers are not in the repository any
more: `InsertAttempt`, `ClaimAttempts` and `UpdateAttemptsStatus` are what the
queries of the backfill, the partial indexes in `migrations.go` (claims and
recovery of attempts by status) and
`TestFinalBackfillReconcilesRetryCompletedAfterInitialPass` expect of them. A claim
writes any of the outstanding attempts and a settlement any of them that differ,
so the attempt that was written last need not be the last one. `docs/architecture.md` has the Operator stop them first; the model
lets early runs overlap with them, as that test does, and counts a run as
`complete` only if it ends after they have stopped. Every write of a worker or
of the API has its own timestamp.

### Client

Each call is a goroutine; all share one SDK value. The 13 operations are
generated from one template and differ here in the scope they need, in
whether they carry an idempotency key and in whether they can succeed twice:
`Reading`, `Writing`, `Keyed`, `Once`. An attempt looks up the session
(`FindSession`), or requests a token (`doTokenRequest`, `TokenResponse`,
`TokenError`) and stores it (`StoreSession`), sends (`Do`), and ends with an
answer or `TransportError`; `Conclude` is what `utils.Retry` makes of it. The
map of sessions is not synchronised: `ConcurrentMapAccess` is the runtime
noticing that, which ends the process, and the steps between a lookup and a
store interleave in any case. `wire` has requests the server has not handled:
one may stay there for ever (lost), be executed after its caller gave up
(`Answer` then reaches nobody), or be refused. `keys` has what is left of the
lifetime of each idempotency key (24 hours in `storeReplayResponse`); a request
that comes later finds none and is executed again, as
`deliveries_test.go` wants it.

`Codes` is empty because the operations pass `"default"` to
`MatchStatusCodes`, which is neither a number nor starts with a digit. So the
branch of `AfterError` that forgets a session after a 401 is in the model, as
in the code, and is never taken.

## 3. Runs

| Run | Shows |
|---|---|
| `stall` | Two dispatchers that may stall beyond the stale age, crash and race; recovery, switches, replay: type correctness, `AttemptLedger`, `OneClaimHolder`, `RetryBudget`, `OrphansOnlyFromReplay`, `TerminalStable`, `WindowNeverRestarts`; `RowsKeepContract`: every row implements `DeliveryContract`; `RequestsWithinWindow`: a request leaves later than `--abort-after` past the first claim of its generation only by as long as its worker was held up after the check. |
| `batch` | Two deliveries of one config in one batch, clocks that differ, `dispatchOne`s that end in time: `ExclusiveDispatch`, and `CancelJustified`: the unfenced `CancelDelivery` does not hit a later claim. |
| `policies` | The exact arithmetic with and without `--max-attempts`, and with the minimum delay above the maximum: `ScheduledInWindow`, `RetryAfterHonoured`, `AttemptsBounded`, and `Settles`. |
| `keys` | Two clients and two servers share two keys that expire: `AppliedOncePerKey`, `WalkComplete`. |
| `pages` | A walk over three deliveries with one row per page, repeated and lost answers, deliveries that come and go: `WalkComplete`, `PagesDisjoint`. |
| `retention` | Retention runs beside ingestion, workers, replays and config changes: `NothingLost`, `CreatedOnce`, `SelectedUnreferenced`, and `Collected`: a deleted config and what it had in flight are purged in the end. |
| `contents` | Rotations, updates, switches and a deletion while requests are signed and sent: `SignedTogether`, `RotationTrue`, `UpdatesSurvive`, `DeletedFrozen`. |
| `backfill` | The command, failing once, beside old workers and the config API, with and without webhooks that stop every run: `Reconciled`, `PendingOnlyOn`, `Completes`. |
| `client` | Two calls, one with retries and one without, on a slow and lossy network with expiring tokens and keys: `TokenFits`, `ExecutedOnce`, `ResultTrue`, `Returns`. |
| `replay_skew`, `requests`, `overflow` | Violations, section 5. |

*Bounds.* Two workers are the least that race and, since each row has one
claim at a time, a third adds only another stalled goroutine. One delivery is
enough for the properties of a row, because rows meet only in a claim, a
recovery, a replay or a switch that covers several of them, which `batch` has
with two. `MaxAttempts = 2` separates "first", "last" and "in between";
`MaxGeneration = 1` is one replay, and every property is about two adjacent
generations. `MaxTime` leaves room for claim, stall, recovery, second claim
and retry within the window, and for the window to run out. Workers are
interchangeable: no action or property names one, so they are declared
symmetric, in safety runs only.

In `Replay`, two handlers are what it takes for a repeated request to meet its
first run, two keys for a key to be reused beside another, and a page of one
row over three deliveries for a first, a middle and a last page. Handlers and
keys are symmetric. `Expiry = 0` in `pages` lets a key lapse with any tick;
`keys` has `Expiry = 1`, so a key is also found while it is valid.

In `Retention`, batches of one make every run leave something over, and a
redelivery window equal to the retention delays is the widest that
`RetentionAssumption` admits. One event with two configs has a delivery that
keeps its config and one that does not. A run is a process of its own and its
statements interleave with everything else; two runs at a time would meet only
in `SKIP LOCKED`. Its constants are not symmetric, because it checks liveness.

In `ConfigContents`, two processes are what it takes for one to come between
the two steps of another: `p1` rotates, `p2` rotates or sends. Three secrets
are an old one and one for each rotation; with two endpoints an update can be
undone. In `Backfill`, two webhooks and batches of one make a run that has to
come back for the rest and can fail in between; two attempts make a history
with a first and a last status, either of which may be written last; three
ticks are enough for an import to be overtaken, for the API to switch the
config, and for a settled attempt to become too old to be due. In `Client`, `MaxElapsed = 1` with pauses of one tick
allows one retry, and a lifetime of two ticks with a margin of one a token
that is valid for the first attempt and expired for the second. A key lives for
two ticks, so that a retry finds it and a request that was under way for longer
does not.

In `RetryCycle` the numbers are scaled: a "second" of 3 units and a largest
duration of 31 make 10 seconds the largest header that does not wrap;
`overflow` admits 11. The headers of the passing runs stay below the wrap.

*Deadlock* is checked in every run. `Tick` alone does not prevent it: at
`MaxTime` an event can still be redelivered, which the model (like the code)
always allows.

*Fairness* is assumed in four modules. In `Retention` (`FairSpec`): weak
fairness of time, of the start of a run (the ticker of `Retention.Run`) and of
the end of claimed deliveries (completion or recovery); strong
fairness of each statement of a run, since a run may be cut short any number
of times, but a statement tried for ever succeeds at last. Nothing is assumed
of clients, replays or configs.

In `RetryCycle`: weak fairness of claim, preflight,
failure, response, recovery and time. The dispatcher's loop polls on a timer
for ever and never gives up on an error, an HTTP exchange ends with an answer
or the client's timeout, and every worker runs the recovery. It is not assumed
that a client expedites a retry, nor that workers stop crashing by themselves:
`MaxCrashes` bounds the crashes of one generation, without which no delivery
need ever end.

In `Backfill`: weak fairness of the command, which includes its restart (an
operator who has to upgrade repeats it; `MaxFailures` bounds the failures that
are not in the data), and of the end of the old workers. In `Client`: weak fairness of each goroutine and
of time. That an exchange ends, if only with an error, is the timeout of the
`http.Client`, 60 seconds unless the user supplies another client; that a
server answers, or that a timeout of the operation is set, is not assumed.

## 4. Proofs

For any number of events, configs and workers, any retry policy and any clocks
that satisfy the assumptions of `Deliveries`:

| Theorem | States |
|---|---|
| `DeliveriesProofs!TypeCorrect` | `TypeOK` |
| `DeliveriesProofs!BudgetKept` | `RetryBudget`: no row counts more attempts than the cap, and none is pending with its budget spent |
| `DeliveriesProofs!ClaimHolderUnique` | `OneClaimHolder`: the fence admits one goroutine per row |
| `ContractProofs!Refinement` | `RowsKeepContract`: `Deliveries` implements `DeliveryContract`, row by row |
| `ContractProofs!LedgerAgrees` | `AttemptLedger`: the log and the row tell the same story |
| `ContractProofs!TerminalRowsStay` | `TerminalStable`: only a replay leads out of a failure, nothing out of success or cancellation |
| `ContractProofs!WindowKept` | `WindowNeverRestarts`, inside a generation |
| `ContractProofs!RequestsInWindow` | `RequestsWithinWindow`: a request is sent no later than `--abort-after`, the skew and the time its worker was held up since the preflight after the first claim of its generation |
| `ContractProofs!CancellationsJustified` | `CancelJustified`, if `JobDeadline + ClockSkew =< StaleAge` |
| `DeliveriesProofs!OrphansOnlyReplayed` | `OrphansOnlyFromReplay`: only a replay leaves a row pending under a config that is off |
| `DeliveriesProofs!DispatchExclusive` | `ExclusiveDispatch`, if `JobDeadline + ClockSkew =< StaleAge` |

For any number of rotations and senders, any endpoints and any secrets:

| Theorem | States |
|---|---|
| `ConfigContentsProofs!ContentsTypeCorrect` | `TypeOK` |
| `ConfigContentsProofs!SentTogether` | `SignedTogether`: endpoint and signature come from one version of the row |
| `ConfigContentsProofs!RotationsTrue` | `RotationTrue`: an answered secret was in force |
| `ConfigContentsProofs!NoUpdateLost` | `UpdatesSurvive`: nobody writes an endpoint back |
| `ConfigContentsProofs!DeletedStays` | `DeletedFrozen` |

For any webhooks, configs and batch size, any number of failed runs, and any
number of calls with any retry options, pauses and lifetimes of tokens:

| Theorem | States |
|---|---|
| `BackfillProofs!BackfillTypeCorrect` | `TypeOK` |
| `BackfillProofs!UpgradeReconciles` | `Reconciled`: after the last run, deliveries agree with the attempts that are due |
| `BackfillProofs!ImportsRespectConfigs` | `PendingOnlyOn`: nothing is pending under a config that is off |
| `ClientProofs!ClientTypeCorrect` | `TypeOK`, which bounds the attempts of a call |
| `ClientProofs!TokensFit` | `TokenFits`: a token that covers the operation and is honoured |
| `ClientProofs!CallsExecutedOnce` | `ExecutedOnce`: calls without retries once, replays once in the lifetime of their key |
| `ClientProofs!ResultsTrue` | `ResultTrue`: no success without an execution |

For any number of clients, servers, keys, deliveries, events, configs and
retention goroutines, any page and batch size and any delays:

| Theorem | States |
|---|---|
| `ReplayProofs!ReplayTypeCorrect` | `TypeOK` |
| `ReplayProofs!KeysAppliedOnce` | `AppliedOncePerKey`: while a key is kept, it changes the table once |
| `ReplayProofs!WalksComplete` | `WalkComplete`: a walk to the end leaves out no delivery that was always replayable |
| `ReplayProofs!WalkPagesDisjoint` | `PagesDisjoint`: no page has a delivery of an earlier one |
| `RetentionProofs!RetentionTypeCorrect` | `TypeOK` |
| `RetentionProofs!EventsNotLost` | `NothingLost`: an acknowledged event has got its deliveries |
| `RetentionProofs!DeliveriesCreatedOnce` | `CreatedOnce`: one delivery per event and config, ever |
| `RetentionProofs!SelectionUnreferenced` | `SelectedUnreferenced`: the purge of configs meets no foreign key |

For any policies, status codes, headers and any number of crashes:

| Theorem | States |
|---|---|
| `RetryCycleProofs!RetryCycleTypeCorrect` | `TypeOK`: in particular, no retry is scheduled in the past |
| `RetryCycleProofs!RetriesInWindow` | `ScheduledInWindow`, headers that overflow included |
| `RetryCycleProofs!RetriesWait` | `RetryAfterHonoured`, if `HeadersFit` |
| `RetryCycleProofs!AttemptsWithinBudget` | `AttemptsBounded`, if both delays of every policy are positive |

*Assumptions.* `PolicyAssumption` says that the last allowed attempt leaves no
delay, which `GetRetryDelay` ensures when `--max-attempts` is positive.
`ClockAssumption` says that clocks differ by no more than the stale age (five
minutes in the code). It is needed: a worker whose clock runs ahead by more
than the stale age recovers a claim in the instant it was made, the row is
claimed again at the same `claimed_at`, and two goroutines hold the same
token. `BoundAssumption` gives the bounds a type. `BackfillAssumption` types the
flags of the command and asks for some webhook. `ClientAssumption` has the two
facts `TokenFits` rests on: the margin of `hasTokenExpired` is no less than the
timeout of the `http.Client` (both are 60 seconds), and no token lives for less
than that timeout. `RetentionAssumption` has the one fact `CreatedOnce` rests on:
a row is kept for as long as the broker may deliver its message again.
`ReplayAssumption`, `NoneAssumption`, `DurationAssumption` and
`RetryCycleAssumption` are about types; they ask for some delivery, some
generation to replay into and some page.

Four theorems have a hypothesis of their own. `DispatchExclusive` and
`CancellationsJustified` are about `dispatchOne`s that end in time; `stall` is the
run without that. `RetriesWait` needs `HeadersFit`, that no number of seconds in
a header overflows when it is multiplied by `time.Second`, and `overflow` shows
what happens otherwise. `AttemptsWithinBudget` needs positive delays. The
defaults are a minute and more and the code does not check the flags, but with
`--min-backoff-delay 0` any number of delays fits into the window, so that
`Fitting` means nothing: without a cap on attempts, only the speed of the
endpoint bounds them then.

*Inductive invariants.* `Base` is `TypeOK` with, for each row and each running
goroutine, how status and attempt count go together; `RetryBudget`
alone is not inductive, because a completion writes the goroutine's copy and
so depends on the budget of that copy. `Claims` is `Fenced(d)` for every row:
no claim timestamp lies in the future; a goroutine whose claim is not the
row's has one that is past, so that the next claim cannot repeat it, unless
the row is cancelled and will never be claimed again; no two
goroutines of a delivery share one; and a goroutine that holds the row's claim
agrees with it on generation, count and window (`Agrees`; `Before` is the count
before the goroutine added its own attempt). It needs `LockedReplayable` as well:
rows that an open replay holds are failed or pending, so nobody completes them
in between.

*The contract.* `Inv` adds that a row which does not exist has no count, generation
or window. From it, `RowsEvolve` shows of every action that each row either
stays as it is or takes a step of the contract; `Evolves` is that step.
Refinement and the two action properties follow from it without looking at the
actions again. `AttemptLedger` is strengthened to `Ledger`, which the
steps of the contract preserve: `LedgerNext` looks at no action of the
dispatcher either.

*One dispatcher at a time.* `Prompt` says that a goroutine's row still carries
its claim and that it is not past its deadline. A recovery needs a claim older
than the stale age on a clock that may be fast by the skew, so under the
extra assumption it finds none that a goroutine still works on. The code does
not enforce the assumption; `stall` shows what holds without it.

*What the endpoint sees.* `RequestsWithinWindow` compares a request with the
first claim of its generation, which the code does not keep. `Opened` says that
it agrees with what the code has: `cycle_started_at` of the row and of the copy
of every goroutine, stale ones included, is the time at which their generation
was first claimed, and later generations have not been claimed. `Approved` adds
that a goroutine past the preflight was inside the window then. `LockedRoom`
bounds the generations. `Off` is the invariant for `CancelJustified`: a
goroutine about to cancel has seen the config off during the claim that is still
the row's (`Prompt`). Both rest on two lemmas about any step: `RowCauses`, who
changes a row and when, and `JobsGo`, what a goroutine does.

*Replay.* `KeyLocks` is the argument for `AppliedOncePerKey`: the advisory lock of a key
has one holder, that one has found no valid record, and the record is as old as
the last change under its key. For the walks, `Answers` says of every stored answer
that between the cursor of its request and the cursor it leads to, no row is
missing that was replayable all along; `Walked` says the same of what a client
has been told, and `Found` of what a transaction has found and locked. None of
them can be made false by what happens elsewhere, because the rows that
`steady` has only become fewer (`Shrink`), so a cached page is as good as a fresh one.
`FirstRows` and `PageAnswers` are about the `LIMIT` and the extra row that tells
whether there is a next page, and `Prefix` (deliveries are numbered in the order of
their creation) about the upper bound a first page fixes.

*Retention.* `Lived` ties a row to its message: the row is inserted once, is never
older than its message, and if it has been purged the broker no longer has the
message. The age of a row restarts whenever it changes, hence "never older". With it,
`EnqueueEvent` inserts only what was never there. `Owing` strengthens
`NothingLost` to messages that are stored and not yet acknowledged; `Selection`
adds that a selected config is deleted for good, so nothing can refer to it again.

*Retry cycle.* `delay` and `elapsed` of `Backoff` are recursive functions. The
induction theorems of the library take an operator as parameter, which the
provers cannot instantiate, so the proofs argue by least counterexample
(`LeastNat`, from the well-foundedness of the natural numbers): `RecursionExists`
and `RecursionUnique` say that primitive recursion defines a function, `DelayOfPolicy`
and `ElapsedOfPolicy` that the loops of the code compute it, `ElapsedGrows` that with
positive delays it passes every bound. `ScheduledRetry` is what a retry that
`classifyResponse` asks for satisfies, and `Budget` the invariant: the delays
granted so far fit into the window together, and while the generation is open
the cap leaves room for one more attempt. `AttemptsBounded` is not inductive,
since `Fitting` says nothing of the delay that comes next.

*Config contents.* `SignedTogether` and `RotationTrue` look at what a step did
and are not inductive: `ReadSeen` adds that a process under way has, among the
contents that justify it, the ones it has read, because whoever reads a config
sees one that is active (or not deleted) at that moment. A rotation to the
secret it has read writes nothing, and is justified by its own read; any other
one by its own write, unless the row is gone.

*Backfill.* A run reads the attempts of a webhook and writes its delivery in
separate steps, so `Reconciled` cannot be seen from the state in between.
`Agreed` says that a delivery which is not out of date tells all attempts,
unless the API cancelled it; it is kept because every write of the old workers
is later than all before (`Ordered`) and because what a run has read is what the
table has, or the last attempt it has read is older than some attempt of the
table (`ReadCurrent`), which then leaves the delivery out of date. `Finished` says that a
run which finds nothing out of date after the workers have stopped ends the
matter: from then on no attempt changes.

*Client.* A token is on its way for at most the timeout of the `http.Client`,
so `ExpiresAt` is late by no more than that (`InTime`), and a session that
passes `hasTokenExpired` is still honoured; this needs the age of the token
request (`Good`), which also says that every pause lasts a tick, so that the
elapsed time bounds the attempts. `Accounted` ties the keys the server has seen
to executions, since all attempts of a call carry one key; `Remembered` says that
what is left of a key and the time since the execution under it make up its
lifetime, so a key that is gone was last used that long ago. `SingleShot` is the
argument for calls without retries: the one request is not sent, on the wire, or
handled.

*Only model-checked*: liveness (`Settles`, `Collected`, `Completes`, `Returns`),
which needs fairness and is beyond the installed provers. Every other property
that a passing run checks is a theorem.

## 5. Where the code and its documents disagree

- `replay_skew`: `docs/architecture.md:28` has deactivation "cancel pending
  deliveries". A replay that read the config as active and commits after the
  deactivation, which saw the row as failed, leaves it pending under a config
  that is off. No claim takes it and nothing cancels it, until the config is
  activated again, when it is sent. `OrphansOnlyFromReplay` shows that this is
  the only way. If the config was deleted, the row stays, and with it the
  config: it is the case that `Collected` has to leave out.
- `requests`: `docs/retry-mechanism.md:67` calls `--max-attempts` "Maximum HTTP
  attempts per retry generation". The count rises only with a completion that
  was written. A request whose result was lost is sent again and not counted.
  `RetryBudget` and `RequestsWithinWindow` are what does hold.
- `overflow`: the comment at `pkg/attempt.go:57` says Retry-After is "clamped
  to maxRetryAfterDelay". The multiplication that precedes the clamp wraps for
  very large numbers; the plain backoff is then used.

`CancelJustified` holds only while `dispatchOne`s end before their claim is
stale: `CancelDelivery` carries no claim timestamp, so one that stalls between
reading an inactive config and cancelling hits whoever claimed the row after
the config was activated again. No document promises otherwise, hence no
violation run.

`docs/architecture.md:70` says that the backfill "always imports outstanding
retries". `Completes` has to leave out two cases (`Stuck`), and there is no third:

- A webhook that is due has an attempt whose `updated_at` is later than that of
  its last one (by `created_at`). The selection compares `deliveries.updated_at`
  with `MAX(updated_at)`, the import sets it to that of the last attempt, so every
  batch selects the webhook again and the command does not end. A claim or a
  recovery of an earlier attempt by an old worker is enough. What is outstanding
  is imported, unless such webhooks fill a batch: then the ones behind them, in
  the order of their first attempt, are not.
- The last attempt of a webhook has no config ID. Every run that gets to it fails
  there, and neither it nor what is behind it is imported.

The old workers are external to this repository, so whether they ever left such
data cannot be told from it; hence no violation run here either.

Other things a reader of the code may want to know, none of which a document
contradicts:

- `UpdateOneConfig` does not look at the number of rows it changed, so `PUT
  /configs/{id}` answers 200 for a config that does not exist or is deleted;
  the branch for `ErrConfigNotFound` in `update.go` is never taken. A `PUT`
  without a secret replaces the secret by a new one that no answer contains.
- The answer of a rotation has the endpoint and the state that were read before
  the write (section 2).
- The client keeps using a token after a 401 until it expires, see `Codes`. The
  comment on `afterErrorHook` (`hooks.go:60`) reads as if the hook were called
  for every "non-successful response", but the operations decide that.
- A `MaxElapsedTime` of 0, which the client's `retry.Config` has if nothing is
  set, means no limit; `ClientAssumption` leaves it out, since then `Returns`
  needs a timeout.
- `Reconciled` is about webhooks that are due. One that an early run imported
  as pending and that the old workers settled more than `--success-since` (or
  `--failed-since`) before the last run is not looked at again, stays pending,
  and is sent once more. The defaults are 30 and 90 days. A delivery that the
  API cancelled after its import stays cancelled, because its row is newer
  than its attempts. The outcome of an attempt in `delivery_attempts` is the
  one of its first import (`ON CONFLICT DO NOTHING`).
- A request may leave after the retry window, by as long as its worker was held
  up between the preflight and the call (section 2).
- The old attempts of an imported webhook keep the status they had, outstanding
  ones "to retry". A backfill that is run again after the new workers have
  settled the delivery and retention has purged it imports it as pending, and it
  is sent again. `docs/architecture.md` has the backfill end before the new
  workers start.
- A bulk replay whose answer was lost and that is repeated after its key has
  lapsed replays its page again. `PagesDisjoint` is about different pages of a
  walk.

## 6. Not modelled, and the plan

Not modelled, because there is no state and nothing to interleave: the bytes of
the signature and of cursors, the validation of request fields, the listing of
deliveries and attempts (read-only; its keyset paging is the one `Replay`
checks), and in the client the reflection that turns structures into query
strings, headers, bodies and back (`json.go`, `requestbody.go`,
`queryparams.go`, `security.go`). Also left out: wiring, flags, metrics and
tracing, and the running of migrations, of which the models have the unique
indexes and foreign keys.

Bulk replay and deactivation lock rows in different orders and may block each
other. PostgreSQL then aborts one, whose request fails as a whole (`Abort`,
`AbortReplay`); the cycle itself is not modelled.

`CreatedOnce` rests on `RetentionAssumption`: a broker that delivers a message
again after retention has purged its finished delivery has it made and sent a
second time. The default delays are 30 and 90 days; nothing checks the flags
against the broker.

The order of the work was: `Deliveries` with its runs and invariants, the
retry policy, the contract and its proof, `Replay`, `Retention`,
`ConfigContents`, `Backfill` and `Client`, and the proofs of their safety
properties. What is left is to weaken assumptions where the code allows it: the
bounds `MaxTime` and `MaxGeneration`, which every theorem takes as arbitrary but
given, and the purge of deliveries, which `Deliveries` and `Backfill` leave to
`Retention`.
